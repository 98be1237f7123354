SPECIFICATION LinkSpec
CONSTANTS
  CommandMax = 3
  CommandKinds = {"info_all", "ping", "reset"}
  HoldMax = 0
  PartCount = 2
  ReceiveLastMax = 3
  PingInterval = 1
  RestartWait = 1
  InfoInterval = 1
  DhcpMax = 2
  DnsMax = 1
  ArpMax = 1
  Watchdog = 12
  ConsoleKinds = {"p", "ib"}
INVARIANT TurnBounded

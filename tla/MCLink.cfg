SPECIFICATION FairLinkSpec
CONSTANTS
  CommandMax = 2
  CommandKinds = {"set", "send_on", "send_off", "info_all", "bad_info", "ping",
                  "reset", "unknown", "garbled", "stray"}
  HoldMax = 0
  PartCount = 2
  ReceiveLastMax = 3
  PingInterval = 1
  RestartWait = 1
  InfoInterval = 1
  DhcpMax = 2
  DnsMax = 3
  ArpMax = 2
  Watchdog = 2
  ConsoleKinds = {"p", "ir", "ib", "ip"}
INVARIANT LinkTypeOK
PROPERTIES NoNeedlessRestart CarriedOutOnce KeepsChannel LinkRecovers MirrorFollows

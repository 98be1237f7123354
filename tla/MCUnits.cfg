SPECIFICATION UnitsSpec
CONSTANTS
  AgeMax = 3
  BootAge = 3
  SwitchMinimum <- MCSwitchMinimum
  HoldMinimum = 2
  PulseNeeded = 1
  ManualDevices <- MCManualDevices
  CanReset = TRUE
  SensorCount = 2
  CounterSize = 4
  TotalSize = 6
  Burst = 3
  UpdateInterval = 1
  SetValues = {0, 4}
  AddValues = {5}
  SocketCount = 2
  HeaderSize = 2
  CommitAt = 4
  BufferSize = 7
  AddressSize = 8
  Sizes = {0, 1, 3}
  LoadMax = 7
  ReadMax = 2
  SendBuffer = 2048
  PointerSize = 65536
  FirstPointers = {65000}
  SendMax = 3
  DhcpServers = {"A", "B"}
  FirstXids = {1}
  Response = 1
  Timeout = 1
  LeaseRuns = 2
  XidMax = 3
  FlightMax = 3
  DnsIds = {1, 2}
  DnsPorts = {7, 8}
  DnsTimeout = 1
  DnsTries = 3
  Hosts = {1, 2}
  Requests = {r1, r2}
  MessageMax = 2
  KillMax = 1
  WordSize = 65536
  LongSize = 16777216
  Digits = {0, 1, 9}
  DigitMax = 7
INVARIANTS UnitsTypeOK RelaysFollow BelievedRuns ParseReturns SendsWhatWasWritten LeaseIsGranted
  DhcpBounded DnsBounded NumberIsDecimal
PROPERTIES LatchAgrees CountsPulses ReadsDatagrams AnswerIsFresh HandsOver
CHECK_DEADLOCK FALSE

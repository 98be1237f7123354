SPECIFICATION Spec
CONSTANTS
  AgeMax = 2
  BootAge = 2
  SwitchMinimum <- MCSwitchMinimum
  HoldMinimum = 1
  PulseNeeded = 1
  ManualDevices = {14}
  CanReset = FALSE
  Second = 1
  PulsesPerLiter <- MCPulsesPerLiter
  PulsesStep = 1
  PulsesMax = 2
  FaultInterval = 0
  FaultMinimum = 1
  FaultMaximum = 1
  LiveSensors = {1, 3}
  PressureFails = FALSE
  ConsoleFlows = {1, 3}
  ConsoleVolumes = {0, 1}
  ConsoleTimes = {1}
  Programs = {}
  Cleanings = {TRUE, FALSE}
  StartIn = {"FINISHED"}
  StopIn = {}
  ResumeIn = {"FINISHED"}
  DefaultConfig <- WaterOnly
  Configs <- JustWater
  DetectionChoices = {FALSE}
INVARIANTS FlowDevicesFollow
PROPERTIES WaterFlushes

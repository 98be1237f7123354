SPECIFICATION ObservedSpec
CONSTANTS
  AgeMax = 4
  BootAge = 4
  SwitchMinimum <- MCSwitchMinimum
  HoldMinimum = 1
  PulseNeeded = 1
  ManualDevices = {}
  CanReset = FALSE
  Second = 1
  PulsesPerLiter <- MCPulsesPerLiter
  PulsesStep = 1
  PulsesMax = 3
  FaultInterval = 1
  FaultMinimum = 1
  FaultMaximum = 1
  LiveSensors = {1, 2}
  PressureFails = FALSE
  ConsoleFlows = {}
  ConsoleVolumes = {}
  ConsoleTimes = {}
  Programs = {"GROUP_1"}
  Cleanings = {FALSE}
  StartIn = {"FINISHED"}
  StopIn = {"READY", "FINISHING"}
  ResumeIn = {"FINISHED"}
  DefaultConfig <- LongDosing
  Configs <- JustLongDosing
  DetectionChoices = {}
PROPERTIES MoreIsMore

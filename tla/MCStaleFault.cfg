SPECIFICATION Spec
CONSTANTS
  AgeMax = 2
  BootAge = 2
  SwitchMinimum <- MCSwitchMinimum
  HoldMinimum = 1
  PulseNeeded = 1
  ManualDevices = {}
  CanReset = FALSE
  Second = 1
  PulsesPerLiter <- MCPulsesPerLiter
  PulsesStep = 0
  PulsesMax = 0
  FaultInterval = 0
  FaultMinimum = 1
  FaultMaximum = 1
  LiveSensors = {}
  PressureFails = TRUE
  ConsoleFlows = {}
  ConsoleVolumes = {}
  ConsoleTimes = {}
  Programs = {"GARDEN"}
  Cleanings = {FALSE}
  StartIn = {"FINISHED"}
  StopIn = {"READY", "FINISHING"}
  ResumeIn = {"FINISHED"}
  DefaultConfig <- WaterOnly
  Configs <- JustWater
  DetectionChoices = {}
INVARIANTS FaultAnswered

SPECIFICATION Spec
CONSTANTS
  AgeMax = 2
  BootAge = 2
  SwitchMinimum <- MCSwitchMinimum
  HoldMinimum = 1
  PulseNeeded = 1
  ManualDevices = {}
  CanReset = TRUE
  Second = 1
  PulsesPerLiter <- MCPulsesPerLiter
  PulsesStep = 0
  PulsesMax = 0
  FaultInterval = 1
  FaultMinimum = 1
  FaultMaximum = 1
  LiveSensors = {}
  PressureFails = FALSE
  ConsoleFlows = {}
  ConsoleVolumes = {}
  ConsoleTimes = {}
  Programs = {"GROUP_1", "GROUP_2", "BOTH", "CLEANING", "GARDEN", "UNKNOWN"}
  Cleanings = {TRUE, FALSE}
  StartIn = {"FINISHED", "PREPARING", "READY", "FINISHING"}
  StopIn = {"FINISHED", "PREPARING", "READY", "FINISHING"}
  ResumeIn = {"FINISHED", "PREPARING", "READY", "FINISHING"}
  DefaultConfig <- WaterOnly
  Configs <- WaterConfigs
  DetectionChoices = {}
INVARIANTS TypeOK PumpPower PumpHasWay StoppedAtRest
PROPERTIES WarmBeforePump UnloadedBeforeOff

SPECIFICATION FairObservedSpec
CONSTANTS
  AgeMax = 2
  BootAge = 2
  SwitchMinimum <- MCSwitchMinimum
  HoldMinimum = 1
  PulseNeeded = 1
  ManualDevices = {}
  CanReset = FALSE
  Second = 1
  PulsesPerLiter <- MCPulsesPerLiter
  PulsesStep = 0
  PulsesMax = 0
  FaultInterval = 1
  FaultMinimum = 1
  FaultMaximum = 1
  LiveSensors = {}
  PressureFails = FALSE
  ConsoleFlows = {}
  ConsoleVolumes = {}
  ConsoleTimes = {}
  Programs = {"GROUP_1", "GROUP_2", "BOTH", "CLEANING", "GARDEN"}
  Cleanings = {TRUE, FALSE}
  StartIn = {"FINISHED"}
  StopIn = {"READY", "FINISHING"}
  ResumeIn = {"FINISHED"}
  DefaultConfig <- WaterOnly
  Configs <- JustWater
  DetectionChoices = {}
INVARIANTS ValvesMatchStage RestsOff
PROPERTIES FollowsPlan FullWatering ProgramsEnd

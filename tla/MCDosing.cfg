SPECIFICATION ObservedSpec
CONSTANTS
  AgeMax = 3
  BootAge = 3
  SwitchMinimum <- MCSwitchMinimum
  HoldMinimum = 1
  PulseNeeded = 1
  ManualDevices = {}
  CanReset = FALSE
  Second = 1
  PulsesPerLiter <- MCPulsesPerLiter
  PulsesStep = 1
  PulsesMax = 3
  FaultInterval = 0
  FaultMinimum = 1
  FaultMaximum = 1
  LiveSensors = {1, 2}
  PressureFails = FALSE
  ConsoleFlows = {}
  ConsoleVolumes = {}
  ConsoleTimes = {}
  Programs = {"BOTH"}
  Cleanings = {FALSE}
  StartIn = {"FINISHED"}
  StopIn = {"READY", "FINISHING"}
  ResumeIn = {"FINISHED"}
  DefaultConfig <- Dosing
  Configs <- JustDosing
  DetectionChoices = {}
INVARIANTS FaultAnswered RestsOff DosesIntoWater FlowsLimited
PROPERTIES FaultStopsAll LessIsLess

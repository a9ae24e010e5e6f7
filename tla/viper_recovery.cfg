SPECIFICATION FairSpec
CONSTANTS
  Stations <- OneStation
  PipeRoom = 2
  Faults <- NoisyFaults
  MaxFaults = 1
  RequiredSensors = 1
  Sources <- TwoSources
  Requests = {"source"}
  Interrupts = TRUE
PROPERTIES Recovers InterruptEnds

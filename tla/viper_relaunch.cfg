SPECIFICATION FairSpec
CONSTANTS
  Stations <- TwoStations
  PipeRoom = 3
  Faults = {"crash"}
  MaxFaults = 2
  RequiredSensors = 2
  Sources <- SourceNumbers
  Requests = {"calibrate"}
  Interrupts = FALSE
INVARIANT LayeredAtMostOnce
PROPERTIES SetsBackPastEuler Answered

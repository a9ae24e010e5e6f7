SPECIFICATION Spec
CONSTANTS
  Stations <- TwoStations
  PipeRoom = 3
  Faults <- AnyFault
  MaxFaults = 1
  RequiredSensors = 2
  Sources <- SourceNumbers
  Requests = {"calibrate"}
  Interrupts = FALSE
INVARIANTS TypeOK IndexesFrame

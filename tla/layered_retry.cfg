SPECIFICATION Spec
CONSTANTS
  Stations <- OneStation
  PipeRoom = 3
  Faults = {"read"}
  MaxFaults = 1
  RequiredSensors = 1
  Sources <- SourceNumbers
  Requests = {}
  Interrupts = FALSE
INVARIANT LayeredAtMostOnce

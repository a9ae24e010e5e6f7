SPECIFICATION FairSpec
CONSTANTS
  Stations <- OneStation
  PipeRoom = 3
  Faults = {"read"}
  MaxFaults = 1
  RequiredSensors = 1
  Sources <- SourceNumbers
  Requests = {"calibrate"}
  Interrupts = FALSE
PROPERTY Recovers

SPECIFICATION FairSpec
CONSTANTS
  Stations <- TwoStations
  PipeRoom = 2
  Faults = {"sensor"}
  MaxFaults = 2
  RequiredSensors = 1
  Requests = {}
  Interrupts = FALSE
  Garbage <- NoGarbage
PROPERTY DealsWithDropouts

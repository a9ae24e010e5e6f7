SPECIFICATION Spec
CONSTANTS
  Stations <- TwoStations
  PipeRoom = 2
  Faults <- AnyFault
  MaxFaults = 2
  RequiredSensors = 2
  Requests = {"calibrate"}
  Interrupts = FALSE
  Garbage <- SomeGarbage
INVARIANTS TypeOK NeverLayered
PROPERTIES ReadyInQuaternions RestoresKept

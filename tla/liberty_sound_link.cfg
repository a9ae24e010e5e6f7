SPECIFICATION FairSpec
CONSTANTS
  Stations <- TwoStations
  PipeRoom = 2
  Faults <- LiveFaults
  MaxFaults = 1
  RequiredSensors = 2
  Requests = {"calibrate"}
  Interrupts = TRUE
  Garbage <- NoGarbage
INVARIANT CorrectsWhatItAwaited
PROPERTIES PublishesQuaternions CalibrationCompletes Recovers InterruptEnds Answered

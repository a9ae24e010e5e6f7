SPECIFICATION Spec
CONSTANTS
  Stations <- OneStation
  PipeRoom = 3
  Faults <- LinkFaults
  MaxFaults = 1
  RequiredSensors = 1
  Sources <- SourceNumbers
  Requests = {"calibrate", "source"}
  Interrupts = FALSE
PROPERTIES ReadyMeansConfigured CalibrationSuccess SourceSuccess EulerOnlyWhileEuler ImplementsService
VIEW WithoutCalibrations

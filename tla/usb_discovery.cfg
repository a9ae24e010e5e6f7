SPECIFICATION Spec
CONSTANTS
  NumDevices = 3
  NumInterfaces = 3
  ErrorCodes <- LibusbErrors
INVARIANTS TypeOK AllOrNothing
PROPERTIES ReleasesAll SearchesAll

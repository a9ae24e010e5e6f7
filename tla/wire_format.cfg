SPECIFICATION Spec
CONSTANTS
    Bytes <- EveryByte
    MaxBytes = 2
    StationNumbers <- RightAndLeftGlove
    Payloads <- ConfigSizes
INVARIANTS
    TypeOK
    ChecksumIsCrc
    TrailerChecks
    SizeEndsFrame
    CountsAgree
\* The jobs end.
CHECK_DEADLOCK FALSE

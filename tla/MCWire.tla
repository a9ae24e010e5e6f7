------------------------------- MODULE MCWire -------------------------------
(* Values of the constants for TLC.                                        *)
EXTENDS WireFormat

EveryByte   == SUBSET Bits(8)
RightAndLeftGlove == (0..4) \cup (8..12) \cup {15}
ConfigSizes == {0, 4, 8, 16}
=============================================================================

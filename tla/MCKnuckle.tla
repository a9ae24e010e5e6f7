----------------------------- MODULE MCKnuckle -----------------------------
(* A small instance of KnuckleCalibration for TLC.                         *)
EXTENDS KnuckleProperties

BothHands == <<"rh", "lh">>
=============================================================================

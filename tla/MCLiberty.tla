----------------------------- MODULE MCLiberty -----------------------------
(* Small instances of LibertyDriver for TLC.                               *)
EXTENDS LibertyProperties

OneStation  == {1}
TwoStations == {1, 2}

AnyFault    == FaultKinds
LiveFaults  == {"read", "sensor", "crash"}

NoGarbage   == {}
SomeGarbage == {3}
=============================================================================

------------------------------ MODULE MCViper ------------------------------
(* Small instances of ViperDriver for TLC.                                 *)
EXTENDS ViperProperties

OneStation    == {1}
TwoStations   == {1, 2}

LinkFaults    == {"read", "write_lost", "write_unreported"}
AnyFault      == FaultKinds
NoisyFaults   == {"read", "sensor"}

SourceNumbers == {0, 1, 3}
TwoSources    == {1, 3}

(* The view of a run without relaunches: what the rest of a behaviour and  *)
(* the run's properties depend on.  Calibrations are only written; once    *)
(* main is in its loop nothing looks at what the set-up left in its        *)
(* variables, and the last frame is looked at only until it is used.       *)
SetUpView == IF pc = "exited" \/ InLoop THEN <<>>
             ELSE <<pno, station_count, nb_attempts, station_id, params>>

FrameView ==
    IF pc \in {"cal_reset", "cal_save"} \/ (call = "done" /\ return_value > 0 /\ pc \in PnoLabels)
    THEN pno.units ELSE "none"

WithoutCalibrations ==
    <<deviceVars, faults, call, attempt, g_nrxcount, return_value,
      pc, flag, timer, keep_main_loop_running, client, FrameView, SetUpView>>
=============================================================================

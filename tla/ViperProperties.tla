-------------------------- MODULE ViperProperties --------------------------
(***************************************************************************)
(* What the driver of ViperDriver promises.  The Eff operators of          *)
(* ViperDevice stand for the device once it has carried out the command it *)
(* has been sent: the driver cannot tell the two apart, because a reply is *)
(* matched by command type only and may be the reply to an earlier command.*)
(***************************************************************************)
EXTENDS ViperDriver

(* Every variable keeps its type: in particular receive_data_frame never   *)
(* counts beyond its attempts and send_saved_calibration never below zero. *)
TypeOK == DeviceTypeOK /\ LinkTypeOK /\ AppTypeOK

(* Where frames are looked up by index (pno.SensFrame(n)), the bound       *)
(* station_count is that of the frame in pno, and the frame is complete:   *)
(* station_count is also set from the station map, and a larger count makes*)
(* calibrate dereference a null pointer (viper.cpp:557).                   *)
Indexing == {"cal_save", "sv_euler", "sv_bore", "sv_quat"}

IndexesFrame ==
    pc \in Indexing => /\ station_count = Cardinality(pno.sensors)
                      /\ station_count >= RequiredSensors

(* When main enters its loop, the device builds quaternion frames and is   *)
(* in continuous mode: whatever failed, was retried or was answered late   *)
(* during the set-up, main got here only past a QUAT and a CONTINUOUS that *)
(* reached the device after the last EULER and the last RESET.  It takes a *)
(* device that refuses nothing: the acknowledgement of a data-mode RESET,  *)
(* which the code does not read, has the type of the CONTINUOUS after it   *)
(* and can stand in for the refusal of that one.                           *)
EntersLoop == pc = "sv_cont" /\ pc' = "lp_recv"

ReadyMeansConfigured ==
    [][EntersLoop => EffUnits' = "quat" /\ EffStreaming']_vars

(* No station carries two saved corrections: the boresight is reset before *)
(* one is sent, across relaunches too (README.md:60, polhemus.hpp).        *)
LayeredAtMostOnce == \A s \in Stations : EffLayers[s] <= 1

(* main publishes every frame as a quaternion, and calibrate saves its     *)
(* angles as if from one: neither looks at bfOriUnits (fill_pno_data,      *)
(* get_station_quaternion).  A frame that is used so holds Euler angles    *)
(* only while the device itself is in Euler units, where a calibration that*)
(* failed past its EULER may leave it: no frame built before a QUAT        *)
(* outlives that QUAT in the pipe, whatever waits there and however many   *)
(* calibrations run back to back, because the stream stops before EULER.   *)
EulerOnlyWhileEuler ==
    [][(MainLoopPublish \/ CalibrateSave) /\ pno.units = "euler" => EffUnits = "euler"]_vars

(* Every station is at zero with no correction.                            *)
Zero == EffZeroed /\ \A s \in Stations : EffLayers[s] = 0

Answers(kind, res) == client.kind = kind /\ Pending /\ client'.reply = res

(* A calibration reported as done is done: every station is at zero with   *)
(* no earlier correction under it, the units are back to quaternion and    *)
(* the device streams.  (Again with a device that refuses nothing, as in   *)
(* SourceSuccess: the acknowledgement taken for a command's may be that of *)
(* an earlier one of its type.)                                            *)
CalibrationSuccess ==
    [][Answers("calibrate", "success") =>
         /\ EffUnits' = "quat" /\ EffStreaming'
         /\ EffZeroed' /\ \A s \in Stations : EffLayers'[s] = 0]_vars

(* A calibration that sets the data type to Euler angles and is told so    *)
(* sets it back (README.md:95): over a sound link late answers, stale ones *)
(* of queued calibrations included, can make it fail up to the reply to    *)
(* EULER but no later, since that reply is found only on a link with       *)
(* nothing else under way.                                                 *)
PastEuler == {"cal_zero", "cal_quat", "cal_cont"}

SetsBackPastEuler ==
    [][Answers("calibrate", "failure") => pc \notin PastEuler]_vars

(* set_source.srv: success says whether the source was set.  A success:    *)
(* every station the request names has, or is about to have, that source.  *)
Requested == Addressed(SetSource(client.source, client.station))

SourceSuccess ==
    [][Answers("source", "success") =>
         \A s \in Requested : EffSrcmap'[s] = SourceMap(client.source)]_vars

(* Whatever interrupted it, the driver gets back to publishing as long as  *)
(* it lives, sensors are present and clients leave it alone (README.md:78).*)
Publishing == pc = "lp_recv" /\ call = "done" /\ return_value > 0

Recovers == <>[](pc # "exited" /\ ~Pending /\ sensors # {}) => []<>Publishing

(* SIGINT ends the process, from wherever in the loop or in a service it   *)
(* comes ("shutdown if SIGINT", polhemus_tf_broadcaster.cpp:537).          *)
InLoop == pc \in {"lp_recv", "lp_reset", "lp_cont", "lp_spin", "src_set", "sd_reset",
                  "cal_single", "cal_bore", "cal_first", "cal_wait", "cal_reset", "cal_save",
                  "cal_dump", "cal_euler", "cal_zero", "cal_quat", "cal_cont"}

InterruptEnds == (InLoop /\ ~keep_main_loop_running) ~> pc = "exited"

(* A client is answered, or the process it called has ended or been        *)
(* relaunched: no wait of the driver is without an end.                    *)
Answered == Pending ~> (~Pending \/ pc = "exited")

(* The driver implements TrackerService: besides the successes above, it   *)
(* changes units, boresight and sources only while it starts or on behalf  *)
(* of the request it serves, the sources only at the stations the request  *)
(* names, and main's recovery and shutdown change nothing but the stream.  *)
Phase == IF pc = "exited" THEN "stopped" ELSE IF InLoop THEN "ready" ELSE "starting"

Tracker == INSTANCE TrackerService
               WITH phase <- Phase, request <- client, units <- EffUnits,
                    streaming <- EffStreaming, zero <- Zero, srcmap <- EffSrcmap

ImplementsService == Tracker!Spec

----------------------------------------------------------------------------
(* What the documentation says and the code does not keep (README.md of    *)
(* this project, 3): each is violated under the named instance.            *)

(* A calibration that failed has not left the device in Euler units        *)
(* (README.md:95: "The data type is then set back to quaternion").  Three  *)
(* calibrations that queue up break it without any fault: each finds       *)
(* answers to the one before it, and the third misses EULER's.             *)
CalibrationRestores ==
    [][Answers("calibrate", "failure") => EffUnits' = "quat"]_vars

(* A source request that failed has not set the source.                    *)
SourceFailure ==
    [][Answers("source", "failure") /\ client.source >= 1 =>
         \E s \in Requested : EffSrcmap'[s] # SourceMap(client.source)]_vars
=============================================================================

------------------------- MODULE LibertyProperties -------------------------
(***************************************************************************)
(* What the driver of LibertyDriver promises.  The Eff operators of        *)
(* LibertyDevice stand for the device once it has carried out the command  *)
(* it has been sent.                                                       *)
(***************************************************************************)
EXTENDS LibertyDriver

(* Every variable keeps its type.                                          *)
TypeOK == DeviceTypeOK /\ AppTypeOK

(* No station carries a saved correction on top of anything else: the      *)
(* boresight is reset before the corrections are sent, across failures and *)
(* relaunches, and each station is sent one (README.md:60).                *)
NeverLayered == \A s \in Stations : EffBore[s] # "layered"

(* When main enters its loop the device builds quaternion records: no      *)
(* command is acknowledged and every write may fail, or seem to, but none  *)
(* after "O" that main goes on from changes the format.                    *)
EntersLoop == pc = "sv_cont" /\ pc' = "lp_recv"

ReadyInQuaternions == [][EntersLoop => EffUnits' = "quat"]_vars

(* The records main publishes are quaternion records (fill_pno_data reads  *)
(* them as such), as long as no write fails: calibrate ignores the results *)
(* of the three writes between which the format is Euler angles.           *)
Publishes == pc = "lp_recv" /\ pc' = "lp_spin" /\ flag' = 0

PublishesQuaternions == [][Publishes => stations'.units = "quat"]_vars

(* The correction about to be sent to station station_id + 1 is computed   *)
(* from record station_id of the last frame (liberty.cpp:306, 321,         *)
(* "compute correction needed to calibrate sensor to 0").  Where the node  *)
(* has a saved calibration among its parameters, so that a whole frame was *)
(* awaited, that record is a measurement of that very station with no      *)
(* boresight on it, also when the device was left boresighted by a run     *)
(* that died, and a stream of its frames unread.  It is proved for a first *)
(* life and checked for a relaunch; it fails after several relaunches with *)
(* failed reads, whose unread answers to ^u add up (one more in each life).*)
RecordStation(i) ==
    {s \in stations.sensors : Cardinality({t \in stations.sensors : t < s}) = i}

Correcting ==
    /\ stations.units = "quat"
    /\ RecordStation(station_id) = {station_id + 1}
    /\ station_id + 1 \in stations.raw

CorrectsWhatItAwaited == pc = "sv_bore" /\ params # {} => Correcting

(* Where the parameter server still holds the angles of every station, the *)
(* corrections are in force when main enters its loop: none is left out or *)
(* lost unseen, and nothing sent after them takes one back.                *)
RestoresKept ==
    [][EntersLoop /\ (\A s \in Stations : store[s] # "none") =>
          \A s \in Stations : s <= station_count => EffBore'[s] = "corrected"]_vars

(* A calibration that runs to its end over writes that do not fail has     *)
(* zeroed every station and left the device streaming quaternions, however *)
(* the frames it waited for and cleared came in between.                   *)
CalibrationCompletes ==
    [][pc = "cal_cont" /\ client' = "success" =>
         /\ \A s \in Stations : EffBore'[s] = "zero"
         /\ EffUnits' = "quat" /\ EffStreaming']_vars

(* Whatever interrupted it, the driver gets back to publishing as long as  *)
(* it lives, sensors are present, no more of them than it last counted,    *)
(* and no calibration is asked for.                                        *)
Publishing == pc = "lp_spin" /\ flag = 0

Undisturbed == pc # "exited" /\ client # "pending" /\ sensors # {} /\ binary

Recovers ==
    <>[](Undisturbed /\ Cardinality(sensors) <= station_count) => []<>Publishing

(* A driver that has published all of its stations deals with sensors that *)
(* drop out and come back (README.md:78).                                  *)
DealsWithDropouts ==
    <>(Publishing /\ station_count = Cardinality(Stations)) /\ <>[]Undisturbed => []<>Publishing

(* SIGINT ends the process, from wherever in the loop or in the service it *)
(* comes, unless it dies before and a new one is launched.                 *)
InLoop == \/ pc \in {"lp_recv", "lp_reset", "lp_clear", "lp_cont", "lp_spin", "cal_dump"}
          \/ pc \in {"cal_bore", "cal_first", "cal_wait", "cal_reset", "cal_clear"}
          \/ pc \in {"cal_euler", "cal_zero", "cal_quat", "cal_cont"}

InterruptEnds == (InLoop /\ ~keep_main_loop_running) ~> pc \in {"exited", "su_init"}

(* A client is answered, or the process it called ends: no wait for frames *)
(* and no clearing of the input goes on for ever.                          *)
Answered == client = "pending" ~> (client # "pending" \/ pc = "exited")

----------------------------------------------------------------------------
(* What the documentation says and the code does not keep (README.md of    *)
(* this project, 3): each is violated under the named instance.            *)

(* The corrections come from a frame that was read at all (README.md:95).  *)
CorrectsWhatItMeasured == pc = "sv_bore" => Correcting

(* The saved calibration is in force when main enters its loop, at every   *)
(* station that has one and is in the frame (README.md:76, 95).            *)
RestoresCalibration ==
    [][EntersLoop => \A s \in params \cap stations.sensors : EffBore'[s] = "corrected"]_vars

(* The angles calibrate saves are those of the sensor itself: a boresight  *)
(* in force when the frame was built would be part of them.                *)
SavesRaw == \A s \in Stations : store[s] # "boresighted"

(* A frame that is asked for fits the buffer malloc'ed for it.             *)
FrameFitsBuffer == pc \in PnoLabels => station_count <= allocated

(* The device is told to answer in binary before anything else is asked    *)
(* (README.md:62).                                                         *)
ActivatesBinary == pc \notin {"su_init", "exited"} => BinaryAfter(inbox)

(* A calibration that is answered with success was carried out: every      *)
(* station is at zero, and the device streams quaternions again.           *)
CalibrationSuccess ==
    [][client = "pending" /\ client' = "success" =>
         /\ \A s \in Stations : EffBore'[s] = "zero"
         /\ EffUnits' = "quat" /\ EffStreaming']_vars
=============================================================================

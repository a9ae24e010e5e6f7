--------------------------- MODULE LibertyDriver ---------------------------
(***************************************************************************)
(* The driver process for a Liberty (main of polhemus_tf_broadcaster.cpp   *)
(* and the procedures of polhemus.cpp and liberty.cpp it runs), the client *)
(* of its calibration service, the parameter server and the calibration    *)
(* file.  A command is a write and nothing more, so one action is one USB  *)
(* transfer with the code that runs until the next.  The prefixes of the   *)
(* labels are those of ViperDriver.                                        *)
(***************************************************************************)
EXTENDS LibertyDevice

CONSTANTS RequiredSensors, \* sensors_right_glove + sensors_left_glove
          Requests,        \* the services clients call: "calibrate"
          Interrupts,      \* whether SIGINT may come
          Garbage          \* the counts that uninitialised memory may hold

ASSUME DriverAssumption == /\ RequiredSensors \in Nat
                           /\ Requests \subseteq {"calibrate"}
                           /\ Interrupts \in BOOLEAN
                           /\ Garbage \subseteq 0..16

VARIABLES pc,
          return_value,            \* of the write that device_reset clears the input after
          g_nrxcount,              \* the size its next read asks for
          stations,                \* the last frame read into the driver's buffer
          allocated,               \* the records that buffer has room for
          station_count,
          flag,                    \* main's "awful flag thingy"
          station_id,              \* the index send_saved_calibration has reached
          timer,                   \* CALIBRATE_TIMEOUT_IN_SECS
          keep_main_loop_running,
          client,                  \* the calibration call in progress, or the last one
          params,                  \* stations with a calibration among the node's parameters
          store,                   \* "/calibration" on the parameter server, per station
          file                     \* boresight_calibration_file, per station

progVars == <<pc, return_value, g_nrxcount, stations, allocated, station_count, flag,
              station_id, timer, keep_main_loop_running>>
dataVars == <<client, params, store, file>>
vars     == <<deviceVars, faults, progVars, dataVars>>

RETURN_ERROR == -1
LIBERTY_RX_BUF_SIZE == 512

ResetLabels == {"su_reset", "sv_reset", "lp_reset", "cal_reset", "end_reset"}
ClearLabels == {"su_clear", "sv_clear", "lp_clear", "cal_clear", "end_clear"}
SendLabels  == {"su_bore", "su_map", "su_quat", "su_hemi", "su_cont", "sv_bore", "sv_cont",
                "lp_cont", "cal_bore", "cal_euler", "cal_zero", "cal_quat", "cal_cont"}
PnoLabels   == {"sv_first", "sv_wait", "lp_recv", "cal_first", "cal_wait"}
Labels      == ResetLabels \cup ClearLabels \cup SendLabels \cup PnoLabels
                   \cup {"su_init", "su_mapread", "lp_spin", "cal_dump", "exited"}

(* No angles, angles of a rotation without any boresight, angles of one    *)
(* that a boresight had changed, or numbers that are no quaternion.        *)
Saved   == {"none", "raw", "boresighted", "misread"}
NoFrame == [head |-> "ascii", units |-> "quat", sensors |-> {}, raw |-> {}]

AppTypeOK ==
    /\ pc \in Labels
    /\ return_value \in {RETURN_ERROR, 0}
    /\ g_nrxcount \in Nat
    /\ stations \in Frames
    /\ allocated \in Nat
    /\ station_count \in Nat
    /\ flag \in 0..2
    /\ station_id \in Nat
    /\ timer \in {"off", "running", "expired"}
    /\ keep_main_loop_running \in BOOLEAN
    /\ client \in {"none", "pending", "success", "failure"}
    /\ params \in SUBSET Stations
    /\ store \in [Stations -> Saved]
    /\ file \in [Stations -> Saved]

(* A new process: its object and its buffers are not initialised.          *)
ProcessInit ==
    /\ pc = "su_init"
    /\ return_value = RETURN_ERROR
    /\ g_nrxcount = 0
    /\ stations = NoFrame
    /\ allocated = 0
    /\ station_count \in Garbage \cup {0}
    /\ flag = 0 /\ station_id = 0
    /\ timer = "off"
    /\ keep_main_loop_running = FALSE

(* A first launch, on a new parameter server or on one that an earlier run *)
(* has saved to.                                                           *)
Init ==
    /\ DeviceInit
    /\ ProcessInit
    /\ client = "none"
    /\ params \in SUBSET Stations
    /\ file = [s \in Stations |-> IF s \in params THEN "raw" ELSE "none"]
    /\ store \in {file, [s \in Stations |-> "none"]}

----------------------------------------------------------------------------
(* The transfers.                                                          *)

(* The command the code sends at a label.                                  *)
Command(l) ==
    CASE l \in ResetLabels                                  -> Cmd("p")
      [] l \in {"su_bore", "cal_bore"}                      -> Cmd("^b")
      [] l = "su_map"                                       -> Cmd("^u")
      [] l = "su_hemi"                                      -> Cmd("h")
      [] l \in {"su_quat", "cal_quat"}                      -> OutputFormat("quat")
      [] l = "cal_euler"                                    -> OutputFormat("euler")
      [] l \in {"su_cont", "sv_cont", "lp_cont", "cal_cont"} -> Cmd("c")
      [] l = "sv_bore"                                      -> Boresight(station_id + 1, "correction")
      [] l = "cal_zero"                                     -> Boresight(AllStations, "zero")
      [] OTHER                                              -> NoCommand

(* device_send: rc is what the code sees.  A write waits until the device  *)
(* has taken the command before; one that is taken for failed may have     *)
(* reached the device.                                                     *)
Send(l, rc) ==
    /\ pc = l
    /\ \/ rc = 0 /\ inbox = NoCommand /\ inbox' = Command(l) /\ UNCHANGED faults
       \/ rc = RETURN_ERROR /\ Fault("write_lost") /\ UNCHANGED inbox
       \/ /\ rc = RETURN_ERROR /\ Fault("write_unreported")
          /\ inbox = NoCommand /\ inbox' = Command(l)
    /\ UNCHANGED <<pipe, binary, streaming, units, bore, sensors>>

(* device_read of at most size bytes: a frame, or none.  A frame that is   *)
(* larger is an overflow and gone; the read times out when the device has  *)
(* nothing to say, and may fail or be late (fault).                        *)
UnchangedByRead == UNCHANGED <<inbox, binary, streaming, units, bore, sensors>>

ReadFrame(size) ==
    /\ pipe # <<>> /\ FrameSize(Head(pipe)) <= size
    /\ pipe' = Tail(pipe)
    /\ UNCHANGED faults /\ UnchangedByRead

ReadFails(size) ==
    /\ \/ /\ pipe # <<>> /\ FrameSize(Head(pipe)) > size
          /\ pipe' = Tail(pipe) /\ UNCHANGED faults
       \/ /\ pipe = <<>> /\ inbox = NoCommand /\ ~(streaming /\ sensors # {})
          /\ UNCHANGED <<pipe, faults>>
       \/ Fault("read") /\ UNCHANGED pipe
    /\ UnchangedByRead

(* device_reset: the write, and then device_clear_input whatever the write *)
(* returned; each frame's size becomes the size of the next read.          *)
Reset(l, clear) ==
    /\ \E rc \in {0, RETURN_ERROR} : Send(l, rc) /\ return_value' = rc
    /\ g_nrxcount' = LIBERTY_RX_BUF_SIZE
    /\ pc' = clear
    /\ UNCHANGED <<stations, allocated, station_count, flag, station_id, timer,
                   keep_main_loop_running, dataVars>>

ClearInput ==
    /\ pc \in ClearLabels
    /\ ReadFrame(g_nrxcount)
    /\ g_nrxcount' = FrameSize(Head(pipe))
    /\ UNCHANGED <<pc, return_value, stations, allocated, station_count, flag, station_id,
                   timer, keep_main_loop_running, dataVars>>

ClearEnds(l) ==
    /\ pc = l
    /\ ReadFails(g_nrxcount)
    /\ g_nrxcount' = 0
    /\ UNCHANGED <<return_value, stations, allocated, station_count>>

Failed == return_value = RETURN_ERROR

ReceiveCountsErrors(l, n) ==   \* mutant: station_count is set from the result
    /\ pc = l
    /\ \/ ReadFrame(PnoSize * station_count) /\ stations' = Head(pipe)
          /\ n = IF Head(pipe).head = "C" THEN FrameSize(Head(pipe)) \div PnoSize ELSE RETURN_ERROR
       \/ ReadFails(PnoSize * station_count) /\ n = RETURN_ERROR /\ UNCHANGED stations
    /\ station_count' = n
    /\ UNCHANGED <<return_value, g_nrxcount, allocated>>

(* receive_pno_data_frame, with result n: asks for no more than the last   *)
(* frame had, and takes whole records.                                     *)
Receive(l, n) ==
    /\ pc = l
    /\ \/ /\ ReadFrame(PnoSize * station_count)
          /\ stations' = Head(pipe)
          /\ IF Head(pipe).head = "C"
             THEN n = FrameSize(Head(pipe)) \div PnoSize /\ station_count' = n
             ELSE n = RETURN_ERROR /\ UNCHANGED station_count
       \/ ReadFails(PnoSize * station_count) /\ n = RETURN_ERROR
          /\ UNCHANGED <<stations, station_count>>
    /\ UNCHANGED <<return_value, g_nrxcount, allocated>>

Results == {RETURN_ERROR} \cup 0..16

----------------------------------------------------------------------------
(* main, up to the loop.  A failed call ends the process with no reset.    *)

(* device_init: the buffer is made for the count the object happens to     *)
(* hold, and device_binary_mode writes to the handle it happens to hold:   *)
(* nothing is sent, and the process may not survive it.                    *)
DeviceInitCall ==
    /\ pc = "su_init"
    /\ allocated' = station_count
    /\ pc' \in {"su_reset", "exited"}
    /\ UNCHANGED <<deviceVars, faults, return_value, g_nrxcount, stations, station_count, flag,
                   station_id, timer, keep_main_loop_running, dataVars>>

Sent(l, ok, error) ==
    /\ \E rc \in {0, RETURN_ERROR} : Send(l, rc) /\ pc' = IF rc = 0 THEN ok ELSE error
    /\ UNCHANGED <<return_value, g_nrxcount, stations, allocated, station_count, flag,
                   station_id, timer, keep_main_loop_running, dataVars>>

MainQuaternionUnchecked ==     \* mutant: the result of O is not looked at
    Sent("su_quat", "su_hemi", "su_hemi")

MainReset      == Reset("su_reset", "su_clear")
MainBoresight  == Sent("su_bore", "su_map", "exited")
MainStations   == Sent("su_map", "su_mapread", "su_mapread")    \* the result is not kept
MainQuaternion == Sent("su_quat", "su_hemi", "exited")
MainHemisphere == Sent("su_hemi", "su_cont", "exited")

MainClearedNoBoresight ==      \* mutant: no reset_boresight
    /\ ClearEnds("su_clear")
    /\ pc' = IF Failed THEN "exited" ELSE "su_map"
    /\ UNCHANGED <<flag, station_id, timer, keep_main_loop_running, dataVars>>

MainCleared ==
    /\ ClearEnds("su_clear")
    /\ pc' = IF Failed THEN "exited" ELSE "su_bore"
    /\ UNCHANGED <<flag, station_id, timer, keep_main_loop_running, dataVars>>

(* request_num_of_stations: when nothing is read, resp is what the stack   *)
(* held, which may look like a reply.                                      *)
ReceiveStations ==
    /\ pc = "su_mapread"
    /\ \/ /\ ReadFrame(StateSize)
          /\ station_count' = Cardinality(Head(pipe).sensors) /\ pc' = "su_quat"
       \/ /\ ReadFails(StateSize)
          /\ \/ pc' = "exited" /\ UNCHANGED station_count
             \/ pc' = "su_quat" /\ station_count' \in Garbage
    /\ UNCHANGED <<return_value, g_nrxcount, stations, allocated, flag, station_id, timer,
                   keep_main_loop_running, dataVars>>

(* send_saved_calibration's loop, from index i: it ends at the first index *)
(* without a calibration under "/calibration".                             *)
NextStation(i) ==
    IF i < station_count /\ i + 1 \in Stations /\ store[i + 1] # "none"
    THEN station_id' = i /\ pc' = "sv_bore"
    ELSE UNCHANGED station_id /\ pc' = "sv_cont"

MainContinuous ==
    /\ \E rc \in {0, RETURN_ERROR} :
          /\ Send("su_cont", rc)
          /\ IF rc = 0 /\ params = {} THEN NextStation(0)
             ELSE pc' = (IF rc = 0 THEN "sv_first" ELSE "exited") /\ UNCHANGED station_id
    /\ UNCHANGED <<return_value, g_nrxcount, stations, allocated, station_count, flag, timer,
                   keep_main_loop_running, dataVars>>

AwaitForever(first, wait, complete, error) ==   \* mutant: no timeout
    /\ \E n \in Results :
          /\ Receive(first, n) \/ Receive(wait, n)
          /\ pc' = IF n < RequiredSensors THEN wait ELSE complete
    /\ timer' = "running"
    /\ UNCHANGED <<flag, station_id, keep_main_loop_running>>

AwaitAnyFrame(first, wait, complete, error) ==  \* mutant: an incomplete frame will do
    /\ \E n \in Results :
          /\ Receive(first, n) \/ Receive(wait, n)
          /\ pc' = IF n = RETURN_ERROR THEN wait ELSE complete
    /\ timer' = "running"
    /\ UNCHANGED <<flag, station_id, keep_main_loop_running>>

(* Waiting for a frame with every required sensor: the first read starts   *)
(* the clock, every later one is followed by a look at it, whatever came.  *)
Await(first, wait, complete, error) ==
    /\ \E n \in Results :
          \/ /\ Receive(first, n)
             /\ timer' = "running"
             /\ pc' = IF n < RequiredSensors THEN wait ELSE complete
          \/ /\ Receive(wait, n)
             /\ UNCHANGED timer
             /\ pc' = IF timer = "expired" THEN error
                      ELSE IF n < RequiredSensors THEN wait ELSE complete
    /\ UNCHANGED <<flag, station_id, keep_main_loop_running>>

SavedAwait == Await("sv_first", "sv_wait", "sv_reset", "end_reset") /\ UNCHANGED dataVars
SavedReset == Reset("sv_reset", "sv_clear")

SavedCleared ==
    /\ ClearEnds("sv_clear")
    /\ timer' = "off"
    /\ IF Failed THEN pc' = "end_reset" /\ UNCHANGED station_id ELSE NextStation(0)
    /\ UNCHANGED <<flag, keep_main_loop_running, dataVars>>

SavedBoresightUnchecked ==     \* mutant: the result of b is not looked at
    /\ \E rc \in {0, RETURN_ERROR} : Send("sv_bore", rc) /\ NextStation(station_id + 1)
    /\ UNCHANGED <<return_value, g_nrxcount, stations, allocated, station_count, flag, timer,
                   keep_main_loop_running, dataVars>>

SavedBoresight ==
    /\ \E rc \in {0, RETURN_ERROR} :
          /\ Send("sv_bore", rc)
          /\ IF rc = 0 THEN NextStation(station_id + 1)
             ELSE pc' = "end_reset" /\ UNCHANGED station_id
    /\ UNCHANGED <<return_value, g_nrxcount, stations, allocated, station_count, flag, timer,
                   keep_main_loop_running, dataVars>>

(* The result is not looked at; main enters its loop.                      *)
SavedContinuous ==
    /\ \E rc \in {0, RETURN_ERROR} : Send("sv_cont", rc)
    /\ pc' = "lp_recv"
    /\ keep_main_loop_running' = TRUE
    /\ UNCHANGED <<return_value, g_nrxcount, stations, allocated, station_count, flag,
                   station_id, timer, dataVars>>

----------------------------------------------------------------------------
(* The main loop, its recovery and ros::spinOnce.                          *)

MainLoop ==
    /\ \E n \in Results :
          /\ Receive("lp_recv", n)
          /\ \/ n = RETURN_ERROR /\ flag \in {0, 2} /\ flag' = 1 /\ pc' = "lp_reset"
             \/ n = RETURN_ERROR /\ flag = 1 /\ UNCHANGED flag /\ pc' = "lp_spin"
             \/ n = 0 /\ flag < 2 /\ flag' = 2 /\ pc' = "lp_reset"
             \/ n = 0 /\ flag = 2 /\ UNCHANGED flag /\ pc' = "lp_spin"
             \/ n > 0 /\ flag' = 0 /\ pc' = "lp_spin"
    /\ UNCHANGED <<station_id, timer, keep_main_loop_running, dataVars>>

RecoveryReset == Reset("lp_reset", "lp_clear")

RecoveryClearedOnly ==         \* mutant: continuous mode is not asked for again
    /\ ClearEnds("lp_clear") /\ pc' = "lp_spin"
    /\ UNCHANGED <<flag, station_id, timer, keep_main_loop_running, dataVars>>

RecoveryCleared ==
    /\ ClearEnds("lp_clear") /\ pc' = "lp_cont"
    /\ UNCHANGED <<flag, station_id, timer, keep_main_loop_running, dataVars>>

RecoveryContinuous == Sent("lp_cont", "lp_spin", "lp_spin")

LoopTopForever == "lp_recv"                \* mutant: SIGINT is not looked at

LoopTop == IF keep_main_loop_running THEN "lp_recv" ELSE "end_reset"

(* spinOnce runs every request that was queued when it began: calibrate    *)
(* returns to lp_spin, where the next one is served at once, and main goes *)
(* on when none is left.                                                   *)
Spin ==
    /\ pc = "lp_spin"
    /\ pc' = IF client = "pending" THEN "cal_bore" ELSE LoopTop
    /\ UNCHANGED <<deviceVars, faults, return_value, g_nrxcount, stations, allocated,
                   station_count, flag, station_id, timer, keep_main_loop_running, dataVars>>

SpinEnds == Spin /\ client # "pending"

(* The device is reset, the interface released, the process ends.          *)
EndReset == Reset("end_reset", "end_clear")

EndCleared ==
    /\ ClearEnds("end_clear") /\ pc' = "exited"
    /\ UNCHANGED <<flag, station_id, timer, keep_main_loop_running, dataVars>>

----------------------------------------------------------------------------
(* calibrate_srv and calibrate, which returns its integers as a bool.      *)

AsBool(n) == IF n # 0 THEN "success" ELSE "failure"

AnswerWith(n) ==
    /\ pc' = "lp_spin" /\ client' = AsBool(n) /\ timer' = "off"
    /\ UNCHANGED <<params, store, file>>

NoAnswer == UNCHANGED <<timer, dataVars>>

CalibrateBore ==
    /\ \E rc \in {0, RETURN_ERROR} :
          /\ Send("cal_bore", rc)
          /\ IF rc = 0 THEN pc' = "cal_first" /\ NoAnswer ELSE AnswerWith(RETURN_ERROR)
    /\ UNCHANGED <<return_value, g_nrxcount, stations, allocated, station_count, flag,
                   station_id, keep_main_loop_running>>

CalibrateAwait ==
    /\ Await("cal_first", "cal_wait", "cal_reset", "lp_spin")
    /\ IF pc = "cal_wait" /\ timer = "expired"
       THEN client' = AsBool(RETURN_ERROR) ELSE UNCHANGED client
    /\ UNCHANGED <<params, store, file>>

CalibrateReset == Reset("cal_reset", "cal_clear")

(* save_current_calibration_to_file for every record of the last frame.    *)
AnglesOf(s) == IF stations.units # "quat" THEN "misread"
               ELSE IF s \in stations.raw THEN "raw" ELSE "boresighted"

CalibrateCleared ==
    /\ ClearEnds("cal_clear")
    /\ IF Failed THEN AnswerWith(RETURN_ERROR)
       ELSE /\ pc' = "cal_dump" /\ timer' = "off"
            /\ store' = [s \in Stations |->
                            IF s \in stations.sensors THEN AnglesOf(s) ELSE store[s]]
            /\ UNCHANGED <<client, params, file>>
    /\ UNCHANGED <<flag, station_id, keep_main_loop_running>>

(* system("rosparam dump ..."): the code sees only that no shell could be  *)
(* started, not that the command failed.                                   *)
CalibrateDump ==
    /\ pc = "cal_dump"
    /\ \/ /\ pc' = "cal_euler" /\ file' = store
          /\ UNCHANGED <<timer, client, params, store, faults>>
       \/ Fault("dump") /\ pc' = "cal_euler" /\ NoAnswer
       \/ Fault("dump") /\ AnswerWith(RETURN_ERROR)
    /\ UNCHANGED <<deviceVars, return_value, g_nrxcount, stations, allocated, station_count,
                   flag, station_id, keep_main_loop_running>>

CalibrateZeroNoQuat == Sent("cal_zero", "cal_cont", "cal_cont")   \* mutant: EULER is left on

(* The results of these three are at most logged.                          *)
CalibrateEuler == Sent("cal_euler", "cal_zero", "cal_zero")
CalibrateZero  == Sent("cal_zero", "cal_quat", "cal_quat")
CalibrateQuat  == Sent("cal_quat", "cal_cont", "cal_cont")

CalibrateContinuous ==
    /\ \E rc \in {0, RETURN_ERROR} :
          Send("cal_cont", rc) /\ AnswerWith(IF rc = 0 THEN 1 ELSE rc)
    /\ UNCHANGED <<return_value, g_nrxcount, stations, allocated, station_count, flag,
                   station_id, keep_main_loop_running>>

----------------------------------------------------------------------------
(* The environment.                                                        *)

(* client is the request being served or the next to be: one that waits    *)
(* behind another is one made at lp_spin, when that has just been answered.*)
RequestCalibration ==
    /\ "calibrate" \in Requests /\ client # "pending"
    /\ pc \notin {"su_init", "su_reset", "su_clear", "su_bore", "su_map", "su_mapread",
                  "su_quat", "exited"}
    /\ client' = "pending"
    /\ UNCHANGED <<deviceVars, faults, progVars, params, store, file>>

(* Three seconds pass.                                                     *)
TimerExpires ==
    /\ timer = "running" /\ timer' = "expired"
    /\ UNCHANGED <<deviceVars, faults, pc, return_value, g_nrxcount, stations, allocated,
                   station_count, flag, station_id, keep_main_loop_running, dataVars>>

(* signal_handler.                                                         *)
Sigint ==
    /\ Interrupts /\ keep_main_loop_running
    /\ keep_main_loop_running' = FALSE
    /\ UNCHANGED <<deviceVars, faults, pc, return_value, g_nrxcount, stations, allocated,
                   station_count, flag, station_id, timer, dataVars>>

(* The process dies, or has ended, and is launched again, with the         *)
(* parameter server it had or with a new one: the launch file loads the    *)
(* calibration file into the node's parameters.                            *)
Relaunch ==
    /\ Fault("crash")
    /\ pc' = "su_init"
    /\ return_value' = RETURN_ERROR
    /\ g_nrxcount' = 0
    /\ stations' = NoFrame
    /\ allocated' = 0
    /\ station_count' \in Garbage \cup {0}
    /\ flag' = 0 /\ station_id' = 0
    /\ timer' = "off"
    /\ keep_main_loop_running' = FALSE
    /\ client' = "none"
    /\ LET saved == {s \in Stations : file[s] # "none"}
       IN  \/ params' = params \cup saved /\ UNCHANGED store
           \/ params' = saved /\ store' = [s \in Stations |-> "none"]
    /\ UNCHANGED <<deviceVars, file>>

(* A process that has ended stays so.                                      *)
Ended == pc = "exited" /\ UNCHANGED vars

----------------------------------------------------------------------------
MainStep == \/ DeviceInitCall \/ MainReset \/ MainCleared \/ MainBoresight \/ MainStations
            \/ ReceiveStations \/ MainQuaternion \/ MainHemisphere \/ MainContinuous
            \/ ClearInput \/ MainLoop \/ RecoveryReset \/ RecoveryCleared
            \/ RecoveryContinuous \/ Spin \/ EndReset \/ EndCleared

SavedCalibrationStep == \/ SavedAwait \/ SavedReset \/ SavedCleared \/ SavedBoresight
                        \/ SavedContinuous

CalibrationStep == \/ CalibrateBore \/ CalibrateAwait \/ CalibrateReset \/ CalibrateCleared
                   \/ CalibrateDump \/ CalibrateEuler \/ CalibrateZero \/ CalibrateQuat
                   \/ CalibrateContinuous

DriverStep == MainStep \/ SavedCalibrationStep \/ CalibrationStep

DeviceNext == (DeviceExecute \/ DeviceStream \/ SensorChange) /\ UNCHANGED <<progVars, dataVars>>

Environment == RequestCalibration \/ TimerExpires \/ Sigint \/ Relaunch

Next == DriverStep \/ DeviceNext \/ Environment \/ Ended

(* As for ViperDriver: the process runs, the device obeys and streams, time*)
(* passes, and spinOnce ends.                                              *)
Fairness == /\ WF_vars(DriverStep)
            /\ SF_vars(SpinEnds)
            /\ WF_vars(DeviceExecute /\ UNCHANGED <<progVars, dataVars>>)
            /\ WF_vars(DeviceStream /\ UNCHANGED <<progVars, dataVars>>)
            /\ WF_vars(TimerExpires)

Spec     == Init /\ [][Next]_vars
FairSpec == Spec /\ Fairness
=============================================================================

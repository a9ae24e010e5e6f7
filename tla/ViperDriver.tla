---------------------------- MODULE ViperDriver ----------------------------
(***************************************************************************)
(* The driver process for a Viper (main of polhemus_tf_broadcaster.cpp and *)
(* the procedures of polhemus.cpp and viper.cpp it runs), the clients of   *)
(* its two services, the parameter server and the calibration file, over   *)
(* the link to the device.  The process is single-threaded: services run   *)
(* inside ros::spinOnce.                                                   *)
(*                                                                         *)
(* pc names the call the code has reached; the prefix is the procedure:    *)
(*   su_  main, before the loop        sv_  send_saved_calibration         *)
(*   lp_  the main loop                cal_ calibrate                      *)
(*   src_ set_source                   sd_  shutdown after the loop        *)
(***************************************************************************)
EXTENDS ViperLink

CONSTANTS RequiredSensors, \* sensors_right_glove + sensors_left_glove
          Requests,        \* the services clients call: "calibrate", "source"
          Sources,         \* the source numbers set_source is called with
          Interrupts       \* whether SIGINT may come

ASSUME DriverAssumption == /\ RequiredSensors \in Nat
                           /\ Requests \subseteq {"calibrate", "source"}
                           /\ Sources \subseteq Nat
                           /\ Interrupts \in BOOLEAN

VARIABLES pc,
          flag,                    \* main's "awful flag thingy"
          nb_attempts,             \* send_saved_calibration's retries left
          station_id,              \* the station its loop has reached
          timer,                   \* CALIBRATE_TIMEOUT_IN_SECS
          keep_main_loop_running,
          client,                  \* the service call in progress, or the last one
          params,                  \* stations with a calibration among the node's parameters
          store,                   \* "/calibration" on the parameter server, per station
          file                     \* boresight_calibration_file, per station

appVars == <<pc, flag, nb_attempts, station_id, timer, keep_main_loop_running,
             client, params, store, file>>
vars == <<deviceVars, faults, linkVars, appVars>>

SendLabels == {"su_reset", "su_bore", "su_map", "su_quat", "su_hemi", "su_cont",
               "sv_reset", "sv_euler", "sv_bore", "sv_quat", "sv_cont", "sv_fail",
               "lp_reset", "lp_cont",
               "cal_single", "cal_bore", "cal_reset", "cal_euler", "cal_zero", "cal_quat",
               "cal_cont", "src_set", "sd_reset"}
PnoLabels  == {"sv_first", "sv_wait", "lp_recv", "cal_first", "cal_wait"}
IdleLabels == {"lp_spin", "cal_save", "cal_dump", "exited"}
Labels     == SendLabels \cup PnoLabels \cup IdleLabels

Saved == {"none"} \cup OriUnits      \* no entry, or the units its angles were read in

(* The command the code sends at a label.                                  *)
Command(l) ==
    CASE l \in {"su_reset", "sv_reset", "sv_fail", "lp_reset", "cal_reset", "sd_reset"} ->
             DataMode("DATA_RESET")
      [] l \in {"su_cont", "sv_cont", "lp_cont", "cal_cont"} -> DataMode("DATA_CONTINUOUS")
      [] l = "cal_single"                        -> DataMode("DATA_SINGLE")
      [] l \in {"su_bore", "cal_bore"}           -> ResetBoresight
      [] l = "su_map"                            -> RequestNumOfStations
      [] l \in {"su_quat", "sv_quat", "cal_quat"} -> DefineDataType("quat")
      [] l \in {"sv_euler", "cal_euler"}         -> DefineDataType("euler")
      [] l = "su_hemi"                           -> SetHemisphere
      [] l = "sv_bore"                           -> SetBoresight(station_id, "correction")
      [] l = "cal_zero"                          -> SetBoresight(AllStations, "zero")
      [] l = "src_set"                           -> SetSource(client.source, client.station)
      [] OTHER                                   -> NoCommand

NoClient == [kind |-> "none", source |-> 1, station |-> AllStations, reply |-> "none"]

AppTypeOK ==
    /\ pc \in Labels
    /\ flag \in 0..2
    /\ nb_attempts \in 0..5
    /\ station_id \in Stations \cup {-1}
    /\ timer \in {"off", "running", "expired"}
    /\ keep_main_loop_running \in BOOLEAN
    /\ client \in [kind : {"none", "calibrate", "source"}, source : Sources \cup {1},
                   station : Stations \cup {AllStations},
                   reply : {"none", "success", "failure"}]
    /\ params \in SUBSET Stations
    /\ store \in [Stations -> Saved]
    /\ file \in [Stations -> Saved]

Init ==
    /\ DeviceInit
    /\ LinkInit
    /\ pc = "su_reset"
    /\ flag = 0 /\ nb_attempts = 0 /\ station_id = -1
    /\ timer = "off"
    /\ keep_main_loop_running = FALSE
    /\ client = NoClient
    /\ params \in SUBSET Stations
    /\ store = [s \in Stations |-> "none"]
    /\ file = [s \in Stations |-> IF s \in params THEN "quat" ELSE "none"]

----------------------------------------------------------------------------
(* Control.  Done(l): the call at l has returned.                          *)

Done(l) == pc = l /\ call = "done"

Goto(l) ==
    /\ pc' = l
    /\ IF l \in SendLabels THEN StartSend ELSE IF l \in PnoLabels THEN StartPno ELSE StartIdle
    /\ UNCHANGED <<attempt, return_value, pno, station_count>>

Elsewhere == UNCHANGED <<deviceVars, faults>>

(* Call the next primitive, or leave by the error return.                  *)
OnResult(ok, error) == IF Failed THEN Goto(error) ELSE Goto(ok)

UnchangedApp == UNCHANGED <<flag, nb_attempts, station_id, timer, keep_main_loop_running,
                            client, params, store, file>>

----------------------------------------------------------------------------
(* main, up to the loop.  A failed call ends the process with no reset.    *)

StartupStep(l, next) ==
    /\ Done(l)
    /\ OnResult(next, "exited")
    /\ UnchangedApp /\ Elsewhere

MainResetOnly   == StartupStep("su_reset", "su_map")    \* mutant: no reset_boresight
MainNoUnits     == StartupStep("su_map", "su_hemi")     \* mutant: no define_data_type

MainReset      == StartupStep("su_reset", "su_bore")
MainBoresight  == StartupStep("su_bore", "su_map")
MainStations   == StartupStep("su_map", "su_quat")
MainQuaternion == StartupStep("su_quat", "su_hemi")
MainHemisphere == StartupStep("su_hemi", "su_cont")

(* send_saved_calibration's loop over the stations of the last frame, in   *)
(* ascending order after station s: it ends at the first station without a *)
(* saved calibration.                                                      *)
max_attempts == 5

IsNext(t, s) ==
    LET rest == {u \in pno.sensors : u > s}
    IN  t \in rest /\ \A u \in rest : t <= u

NextStation(s) ==
    \/ \E t \in params :
          /\ IsNext(t, s)
          /\ station_id' = t /\ nb_attempts' = max_attempts - 1
          /\ Goto("sv_euler")
    \/ /\ \A t \in params : ~IsNext(t, s)
       /\ Goto("sv_cont")
       /\ UNCHANGED <<station_id, nb_attempts>>

(* The end of main's set-up, and set_device_to_receive_saved_calibration's *)
(* test for a saved calibration.                                           *)
MainContinuous ==
    /\ Done("su_cont")
    /\ \/ Failed /\ Goto("exited") /\ UNCHANGED <<station_id, nb_attempts>>
       \/ ~Failed /\ params # {} /\ Goto("sv_first") /\ UNCHANGED <<station_id, nb_attempts>>
       \/ ~Failed /\ params = {} /\ NextStation(-1)
    /\ UNCHANGED <<flag, timer, keep_main_loop_running, client, params, store, file>>
    /\ Elsewhere

FrameIncompleteByCount ==      \* mutant: looks at the last count, not at the result
    station_count < RequiredSensors

(* Waiting for a frame with every required sensor: the first read starts   *)
(* the clock, every later one is followed by a look at it, whatever came.  *)
FrameIncomplete == return_value < RequiredSensors

AwaitFirst(first, wait, complete) ==
    /\ Done(first)
    /\ timer' = "running"
    /\ IF FrameIncomplete THEN Goto(wait) ELSE Goto(complete)
    /\ UNCHANGED <<flag, nb_attempts, station_id, keep_main_loop_running, params, store, file>>
    /\ Elsewhere

AwaitMore(wait, complete) ==
    /\ Done(wait)
    /\ timer # "expired"
    /\ IF FrameIncomplete THEN Goto(wait) ELSE Goto(complete)
    /\ UnchangedApp /\ Elsewhere

SavedFirst == AwaitFirst("sv_first", "sv_wait", "sv_reset") /\ UNCHANGED client
SavedWait  == AwaitMore("sv_wait", "sv_reset")

SavedTimeout ==
    /\ Done("sv_wait")
    /\ timer = "expired"
    /\ Goto("sv_fail")
    /\ UnchangedApp /\ Elsewhere

SavedReset ==
    /\ Done("sv_reset")
    /\ \/ Failed /\ Goto("sv_fail") /\ UNCHANGED <<station_id, nb_attempts>>
       \/ ~Failed /\ NextStation(-1)
    /\ timer' = "off"
    /\ UNCHANGED <<flag, keep_main_loop_running, client, params, store, file>>
    /\ Elsewhere

(* One attempt at a station is EULER, the correction, QUATERNION; any      *)
(* failure starts the attempt over while attempts are left.                *)
RetryStation ==
    /\ IF nb_attempts > 0 THEN nb_attempts' = nb_attempts - 1 /\ Goto("sv_euler")
       ELSE Goto("sv_fail") /\ UNCHANGED nb_attempts
    /\ UNCHANGED station_id

SavedStep(l, next) ==
    /\ Done(l)
    /\ IF Failed THEN RetryStation ELSE Goto(next) /\ UNCHANGED <<nb_attempts, station_id>>
    /\ UNCHANGED <<flag, timer, keep_main_loop_running, client, params, store, file>>
    /\ Elsewhere

SavedEuler     == SavedStep("sv_euler", "sv_bore")
SavedBoresight == SavedStep("sv_bore", "sv_quat")

SavedQuaternion ==
    /\ Done("sv_quat")
    /\ IF Failed THEN RetryStation ELSE NextStation(station_id)
    /\ UNCHANGED <<flag, timer, keep_main_loop_running, client, params, store, file>>
    /\ Elsewhere

SavedContinuousUnchecked ==    \* mutant: the result of CONTINUOUS is not looked at
    /\ Done("sv_cont")
    /\ Goto("lp_recv")
    /\ keep_main_loop_running' = TRUE
    /\ UNCHANGED <<flag, nb_attempts, station_id, timer, client, params, store, file>>
    /\ Elsewhere

(* The saved calibration is in place: main enters its loop.                *)
SavedContinuous ==
    /\ Done("sv_cont")
    /\ OnResult("lp_recv", "sv_fail")
    /\ keep_main_loop_running' = ~Failed
    /\ UNCHANGED <<flag, nb_attempts, station_id, timer, client, params, store, file>>
    /\ Elsewhere

(* It is not: main resets the device, releases it and ends.                *)
SavedFailed ==
    /\ Done("sv_fail")
    /\ Goto("exited")
    /\ UnchangedApp /\ Elsewhere

----------------------------------------------------------------------------
(* The main loop.  sensor_count is return_value; the flag is a local of    *)
(* main, so setting it on the way into the recovery is the same as after.  *)

MainLoopError ==
    /\ Done("lp_recv") /\ Failed
    /\ IF flag \in {0, 2} THEN flag' = 1 /\ Goto("lp_reset")
       ELSE Goto("lp_spin") /\ UNCHANGED flag
    /\ UNCHANGED <<nb_attempts, station_id, timer, keep_main_loop_running, client, params,
                   store, file>>
    /\ Elsewhere

MainLoopNoSensors ==
    /\ Done("lp_recv") /\ return_value = 0
    /\ IF flag < 2 THEN flag' = 2 /\ Goto("lp_reset")
       ELSE Goto("lp_spin") /\ UNCHANGED flag
    /\ UNCHANGED <<nb_attempts, station_id, timer, keep_main_loop_running, client, params,
                   store, file>>
    /\ Elsewhere

(* The transforms of pno are published as quaternions (fill_pno_data).     *)
MainLoopPublish ==
    /\ Done("lp_recv") /\ return_value > 0
    /\ flag' = 0
    /\ Goto("lp_spin")
    /\ UNCHANGED <<nb_attempts, station_id, timer, keep_main_loop_running, client, params,
                   store, file>>
    /\ Elsewhere

RecoveryResetOnly ==           \* mutant: continuous mode is not asked for again
    /\ Done("lp_reset") /\ Goto("lp_spin")
    /\ UnchangedApp /\ Elsewhere

(* Recovery: reset, then continuous mode; neither result is looked at.     *)
RecoveryReset ==
    /\ Done("lp_reset") /\ Goto("lp_cont")
    /\ UnchangedApp /\ Elsewhere

RecoveryContinuous ==
    /\ Done("lp_cont") /\ Goto("lp_spin")
    /\ UnchangedApp /\ Elsewhere

LoopTopForever == Goto("lp_recv")          \* mutant: SIGINT is not looked at

LoopTop == IF keep_main_loop_running THEN Goto("lp_recv") ELSE Goto("sd_reset")

ShutDown ==
    /\ Done("sd_reset") /\ Goto("exited")
    /\ UnchangedApp /\ Elsewhere

----------------------------------------------------------------------------
(* ros::spinOnce and the two services.  spinOnce runs every request that   *)
(* was queued when it began, one after the other: a service that answers   *)
(* goes back to lp_spin, where the next request is served at once, and main*)
(* goes on when none is left.                                              *)

Pending == client.kind # "none" /\ client.reply = "none"

SpinIdle ==
    /\ pc = "lp_spin" /\ ~Pending
    /\ LoopTop
    /\ UnchangedApp /\ Elsewhere

Answer(l) ==
    /\ client' = [client EXCEPT !.reply = l]
    /\ UNCHANGED <<flag, nb_attempts, station_id, keep_main_loop_running, params>>
    /\ Elsewhere

(* calibrate_srv and calibrate.  A failure anywhere returns at once, with  *)
(* the device in the mode and units it then has.                           *)
CalibrateStart ==
    /\ pc = "lp_spin" /\ Pending /\ client.kind = "calibrate"
    /\ Goto("cal_single")
    /\ UnchangedApp /\ Elsewhere

CalibrateFailsOnError ==       \* mutant: the wait has no timeout
    /\ \E l \in {"cal_single", "cal_bore", "cal_reset", "cal_euler", "cal_zero",
                 "cal_quat", "cal_cont"} : Done(l)
    /\ Failed
    /\ Answer("failure") /\ Goto("lp_spin")
    /\ timer' = "off"
    /\ UNCHANGED <<store, file>>

CalibrateFails ==
    /\ \/ /\ \E l \in {"cal_single", "cal_bore", "cal_reset", "cal_euler", "cal_zero",
                       "cal_quat", "cal_cont"} : Done(l)
          /\ Failed
       \/ Done("cal_wait") /\ timer = "expired"
    /\ Answer("failure") /\ Goto("lp_spin")
    /\ timer' = "off"
    /\ UNCHANGED <<store, file>>

CalibrateStep(l, next) ==
    /\ Done(l) /\ ~Failed
    /\ Goto(next)
    /\ UnchangedApp /\ Elsewhere

CalibrateFirstNoReset ==       \* mutant: continuous mode is not stopped
    AwaitFirst("cal_first", "cal_wait", "cal_save") /\ UNCHANGED client
CalibrateZeroNoQuat == CalibrateStep("cal_zero", "cal_cont")   \* mutant: EULER is left on

CalibrateSingle == CalibrateStep("cal_single", "cal_bore")
CalibrateBore   == CalibrateStep("cal_bore", "cal_first")
CalibrateFirst  == AwaitFirst("cal_first", "cal_wait", "cal_reset") /\ UNCHANGED client
CalibrateWait   == AwaitMore("cal_wait", "cal_reset")
CalibrateReset  == CalibrateStep("cal_reset", "cal_save")
CalibrateEuler  == CalibrateStep("cal_euler", "cal_zero")
CalibrateZero   == CalibrateStep("cal_zero", "cal_quat")
CalibrateQuat   == CalibrateStep("cal_quat", "cal_cont")

(* save_current_calibration_to_file for every station of the last frame:   *)
(* its orientation is taken for a quaternion.                              *)
CalibrateSave ==
    /\ pc = "cal_save"
    /\ store' = [s \in Stations |-> IF s \in pno.sensors THEN pno.units ELSE store[s]]
    /\ timer' = "off"
    /\ Goto("cal_dump")
    /\ UNCHANGED <<flag, nb_attempts, station_id, keep_main_loop_running, client, params, file>>
    /\ Elsewhere

(* system("rosparam dump ..."): the code sees only that no shell could be  *)
(* started, not that the command failed.                                   *)
CalibrateDump ==
    /\ pc = "cal_dump"
    /\ file' = store
    /\ Goto("cal_euler")
    /\ UNCHANGED <<flag, nb_attempts, station_id, timer, keep_main_loop_running, client,
                   params, store>>
    /\ Elsewhere

DumpFails ==
    /\ pc = "cal_dump"
    /\ Fault("dump")
    /\ Goto("cal_euler")
    /\ UnchangedApp /\ UNCHANGED deviceVars

NoShell ==
    /\ pc = "cal_dump"
    /\ Fault("dump")
    /\ client' = [client EXCEPT !.reply = "failure"]
    /\ Goto("lp_spin")
    /\ UNCHANGED <<flag, nb_attempts, station_id, timer, keep_main_loop_running, params,
                   store, file>>
    /\ UNCHANGED deviceVars

CalibrateSucceeds ==
    /\ Done("cal_cont") /\ ~Failed
    /\ Answer("success") /\ Goto("lp_spin")
    /\ UNCHANGED <<timer, store, file>>

SourceStartUnchecked ==        \* mutant: source 0 is sent to the device
    /\ pc = "lp_spin" /\ Pending /\ client.kind = "source"
    /\ Goto("src_set")
    /\ UnchangedApp /\ Elsewhere

(* src_select_srv and set_source.                                          *)
SourceStart ==
    /\ pc = "lp_spin" /\ Pending /\ client.kind = "source" /\ client.source >= 1
    /\ Goto("src_set")
    /\ UnchangedApp /\ Elsewhere

SourceInvalid ==
    /\ pc = "lp_spin" /\ Pending /\ client.kind = "source" /\ client.source < 1
    /\ Answer("failure") /\ Goto("lp_spin")
    /\ UNCHANGED <<timer, store, file>>

SourceEndAlways ==             \* mutant: success whatever came back
    /\ Done("src_set")
    /\ Answer("success") /\ Goto("lp_spin")
    /\ UNCHANGED <<timer, store, file>>

SourceEnd ==
    /\ Done("src_set")
    /\ Answer(IF Failed THEN "failure" ELSE "success") /\ Goto("lp_spin")
    /\ UNCHANGED <<timer, store, file>>

----------------------------------------------------------------------------
(* The environment.                                                        *)

(* A client calls a service that is advertised; a source request asks for  *)
(* a change.  client is the request being served or the next to be: any    *)
(* number of clients call, and a request that waits behind another in the  *)
(* queue is one made at lp_spin, when the other has just been answered.    *)
ClientCalls(kind, source, station) ==
    /\ kind \in Requests /\ ~Pending /\ pc # "exited"
    /\ client' = [kind |-> kind, source |-> source, station |-> station, reply |-> "none"]
    /\ UNCHANGED <<deviceVars, faults, linkVars>>
    /\ UNCHANGED <<pc, flag, nb_attempts, station_id, timer, keep_main_loop_running, params,
                   store, file>>

RequestCalibration ==
    /\ pc \notin {"su_reset", "su_bore", "su_map", "su_quat"}
    /\ ClientCalls("calibrate", 1, AllStations)

RequestSource ==
    \E source \in Sources, station \in Stations \cup {AllStations} :
        /\ \A s \in Stations : station \in {AllStations, s} =>
              (source >= 1 => EffSrcmap[s] # SourceMap(source))
        /\ ClientCalls("source", source, station)

(* Three seconds pass.                                                     *)
TimerExpires ==
    /\ timer = "running"
    /\ timer' = "expired"
    /\ UNCHANGED <<deviceVars, faults, linkVars>>
    /\ UNCHANGED <<pc, flag, nb_attempts, station_id, keep_main_loop_running, client, params,
                   store, file>>

(* signal_handler.                                                         *)
Sigint ==
    /\ Interrupts /\ keep_main_loop_running
    /\ keep_main_loop_running' = FALSE
    /\ UNCHANGED <<deviceVars, faults, linkVars>>
    /\ UNCHANGED <<pc, flag, nb_attempts, station_id, timer, client, params, store, file>>

(* The process dies, or has ended, and is launched again: the device keeps *)
(* its state and what is in its pipes, the launch file loads the           *)
(* calibration file into the node's parameters.                            *)
Relaunch ==
    /\ Fault("crash")
    /\ pc' = "su_reset" /\ call' = "send"
    /\ attempt' = 0 /\ g_nrxcount' = 0 /\ return_value' = RETURN_ERROR
    /\ pno' = EmptyPno /\ station_count' = 0
    /\ flag' = 0 /\ nb_attempts' = 0 /\ station_id' = -1
    /\ timer' = "off" /\ keep_main_loop_running' = FALSE
    /\ client' = NoClient
    /\ params' = params \cup {s \in Stations : file[s] # "none"}
    /\ UNCHANGED <<deviceVars, store, file>>

(* A process that has ended stays so.                                      *)
Ended == pc = "exited" /\ UNCHANGED vars

----------------------------------------------------------------------------
MainStep == \/ MainReset \/ MainBoresight \/ MainStations \/ MainQuaternion
            \/ MainHemisphere \/ MainContinuous
            \/ MainLoopError \/ MainLoopNoSensors \/ MainLoopPublish
            \/ RecoveryReset \/ RecoveryContinuous \/ SpinIdle \/ ShutDown

SavedCalibrationStep == \/ SavedFirst \/ SavedWait \/ SavedTimeout \/ SavedReset
                        \/ SavedEuler \/ SavedBoresight \/ SavedQuaternion
                        \/ SavedContinuous \/ SavedFailed

CalibrationStep == \/ CalibrateStart \/ CalibrateFails \/ CalibrateSingle \/ CalibrateBore
                   \/ CalibrateFirst \/ CalibrateWait \/ CalibrateReset \/ CalibrateSave
                   \/ CalibrateDump \/ CalibrateEuler \/ CalibrateZero \/ CalibrateQuat
                   \/ CalibrateSucceeds

SourceStep == SourceStart \/ SourceInvalid \/ SourceEnd

TransferStep == Transfer(Command(pc)) /\ UNCHANGED appVars

DriverStep == MainStep \/ SavedCalibrationStep \/ CalibrationStep \/ SourceStep \/ TransferStep

DeviceNext == (DeviceStep \/ DeviceRefuse \/ SensorChange) /\ UNCHANGED <<linkVars, appVars>>

FaultStep == (FaultyTransfer(Command(pc)) /\ UNCHANGED appVars) \/ DumpFails \/ NoShell

Environment == RequestCalibration \/ RequestSource \/ TimerExpires \/ Sigint \/ Relaunch

Next == DriverStep \/ DeviceNext \/ FaultStep \/ Environment \/ Ended

(* The process runs, the device answers and streams, and time passes; no   *)
(* fault, client or signal has to come.  spinOnce ends, because it takes   *)
(* the queue once, as it begins: requests never keep main at lp_spin.      *)
Fairness == /\ WF_vars(DriverStep)
            /\ SF_vars(SpinIdle)
            /\ WF_vars(DeviceExecute /\ UNCHANGED <<linkVars, appVars>>)
            /\ WF_vars(DeviceStream /\ UNCHANGED <<linkVars, appVars>>)
            /\ WF_vars(TimerExpires)

Spec     == Init /\ [][Next]_vars
FairSpec == Spec /\ Fairness
=============================================================================

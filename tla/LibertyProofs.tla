--------------------------- MODULE LibertyProofs ---------------------------
(***************************************************************************)
(* For every set of stations, every fault model and every content of       *)
(* uninitialised memory: the driver of LibertyDriver is type-correct, no   *)
(* station ever carries two boresights, and main enters its loop with the  *)
(* device in quaternion format and, as far as the parameter server holds   *)
(* the angles, with every correction in force.                             *)
(*                                                                         *)
(* Commands are not acknowledged, so the invariants speak of the device    *)
(* once it has carried out the command in the OUT pipe (EffBore, EffUnits):*)
(* the device carrying it out changes neither, and a write changes them by *)
(* the command whether or not it seems to have failed.                     *)
(***************************************************************************)
EXTENDS LibertyProperties, FiniteSetTheorems, TLAPS

USE DeviceAssumption, DriverAssumption

(* A correction is sent for a station there is.                            *)
StationKnown == pc = "sv_bore" => station_id + 1 \in Stations

(* From the reset of the boresight to the first correction every station   *)
(* is without one; then every station after the last one corrected is.     *)
Bare    == {"su_map", "su_mapread", "su_quat", "su_hemi", "su_cont",
            "sv_first", "sv_wait", "sv_reset", "sv_clear"}
BareInv == /\ NeverLayered
           /\ pc \in Bare => \A s \in Stations : EffBore[s] = "none"
           /\ pc = "sv_bore" => \A s \in Stations : s > station_id => EffBore[s] = "none"

(* From the quaternion format to the loop.                                 *)
Formatted == {"su_hemi", "su_cont", "sv_first", "sv_wait", "sv_reset", "sv_clear",
              "sv_bore", "sv_cont"}
UnitsInv  == pc \in Formatted => EffUnits = "quat"

TInv == TypeOK /\ StationKnown

----------------------------------------------------------------------------
(* The transfers keep the device's types.                                  *)

LEMMA FrameSizeType == \A f \in Frames : FrameSize(f) \in Nat
  <1> SUFFICES ASSUME NEW f \in Frames PROVE FrameSize(f) \in Nat
    OBVIOUS
  <1>1. Cardinality(f.sensors) \in Nat
    BY FS_Subset, FS_CardinalityType DEF Frames
  <1> QED
    BY <1>1 DEF FrameSize, AsciiSize, StateSize, PnoSize, EulerSize

LEMMA FrameType ==
    ASSUME DeviceTypeOK, NEW h \in {"C", "P", "state"} PROVE Frame(h) \in Frames
  BY DEF DeviceTypeOK, Frame, Frames, Raw

(* What each label sends is a command.                                     *)
LEMMA CommandType == TInv => Command(pc) \in Commands \cup {NoCommand}
  <1> SUFFICES ASSUME TInv PROVE Command(pc) \in Commands \cup {NoCommand}
    OBVIOUS
  <1> USE DEF Commands, Cmds, OriUnits, AllStations
  <1>1. /\ Cmd("p") \in Commands /\ Cmd("^b") \in Commands /\ Cmd("^u") \in Commands
        /\ Cmd("h") \in Commands /\ Cmd("c") \in Commands
    BY DEF Cmd
  <1>2. OutputFormat("quat") \in Commands /\ OutputFormat("euler") \in Commands
    BY DEF OutputFormat
  <1>3. Boresight(AllStations, "zero") \in Commands
    BY DEF Boresight
  <1>4. pc = "sv_bore" => Boresight(station_id + 1, "correction") \in Commands
    BY DEF TInv, StationKnown, Boresight
  <1> HIDE DEF Commands, Cmds, OriUnits, AllStations
  <1> QED
    BY <1>1, <1>2, <1>3, <1>4 DEF Command

(* What uninitialised memory may hold is a count.                          *)
LEMMA GarbageType == \A g \in Garbage \cup {0} : g \in Nat
  BY DriverAssumption

LEMMA FaultType == ASSUME DeviceTypeOK, NEW k, Fault(k) PROVE faults' \in 0..MaxFaults
  BY DEF DeviceTypeOK, Fault

LEMMA SendTypes ==
    ASSUME TInv, NEW l, NEW rc, Send(l, rc) PROVE DeviceTypeOK'
  <1>1. DeviceTypeOK
    BY DEF TInv, TypeOK
  <1>2. inbox' \in Commands \cup {NoCommand}
    BY <1>1, CommandType DEF Send, DeviceTypeOK
  <1>3. faults' \in 0..MaxFaults
    BY <1>1, FaultType DEF Send, DeviceTypeOK
  <1> QED
    BY <1>1, <1>2, <1>3 DEF Send, DeviceTypeOK

LEMMA ReadTypes ==
    ASSUME DeviceTypeOK, NEW size, ReadFrame(size)
    PROVE  /\ DeviceTypeOK'
           /\ Head(pipe) \in Frames /\ FrameSize(Head(pipe)) \in Nat
  <1>1. Head(pipe) \in Frames /\ Tail(pipe) \in Seq(Frames)
    BY DEF DeviceTypeOK, ReadFrame
  <1> QED
    BY <1>1, FrameSizeType DEF DeviceTypeOK, ReadFrame, UnchangedByRead

LEMMA ReadFailTypes == ASSUME DeviceTypeOK, NEW size, ReadFails(size) PROVE DeviceTypeOK'
  <1>1. pipe' \in Seq(Frames)
    BY DEF DeviceTypeOK, ReadFails
  <1>2. faults' \in 0..MaxFaults
    BY FaultType DEF DeviceTypeOK, ReadFails
  <1> QED
    BY <1>1, <1>2 DEF DeviceTypeOK, ReadFails, UnchangedByRead

LEMMA ReceiveTypes ==
    ASSUME TypeOK, NEW l, NEW n \in Results, Receive(l, n)
    PROVE  /\ DeviceTypeOK' /\ stations' \in Frames /\ station_count' \in Nat
           /\ return_value' \in {RETURN_ERROR, 0} /\ g_nrxcount' \in Nat /\ allocated' \in Nat
  <1> USE DEF TypeOK
  <1>1. /\ return_value' \in {RETURN_ERROR, 0} /\ g_nrxcount' \in Nat /\ allocated' \in Nat
    BY DEF AppTypeOK, Receive
  <1>2. CASE ReadFrame(PnoSize * station_count) /\ stations' = Head(pipe)
             /\ IF Head(pipe).head = "C"
                THEN n = FrameSize(Head(pipe)) \div PnoSize /\ station_count' = n
                ELSE n = RETURN_ERROR /\ UNCHANGED station_count
    <2>1. DeviceTypeOK' /\ Head(pipe) \in Frames /\ FrameSize(Head(pipe)) \in Nat
      BY <1>2, ReadTypes
    <2>2. station_count' \in Nat
      BY <1>2, <2>1 DEF AppTypeOK, PnoSize
    <2> QED
      BY <1>1, <1>2, <2>1, <2>2
  <1>3. CASE ReadFails(PnoSize * station_count) /\ UNCHANGED <<stations, station_count>>
    BY <1>1, <1>3, ReadFailTypes DEF AppTypeOK
  <1> QED
    BY <1>2, <1>3 DEF Receive

----------------------------------------------------------------------------
(* The shapes of step the procedures are made of.                          *)

LEMMA ResetTypes ==
    ASSUME TInv, NEW l, NEW clear \in ClearLabels, Reset(l, clear) PROVE TInv'
  <1>1. DeviceTypeOK'
    BY SendTypes DEF Reset
  <1>2. AppTypeOK'
    BY DEF TInv, TypeOK, AppTypeOK, Reset, dataVars, Labels, LIBERTY_RX_BUF_SIZE
  <1> QED
    BY <1>1, <1>2 DEF TInv, TypeOK, StationKnown, Reset, ClearLabels

LEMMA SentTypes ==
    ASSUME TInv, NEW l, NEW ok \in Labels \ {"sv_bore"}, NEW error \in Labels \ {"sv_bore"},
           Sent(l, ok, error)
    PROVE  TInv'
  <1>1. DeviceTypeOK'
    BY SendTypes DEF Sent
  <1>2. AppTypeOK' /\ pc' # "sv_bore"
    BY DEF TInv, TypeOK, AppTypeOK, Sent, dataVars
  <1> QED
    BY <1>1, <1>2 DEF TInv, TypeOK, StationKnown

LEMMA ClearEndsTypes ==
    ASSUME TInv, NEW l, ClearEnds(l)
    PROVE  /\ DeviceTypeOK' /\ g_nrxcount' \in Nat
           /\ UNCHANGED <<return_value, stations, allocated, station_count>>
  BY ReadFailTypes DEF TInv, TypeOK, ClearEnds

LEMMA NextStationTypes ==
    ASSUME TInv, NEW i \in Nat, NextStation(i)
    PROVE  pc' \in Labels /\ station_id' \in Nat /\ StationKnown'
  BY DEF TInv, TypeOK, AppTypeOK, NextStation, Labels, SendLabels, StationKnown

LEMMA AwaitTypes ==
    ASSUME TInv, NEW first, NEW wait \in PnoLabels, NEW complete \in ResetLabels,
           NEW error \in Labels \ {"sv_bore"}, Await(first, wait, complete, error)
    PROVE  /\ DeviceTypeOK' /\ stations' \in Frames /\ station_count' \in Nat
           /\ return_value' \in {RETURN_ERROR, 0} /\ g_nrxcount' \in Nat /\ allocated' \in Nat
           /\ pc' \in Labels \ {"sv_bore"} /\ timer' \in {"off", "running", "expired"}
           /\ UNCHANGED <<flag, station_id, keep_main_loop_running>>
  <1>1. /\ DeviceTypeOK' /\ stations' \in Frames /\ station_count' \in Nat
        /\ return_value' \in {RETURN_ERROR, 0} /\ g_nrxcount' \in Nat /\ allocated' \in Nat
    BY ReceiveTypes DEF TInv, Await
  <1>2. pc' \in {wait, complete, error}
    BY DEF Await
  <1>3. timer' \in {"off", "running", "expired"}
    BY DEF Await, TInv, TypeOK, AppTypeOK
  <1> QED
    BY <1>1, <1>2, <1>3 DEF Await, Labels, PnoLabels, ResetLabels

(* calibrate's answer is a reply, and spinOnce goes on.                     *)
LEMMA AnswerTypes ==
    ASSUME TInv, NEW n, AnswerWith(n)
    PROVE  /\ pc' \in Labels \ {"sv_bore"} /\ client' \in {"none", "pending", "success", "failure"}
           /\ timer' \in {"off", "running", "expired"}
           /\ UNCHANGED <<params, store, file>>
  BY DEF AnswerWith, AsBool, Labels, PnoLabels, ResetLabels

----------------------------------------------------------------------------
LEMMA MainTypes == TInv /\ MainStep => TInv'
  <1> SUFFICES ASSUME TInv, MainStep PROVE TInv'
    OBVIOUS
  <1>1. CASE DeviceInitCall
    BY <1>1 DEF DeviceInitCall, TInv, TypeOK, DeviceTypeOK, AppTypeOK, StationKnown,
                deviceVars, dataVars, Labels, ResetLabels
  <1>2. CASE MainReset \/ RecoveryReset \/ EndReset
    BY <1>2, ResetTypes DEF MainReset, RecoveryReset, EndReset, ClearLabels
  <1>3. CASE MainBoresight \/ MainStations \/ MainQuaternion \/ MainHemisphere
             \/ RecoveryContinuous
    BY <1>3, SentTypes DEF MainBoresight, MainStations, MainQuaternion, MainHemisphere,
                           RecoveryContinuous, Labels, SendLabels
  <1>4. CASE MainCleared \/ RecoveryCleared \/ EndCleared
    <2>1. PICK l : ClearEnds(l)
      BY <1>4 DEF MainCleared, RecoveryCleared, EndCleared
    <2>2. /\ pc' \in {"exited", "su_bore", "lp_cont"}
          /\ UNCHANGED <<flag, station_id, timer, keep_main_loop_running, dataVars>>
      BY <1>4 DEF MainCleared, RecoveryCleared, EndCleared
    <2> QED
      BY <2>1, <2>2, ClearEndsTypes
      DEF TInv, TypeOK, AppTypeOK, StationKnown, dataVars, Labels, SendLabels
  <1>5. CASE ReceiveStations
    <2>1. DeviceTypeOK'
      BY <1>5, ReadTypes, ReadFailTypes DEF ReceiveStations, TInv, TypeOK
    <2>2. station_count' \in Nat
      <3>1. CASE ReadFrame(StateSize) /\ station_count' = Cardinality(Head(pipe).sensors)
        <4>1. Head(pipe) \in Frames
          BY <3>1, ReadTypes DEF TInv, TypeOK
        <4> QED
          BY <3>1, <4>1, FS_Subset, FS_CardinalityType DEF Frames
      <3>2. CASE UNCHANGED station_count \/ station_count' \in Garbage
        BY <3>2, GarbageType DEF TInv, TypeOK, AppTypeOK
      <3>3. \/ ReadFrame(StateSize) /\ station_count' = Cardinality(Head(pipe).sensors)
            \/ UNCHANGED station_count \/ station_count' \in Garbage
        BY <1>5, Zenon DEF ReceiveStations
      <3> QED
        BY <3>1, <3>2, <3>3
    <2>3. pc' \in {"exited", "su_quat"}
      BY <1>5 DEF ReceiveStations
    <2> QED
      BY <1>5, <2>1, <2>2, <2>3
      DEF ReceiveStations, TInv, TypeOK, AppTypeOK, StationKnown, dataVars, Labels, SendLabels
  <1>6. CASE MainContinuous
    <2>1. DeviceTypeOK'
      BY <1>6, SendTypes DEF MainContinuous
    <2>2. pc' \in Labels /\ station_id' \in Nat /\ StationKnown'
      BY <1>6, NextStationTypes
      DEF MainContinuous, TInv, TypeOK, AppTypeOK, StationKnown, Labels, PnoLabels
    <2> QED
      BY <1>6, <2>1, <2>2 DEF MainContinuous, TInv, TypeOK, AppTypeOK, dataVars
  <1>7. CASE ClearInput
    <2>1. DeviceTypeOK' /\ g_nrxcount' \in Nat
      BY <1>7, ReadTypes DEF ClearInput, TInv, TypeOK
    <2> QED
      BY <1>7, <2>1 DEF ClearInput, TInv, TypeOK, AppTypeOK, StationKnown, dataVars
  <1>8. CASE MainLoop
    <2>1. PICK n \in Results : Receive("lp_recv", n)
      BY <1>8 DEF MainLoop
    <2>2. pc' \in {"lp_reset", "lp_spin"} /\ flag' \in 0..2
      BY <1>8 DEF MainLoop, TInv, TypeOK, AppTypeOK
    <2>3. /\ DeviceTypeOK' /\ stations' \in Frames /\ station_count' \in Nat
          /\ return_value' \in {RETURN_ERROR, 0} /\ g_nrxcount' \in Nat /\ allocated' \in Nat
      BY <2>1, ReceiveTypes DEF TInv
    <2> QED
      BY <1>8, <2>2, <2>3
      DEF MainLoop, TInv, TypeOK, AppTypeOK, StationKnown, dataVars, Labels, ResetLabels
  <1>9. CASE Spin
    BY <1>9 DEF Spin, TInv, TypeOK, DeviceTypeOK, AppTypeOK, StationKnown, LoopTop,
                deviceVars, dataVars, Labels, ResetLabels, SendLabels, PnoLabels
  <1> QED
    BY <1>1, <1>2, <1>3, <1>4, <1>5, <1>6, <1>7, <1>8, <1>9 DEF MainStep

LEMMA SavedTypes == TInv /\ SavedCalibrationStep => TInv'
  <1> SUFFICES ASSUME TInv, SavedCalibrationStep PROVE TInv'
    OBVIOUS
  <1>1. CASE SavedAwait
    <2>1. /\ "sv_wait" \in PnoLabels /\ "sv_reset" \in ResetLabels
          /\ "end_reset" \in Labels \ {"sv_bore"}
      BY DEF PnoLabels, ResetLabels, Labels
    <2> QED
      BY <1>1, <2>1, AwaitTypes
      DEF SavedAwait, TInv, TypeOK, AppTypeOK, StationKnown, dataVars
  <1>2. CASE SavedReset
    BY <1>2, ResetTypes DEF SavedReset, ClearLabels
  <1>3. CASE SavedCleared
    <2>1. pc' \in Labels /\ station_id' \in Nat /\ StationKnown'
      BY <1>3, NextStationTypes
      DEF SavedCleared, TInv, TypeOK, AppTypeOK, StationKnown, Labels, ResetLabels
    <2> QED
      BY <1>3, <2>1, ClearEndsTypes DEF SavedCleared, TInv, TypeOK, AppTypeOK, dataVars
  <1>4. CASE SavedBoresight
    <2>1. DeviceTypeOK'
      BY <1>4, SendTypes DEF SavedBoresight
    <2>2. station_id + 1 \in Nat
      BY DEF TInv, TypeOK, AppTypeOK
    <2>3. pc' \in Labels /\ station_id' \in Nat /\ StationKnown'
      BY <1>4, <2>2, NextStationTypes
      DEF SavedBoresight, TInv, TypeOK, AppTypeOK, StationKnown, Labels, ResetLabels
    <2> QED
      BY <1>4, <2>1, <2>3 DEF SavedBoresight, TInv, TypeOK, AppTypeOK, dataVars
  <1>5. CASE SavedContinuous
    <2>1. DeviceTypeOK'
      BY <1>5, SendTypes DEF SavedContinuous
    <2> QED
      BY <1>5, <2>1 DEF SavedContinuous, TInv, TypeOK, AppTypeOK, StationKnown, dataVars,
                        Labels, PnoLabels
  <1> QED
    BY <1>1, <1>2, <1>3, <1>4, <1>5 DEF SavedCalibrationStep

LEMMA CalibrationTypes == TInv /\ CalibrationStep => TInv'
  <1> SUFFICES ASSUME TInv, CalibrationStep PROVE TInv'
    OBVIOUS
  <1>1. CASE CalibrateBore
    <2>1. DeviceTypeOK'
      BY <1>1, SendTypes DEF CalibrateBore
    <2>2. /\ pc' \in Labels \ {"sv_bore"}
          /\ client' \in {"none", "pending", "success", "failure"}
          /\ timer' \in {"off", "running", "expired"}
          /\ UNCHANGED <<params, store, file>>
      BY <1>1, AnswerTypes
      DEF CalibrateBore, NoAnswer, dataVars, TInv, TypeOK, AppTypeOK, Labels, PnoLabels
    <2> QED
      BY <1>1, <2>1, <2>2 DEF CalibrateBore, TInv, TypeOK, AppTypeOK, StationKnown
  <1>2. CASE CalibrateAwait
    <2>1. /\ "cal_wait" \in PnoLabels /\ "cal_reset" \in ResetLabels
          /\ "lp_spin" \in Labels \ {"sv_bore"}
      BY DEF PnoLabels, ResetLabels, Labels
    <2>2. client' \in {"none", "pending", "success", "failure"}
      BY <1>2 DEF CalibrateAwait, AsBool, TInv, TypeOK, AppTypeOK
    <2> QED
      BY <1>2, <2>1, <2>2, AwaitTypes DEF CalibrateAwait, TInv, TypeOK, AppTypeOK, StationKnown
  <1>3. CASE CalibrateReset
    BY <1>3, ResetTypes DEF CalibrateReset, ClearLabels
  <1>4. CASE CalibrateCleared
    <2>1. store' \in [Stations -> Saved]
      BY <1>4 DEF CalibrateCleared, AnswerWith, AnglesOf, Saved, TInv, TypeOK, AppTypeOK
    <2>2. /\ pc' \in Labels \ {"sv_bore"}
          /\ client' \in {"none", "pending", "success", "failure"}
          /\ timer' \in {"off", "running", "expired"}
          /\ UNCHANGED <<params, file>>
      BY <1>4, AnswerTypes DEF CalibrateCleared, TInv, TypeOK, AppTypeOK, Labels
    <2> QED
      BY <1>4, <2>1, <2>2, ClearEndsTypes
      DEF CalibrateCleared, TInv, TypeOK, AppTypeOK, StationKnown
  <1>5. CASE CalibrateDump
    <2>1. faults' \in 0..MaxFaults
      BY <1>5, FaultType DEF CalibrateDump, TInv, TypeOK, DeviceTypeOK
    <2>2. DeviceTypeOK'
      BY <1>5, <2>1 DEF CalibrateDump, deviceVars, TInv, TypeOK, DeviceTypeOK
    <2>3. /\ pc' \in Labels \ {"sv_bore"}
          /\ client' \in {"none", "pending", "success", "failure"}
          /\ timer' \in {"off", "running", "expired"}
          /\ UNCHANGED <<params, store>>
          /\ file' \in [Stations -> Saved]
      BY <1>5, AnswerTypes
      DEF CalibrateDump, NoAnswer, dataVars, TInv, TypeOK, AppTypeOK, Labels, SendLabels
    <2> QED
      BY <1>5, <2>2, <2>3 DEF CalibrateDump, TInv, TypeOK, AppTypeOK, StationKnown
  <1>6. CASE CalibrateEuler \/ CalibrateZero \/ CalibrateQuat
    BY <1>6, SentTypes DEF CalibrateEuler, CalibrateZero, CalibrateQuat, Labels, SendLabels
  <1>7. CASE CalibrateContinuous
    <2>1. DeviceTypeOK'
      BY <1>7, SendTypes DEF CalibrateContinuous
    <2>2. /\ pc' \in Labels \ {"sv_bore"}
          /\ client' \in {"none", "pending", "success", "failure"}
          /\ timer' \in {"off", "running", "expired"}
          /\ UNCHANGED <<params, store, file>>
      BY <1>7, AnswerTypes DEF CalibrateContinuous
    <2> QED
      BY <1>7, <2>1, <2>2 DEF CalibrateContinuous, TInv, TypeOK, AppTypeOK, StationKnown
  <1> QED
    BY <1>1, <1>2, <1>3, <1>4, <1>5, <1>6, <1>7 DEF CalibrationStep

LEMMA EnvironmentTypes ==
    TInv /\ (DeviceNext \/ Environment \/ UNCHANGED vars) => TInv'
  <1> SUFFICES ASSUME TInv, DeviceNext \/ Environment \/ UNCHANGED vars PROVE TInv'
    OBVIOUS
  <1>1. DeviceTypeOK
    BY DEF TInv, TypeOK
  <1>2. CASE DeviceNext
    <2>1. AppTypeOK' /\ StationKnown'
      BY <1>2 DEF DeviceNext, progVars, dataVars, TInv, TypeOK, AppTypeOK, StationKnown
    <2>2. CASE DeviceExecute
      <3>1. inbox \in Commands
        BY <1>1, <2>2 DEF DeviceExecute, DeviceTypeOK
      <3>2. Answer(inbox) \in Seq(Frames)
        BY <1>1, FrameType DEF Answer
      <3>3. binary' \in BOOLEAN /\ streaming' \in BOOLEAN
        BY <1>1, <2>2 DEF DeviceExecute, DeviceTypeOK, BinaryAfter, StreamingAfter
      <3>4. units' \in OriUnits
        BY <1>1, <2>2, <3>1 DEF DeviceExecute, DeviceTypeOK, UnitsAfter, Commands
      <3>5. bore' \in [Stations -> Boresights]
        BY <1>1, <2>2 DEF DeviceExecute, DeviceTypeOK, BoreAfter, Boresights
      <3>6. pipe' \in Seq(Frames)
        BY <1>1, <2>2, <3>2 DEF DeviceExecute, DeviceTypeOK
      <3>7. inbox' \in Commands \cup {NoCommand} /\ sensors' \in SUBSET Stations
            /\ faults' \in 0..MaxFaults
        BY <1>1, <2>2 DEF DeviceExecute, DeviceTypeOK
      <3>8. DeviceTypeOK'
        BY <3>3, <3>4, <3>5, <3>6, <3>7 DEF DeviceTypeOK
      <3> QED
        BY <2>1, <3>8 DEF TInv, TypeOK
    <2>3. CASE DeviceStream
      <3>1. pipe' \in Seq(Frames)
        BY <1>1, <2>3, FrameType DEF DeviceStream, DeviceTypeOK
      <3> QED
        BY <1>1, <2>1, <2>3, <3>1 DEF DeviceStream, DeviceTypeOK, TInv, TypeOK
    <2>4. CASE SensorChange
      <3>1. faults' \in 0..MaxFaults /\ sensors' \in SUBSET Stations
        BY <1>1, <2>4, FaultType DEF SensorChange, DeviceTypeOK
      <3> QED
        BY <1>1, <2>1, <2>4, <3>1 DEF SensorChange, DeviceTypeOK, TInv, TypeOK
    <2> QED
      BY <1>2, <2>2, <2>3, <2>4 DEF DeviceNext
  <1>3. CASE RequestCalibration \/ TimerExpires \/ Sigint
    <2>1. UNCHANGED <<deviceVars, faults>> /\ UNCHANGED <<pc, station_id>>
      BY <1>3 DEF RequestCalibration, TimerExpires, Sigint, progVars
    <2>2. AppTypeOK'
      BY <1>3 DEF RequestCalibration, TimerExpires, Sigint, progVars, dataVars, TInv, TypeOK,
                  AppTypeOK
    <2> QED
      BY <1>1, <2>1, <2>2 DEF deviceVars, DeviceTypeOK, TInv, TypeOK, StationKnown
  <1>4. CASE Relaunch
    <2>1. faults' \in 0..MaxFaults
      BY <1>1, <1>4, FaultType DEF Relaunch
    <2>2. DeviceTypeOK'
      BY <1>1, <1>4, <2>1 DEF Relaunch, deviceVars, DeviceTypeOK
    <2>3. stations' \in Frames
      BY <1>4 DEF Relaunch, NoFrame, Frames, OriUnits
    <2>4. params' \in SUBSET Stations /\ store' \in [Stations -> Saved]
          /\ file' \in [Stations -> Saved]
      BY <1>4 DEF Relaunch, Saved, TInv, TypeOK, AppTypeOK
    <2>5. station_count' \in Nat
      BY <1>4, GarbageType DEF Relaunch
    <2>6. /\ pc' = "su_init" /\ pc' \in Labels
          /\ return_value' \in {RETURN_ERROR, 0} /\ g_nrxcount' \in Nat /\ allocated' \in Nat
          /\ flag' \in 0..2 /\ station_id' \in Nat
          /\ timer' \in {"off", "running", "expired"}
          /\ client' \in {"none", "pending", "success", "failure"}
      BY <1>4 DEF Relaunch, Labels
    <2>7. keep_main_loop_running' \in BOOLEAN
      BY <1>4 DEF Relaunch
    <2> QED
      BY <2>2, <2>3, <2>4, <2>5, <2>6, <2>7 DEF TInv, TypeOK, AppTypeOK, StationKnown
  <1>5. CASE UNCHANGED vars
    BY <1>1, <1>5 DEF vars, progVars, dataVars, deviceVars, DeviceTypeOK, TInv, TypeOK, AppTypeOK,
                      StationKnown
  <1> QED
    BY <1>2, <1>3, <1>4, <1>5 DEF Environment

LEMMA TypesKept == TInv /\ [Next]_vars => TInv'
  BY MainTypes, SavedTypes, CalibrationTypes, EnvironmentTypes DEF Next, DriverStep, Ended

LEMMA InitialTypes == Init => TInv
  <1> SUFFICES ASSUME Init PROVE TInv
    OBVIOUS
  <1>1. /\ inbox \in Commands \cup {NoCommand} /\ pipe \in Seq(Frames) /\ binary \in BOOLEAN
        /\ streaming \in BOOLEAN /\ units \in OriUnits /\ sensors \in SUBSET Stations
        /\ bore \in [Stations -> Boresights] /\ faults \in 0..MaxFaults
    BY DEF Init, DeviceInit, Boresights
  <1>2. stations \in Frames
    BY DEF Init, ProcessInit, NoFrame, Frames, OriUnits
  <1>3. /\ pc \in Labels /\ pc # "sv_bore" /\ return_value \in {RETURN_ERROR, 0}
        /\ g_nrxcount \in Nat /\ allocated \in Nat /\ flag \in 0..2
        /\ station_id \in Nat /\ timer \in {"off", "running", "expired"}
    BY DEF Init, ProcessInit, Labels
  <1>5. station_count \in Nat /\ keep_main_loop_running \in BOOLEAN
    BY GarbageType DEF Init, ProcessInit
  <1>4. /\ client \in {"none", "pending", "success", "failure"} /\ params \in SUBSET Stations
        /\ store \in [Stations -> Saved] /\ file \in [Stations -> Saved]
    BY DEF Init, Saved
  <1> QED
    BY <1>1, <1>2, <1>3, <1>4, <1>5 DEF TInv, TypeOK, DeviceTypeOK, AppTypeOK, StationKnown

LEMMA TInvHolds == Spec => []TInv
  BY InitialTypes, TypesKept, PTL DEF Spec

(* Every variable keeps its type: station_count is never the error code,   *)
(* and a correction is only ever sent to a station there is.               *)
THEOREM TypeCorrect == Spec => []TypeOK
  BY TInvHolds, PTL DEF TInv

----------------------------------------------------------------------------
(* The device carrying out a command, and everything else that writes      *)
(* none, leave EffBore and EffUnits alone.                                 *)
EffSame == EffBore' = EffBore /\ EffUnits' = EffUnits

LEMMA NothingOutstanding ==
    ASSUME TypeOK PROVE BoreAfter(NoCommand) = bore /\ UnitsAfter(NoCommand) = units
  BY DEF TypeOK, DeviceTypeOK, BoreAfter, UnitsAfter, NoCommand

LEMMA UnchangedEff ==
    UNCHANGED <<inbox, bore, units>> => EffSame
  BY DEF EffSame, EffBore, EffUnits, BoreAfter, UnitsAfter, Addressed

LEMMA ExecuteEff == TInv /\ DeviceExecute => EffSame
  <1> SUFFICES ASSUME TInv, DeviceExecute PROVE EffSame
    OBVIOUS
  <1>1. bore' = EffBore /\ units' = EffUnits /\ inbox' = NoCommand
    BY DEF DeviceExecute, EffBore, EffUnits
  <1>2. bore' = [s \in Stations |-> bore'[s]]
    BY <1>1 DEF EffBore, BoreAfter
  <1>3. EffBore' = bore' /\ EffUnits' = units'
    BY <1>1, <1>2 DEF EffBore, EffUnits, BoreAfter, UnitsAfter, NoCommand
  <1> QED
    BY <1>1, <1>3 DEF EffSame

(* What a written command makes of a boresight.                            *)
Bored(c, s, b) ==
    IF s \notin Addressed(c) THEN b
    ELSE IF c.cmd = "^b" THEN "none"
    ELSE IF c.cmd = "b" /\ c.arg = "zero" THEN "zero"
    ELSE IF c.cmd = "b" THEN (IF b = "none" THEN "corrected" ELSE "layered")
    ELSE b

(* A write that reached the device changes Eff by the command, one that    *)
(* did not changes nothing; one that returned 0 did.                       *)
LEMMA SendEff ==
    ASSUME TInv, NEW l, NEW rc, Send(l, rc)
    PROVE  \/ rc = RETURN_ERROR /\ EffSame
           \/ /\ \A s \in Stations : EffBore'[s] = Bored(Command(l), s, EffBore[s])
              /\ EffUnits' = IF Command(l).cmd = "O" THEN Command(l).arg ELSE EffUnits
  <1>1. CASE rc = RETURN_ERROR /\ UNCHANGED inbox
    BY <1>1, UnchangedEff DEF Send
  <1>2. CASE inbox = NoCommand /\ inbox' = Command(l)
    <2>1. EffBore = bore /\ EffUnits = units
      BY <1>2, NothingOutstanding DEF EffBore, EffUnits, TInv
    <2>2. bore' = bore /\ units' = units
      BY DEF Send
    <2> QED
      BY <1>2, <2>1, <2>2 DEF EffBore, EffUnits, BoreAfter, UnitsAfter, Bored, Addressed
  <1> QED
    BY <1>1, <1>2 DEF Send

(* What the command of a label does to a boresight and to the format.      *)
LEMMA CommandBore ==
    ASSUME TInv, NEW s \in Stations, NEW b
    PROVE  /\ pc \in {"su_bore", "cal_bore"} => Bored(Command(pc), s, b) = "none"
           /\ pc = "cal_zero" => Bored(Command(pc), s, b) = "zero"
           /\ pc = "sv_bore" =>
                 Bored(Command(pc), s, b) =
                     IF s = station_id + 1 THEN (IF b = "none" THEN "corrected" ELSE "layered")
                     ELSE b
           /\ pc \notin {"su_bore", "cal_bore", "cal_zero", "sv_bore"} =>
                 Bored(Command(pc), s, b) = b
  <1>1. station_id \in Nat
    BY DEF TInv, TypeOK, AppTypeOK
  <1> USE DEF Bored, Command, Addressed, AllStations
  <1>2. pc \in {"su_bore", "cal_bore"} => Bored(Command(pc), s, b) = "none"
    BY DEF Cmd, ResetLabels
  <1>3. pc = "cal_zero" => Bored(Command(pc), s, b) = "zero"
    BY DEF Boresight, ResetLabels
  <1>4. pc = "sv_bore" =>
          Bored(Command(pc), s, b) =
              IF s = station_id + 1 THEN (IF b = "none" THEN "corrected" ELSE "layered") ELSE b
    BY <1>1 DEF Boresight, ResetLabels
  <1>5. pc \notin {"su_bore", "cal_bore", "cal_zero", "sv_bore"} =>
          Bored(Command(pc), s, b) = b
    BY DEF Cmd, OutputFormat, NoCommand, ResetLabels
  <1> QED
    BY <1>2, <1>3, <1>4, <1>5

LEMMA CommandFormat ==
    /\ Command("su_quat").cmd = "O" /\ Command("su_quat").arg = "quat"
    /\ pc \notin {"su_quat", "cal_quat", "cal_euler"} => Command(pc).cmd # "O"
  BY DEF Command, Cmd, OutputFormat, Boresight, NoCommand, ResetLabels

EInv == BareInv /\ UnitsInv

(* A step that sends nothing, and enters no part of the program that EInv  *)
(* speaks of but from such a part.                                         *)
Stays == /\ pc' \in Bare => pc \in Bare
         /\ pc' \in Formatted => pc \in Formatted
         /\ pc' = "sv_bore" => pc \in Bare \/ (pc = "sv_bore" /\ station_id' = station_id)

LEMMA StaysKept == EInv /\ EffSame /\ Stays /\ station_id' \in Nat => EInv'
  <1> SUFFICES ASSUME EInv, EffSame, Stays, station_id' \in Nat PROVE EInv'
    OBVIOUS
  <1>1. EffBore' = EffBore /\ EffUnits' = EffUnits
    BY DEF EffSame
  <1>2. NeverLayered'
    BY <1>1 DEF EInv, BareInv, NeverLayered
  <1>3. (pc \in Bare => \A s \in Stations : EffBore[s] = "none")'
    BY <1>1 DEF EInv, BareInv, Stays
  <1>4. (pc = "sv_bore" => \A s \in Stations : s > station_id => EffBore[s] = "none")'
    BY <1>1 DEF EInv, BareInv, Stays
  <1>5. UnitsInv'
    BY <1>1 DEF EInv, UnitsInv, Stays
  <1> QED
    BY <1>2, <1>3, <1>4, <1>5 DEF EInv, BareInv

(* Outside of the set-up only NeverLayered is at stake.                    *)
LEMMA SendOutside ==
    ASSUME TInv, EInv, NEW rc, Send(pc, rc), pc # "sv_bore",
           pc' \notin Bare \cup Formatted
    PROVE  EInv'
  <1>1. NeverLayered'
    BY SendEff, CommandBore DEF EInv, BareInv, NeverLayered, EffSame
  <1> QED
    BY <1>1 DEF EInv, BareInv, UnitsInv, Formatted

(* The commands that touch neither: p, ^u, h and c.                        *)
Plain == {"su_reset", "su_map", "su_hemi", "su_cont", "sv_reset", "sv_cont",
          "lp_reset", "lp_cont", "cal_reset", "cal_cont", "end_reset"}

LEMMA SendPlain ==
    ASSUME TInv, EInv, NEW rc, Send(pc, rc), pc \in Plain, Stays, station_id' \in Nat
    PROVE  EInv'
  <1>1. EffUnits' = EffUnits /\ \A s \in Stations : EffBore'[s] = EffBore[s]
    BY SendEff, CommandBore, CommandFormat DEF Plain, EffSame
  <1>2. NeverLayered'
    BY <1>1 DEF EInv, BareInv, NeverLayered
  <1>3. (pc \in Bare => \A s \in Stations : EffBore[s] = "none")'
    BY <1>1 DEF EInv, BareInv, Stays
  <1>4. (pc = "sv_bore" => \A s \in Stations : s > station_id => EffBore[s] = "none")'
    BY <1>1 DEF EInv, BareInv, Stays
  <1>5. UnitsInv'
    BY <1>1 DEF EInv, UnitsInv, Stays
  <1> QED
    BY <1>2, <1>3, <1>4, <1>5 DEF EInv, BareInv

----------------------------------------------------------------------------
LEMMA ReadEff ==
    ASSUME NEW size, ReadFrame(size) \/ ReadFails(size) PROVE EffSame
  BY UnchangedEff DEF ReadFrame, ReadFails, UnchangedByRead

LEMMA SentKept ==
    ASSUME TInv, EInv, NEW l \in Plain, NEW ok, NEW error, Sent(l, ok, error), Stays
    PROVE  EInv'
  <1>1. PICK rc : Send(l, rc)
    BY DEF Sent
  <1>2. pc = l /\ station_id' \in Nat
    BY <1>1 DEF Send, Sent, TInv, TypeOK, AppTypeOK
  <1> QED
    BY <1>1, <1>2, SendPlain

LEMMA ResetKept ==
    ASSUME TInv, EInv, NEW l \in Plain, NEW clear, Reset(l, clear), Stays
    PROVE  EInv'
  <1>1. PICK rc : Send(l, rc)
    BY DEF Reset
  <1>2. pc = l /\ station_id' \in Nat
    BY <1>1 DEF Send, Reset, TInv, TypeOK, AppTypeOK
  <1> QED
    BY <1>1, <1>2, SendPlain

LEMMA MainKeeps == TInv /\ EInv /\ MainStep => EInv'
  <1> SUFFICES ASSUME TInv, EInv, MainStep PROVE EInv'
    OBVIOUS
  <1> USE DEF Stays, Bare, Formatted
  <1>0. station_id \in Nat
    BY DEF TInv, TypeOK, AppTypeOK
  <1>1. CASE DeviceInitCall \/ Spin
    <2>1. EffSame
      BY <1>1, UnchangedEff DEF DeviceInitCall, Spin, deviceVars
    <2>2. Stays /\ station_id' = station_id
      BY <1>1 DEF DeviceInitCall, Spin, LoopTop
    <2> QED
      BY <1>0, <2>1, <2>2, StaysKept
  <1>2. CASE MainReset
    BY <1>2, ResetKept DEF MainReset, Reset, Plain
  <1>3. CASE RecoveryReset \/ EndReset
    BY <1>3, ResetKept DEF RecoveryReset, EndReset, Reset, Plain
  <1>4. CASE MainCleared \/ RecoveryCleared \/ EndCleared
    <2>1. EffSame
      BY <1>4, ReadEff DEF MainCleared, RecoveryCleared, EndCleared, ClearEnds
    <2>2. Stays /\ station_id' = station_id
      BY <1>4 DEF MainCleared, RecoveryCleared, EndCleared
    <2> QED
      BY <1>0, <2>1, <2>2, StaysKept
  <1>5. CASE MainBoresight
    <2>1. PICK rc \in {0, RETURN_ERROR} :
             Send("su_bore", rc) /\ pc' = IF rc = 0 THEN "su_map" ELSE "exited"
      BY <1>5 DEF MainBoresight, Sent
    <2>2. pc = "su_bore"
      BY <2>1 DEF Send
    <2>3. CASE rc = RETURN_ERROR
      BY <2>1, <2>2, <2>3, SendOutside DEF RETURN_ERROR
    <2>4. CASE rc = 0
      <3>1. \A s \in Stations : EffBore'[s] = "none"
        BY <2>1, <2>2, <2>4, SendEff, CommandBore DEF RETURN_ERROR
      <3> QED
        BY <2>1, <2>4, <3>1 DEF EInv, BareInv, UnitsInv, NeverLayered
    <2> QED
      BY <2>3, <2>4
  <1>6. CASE MainStations \/ MainHemisphere \/ RecoveryContinuous
    <2>1. \E l \in {"su_map", "su_hemi", "lp_cont"} : \E ok, error : Sent(l, ok, error) /\ Stays
      BY <1>6 DEF MainStations, MainHemisphere, RecoveryContinuous, Sent, Send
    <2> QED
      BY <2>1, SentKept DEF Plain
  <1>7. CASE ReceiveStations
    <2>1. EffSame
      BY <1>7, ReadEff DEF ReceiveStations
    <2>2. Stays /\ station_id' = station_id
      BY <1>7 DEF ReceiveStations
    <2> QED
      BY <1>0, <2>1, <2>2, StaysKept
  <1>8. CASE MainQuaternion
    <2>1. PICK rc \in {0, RETURN_ERROR} :
             Send("su_quat", rc) /\ pc' = IF rc = 0 THEN "su_hemi" ELSE "exited"
      BY <1>8 DEF MainQuaternion, Sent
    <2>2. pc = "su_quat"
      BY <2>1 DEF Send
    <2>3. CASE rc = RETURN_ERROR
      BY <2>1, <2>2, <2>3, SendOutside DEF RETURN_ERROR
    <2>4. CASE rc = 0
      <3>1. \A s \in Stations : EffBore'[s] = EffBore[s]
        BY <2>1, <2>2, <2>4, SendEff, CommandBore DEF RETURN_ERROR
      <3>2. EffUnits' = "quat"
        BY <2>1, <2>2, <2>4, SendEff, CommandFormat DEF RETURN_ERROR
      <3> QED
        BY <2>1, <2>2, <2>4, <3>1, <3>2 DEF EInv, BareInv, UnitsInv, NeverLayered
    <2> QED
      BY <2>3, <2>4
  <1>9. CASE MainContinuous
    <2>1. PICK rc : Send("su_cont", rc)
      BY <1>9 DEF MainContinuous
    <2>2. pc = "su_cont"
      BY <2>1 DEF Send
    <2>3. Stays /\ station_id' \in Nat
      BY <1>0, <1>9, <2>2 DEF MainContinuous, NextStation
    <2> QED
      BY <2>1, <2>2, <2>3, SendPlain DEF Plain
  <1>10. CASE ClearInput
    <2>1. EffSame
      BY <1>10, ReadEff DEF ClearInput
    <2> QED
      BY <1>0, <1>10, <2>1, StaysKept DEF ClearInput
  <1>11. CASE MainLoop
    <2>1. EffSame
      BY <1>11, ReadEff DEF MainLoop, Receive
    <2>2. pc' \in {"lp_reset", "lp_spin"} /\ station_id' = station_id
      BY <1>11 DEF MainLoop
    <2> QED
      BY <1>0, <2>1, <2>2, StaysKept
  <1> QED
    BY <1>1, <1>2, <1>3, <1>4, <1>5, <1>6, <1>7, <1>8, <1>9, <1>10, <1>11 DEF MainStep

LEMMA SavedKeeps == TInv /\ EInv /\ SavedCalibrationStep => EInv'
  <1> SUFFICES ASSUME TInv, EInv, SavedCalibrationStep PROVE EInv'
    OBVIOUS
  <1> USE DEF Stays, Bare, Formatted
  <1>0. station_id \in Nat
    BY DEF TInv, TypeOK, AppTypeOK
  <1>1. CASE SavedAwait
    <2>1. EffSame
      BY <1>1, ReadEff DEF SavedAwait, Await, Receive
    <2>2. pc \in {"sv_first", "sv_wait"} /\ pc' \in {"sv_wait", "sv_reset", "end_reset"}
      BY <1>1 DEF SavedAwait, Await, Receive
    <2>3. station_id' = station_id
      BY <1>1 DEF SavedAwait, Await
    <2> QED
      BY <1>0, <2>1, <2>2, <2>3, StaysKept
  <1>2. CASE SavedReset
    <2>1. pc = "sv_reset"
      BY <1>2 DEF SavedReset, Reset, Send
    <2> QED
      BY <1>2, <2>1, ResetKept DEF SavedReset, Reset, Plain
  <1>3. CASE SavedCleared
    <2>1. EffSame
      BY <1>3, ReadEff DEF SavedCleared, ClearEnds
    <2>2. pc = "sv_clear"
      BY <1>3 DEF SavedCleared, ClearEnds
    <2>3. station_id' \in Nat /\ pc' \in {"end_reset", "sv_bore", "sv_cont"}
      BY <1>0, <1>3 DEF SavedCleared, NextStation
    <2> QED
      BY <2>1, <2>2, <2>3, StaysKept
  <1>4. CASE SavedBoresight
    <2>1. PICK rc \in {0, RETURN_ERROR} :
             /\ Send("sv_bore", rc)
             /\ IF rc = 0 THEN NextStation(station_id + 1)
                ELSE pc' = "end_reset" /\ UNCHANGED station_id
      BY <1>4 DEF SavedBoresight
    <2>2. pc = "sv_bore"
      BY <2>1 DEF Send
    <2>3. \A s \in Stations : s > station_id => EffBore[s] = "none"
      BY <2>2 DEF EInv, BareInv
    <2>4. Stations \subseteq Nat
      BY DeviceAssumption
    <2>5. NeverLayered'
      BY <1>0, <2>1, <2>2, <2>3, <2>4, SendEff, CommandBore
      DEF EInv, BareInv, NeverLayered, EffSame
    <2>6. CASE rc = RETURN_ERROR
      BY <2>1, <2>5, <2>6 DEF EInv, BareInv, UnitsInv, RETURN_ERROR
    <2>7. CASE rc = 0
      <3>1. \A s \in Stations : s > station_id + 1 => EffBore'[s] = "none"
        BY <1>0, <2>1, <2>2, <2>3, <2>4, <2>7, SendEff, CommandBore DEF RETURN_ERROR
      <3>2. EffUnits' = "quat"
        BY <2>1, <2>2, <2>7, SendEff, CommandFormat DEF RETURN_ERROR, EInv, UnitsInv
      <3>3. \/ pc' = "sv_bore" /\ station_id' = station_id + 1
            \/ pc' = "sv_cont"
        BY <2>1, <2>7 DEF NextStation
      <3> QED
        BY <2>5, <3>1, <3>2, <3>3 DEF EInv, BareInv, UnitsInv
    <2> QED
      BY <2>6, <2>7
  <1>5. CASE SavedContinuous
    <2>1. PICK rc : Send("sv_cont", rc)
      BY <1>5 DEF SavedContinuous
    <2>2. pc = "sv_cont" /\ pc' = "lp_recv"
      BY <1>5, <2>1 DEF SavedContinuous, Send
    <2> QED
      BY <2>1, <2>2, SendOutside
  <1> QED
    BY <1>1, <1>2, <1>3, <1>4, <1>5 DEF SavedCalibrationStep

LEMMA CalibrationKeeps == TInv /\ EInv /\ CalibrationStep => EInv'
  <1> SUFFICES ASSUME TInv, EInv, CalibrationStep PROVE EInv'
    OBVIOUS
  <1> USE DEF Stays, Bare, Formatted
  <1>0. station_id \in Nat
    BY DEF TInv, TypeOK, AppTypeOK
  <1>1. CASE CalibrateBore
    <2>1. PICK rc : Send("cal_bore", rc)
      BY <1>1 DEF CalibrateBore
    <2>2. pc = "cal_bore" /\ pc' \in {"cal_first", "lp_spin"}
      BY <1>1, <2>1 DEF CalibrateBore, Send, AnswerWith
    <2> QED
      BY <2>1, <2>2, SendOutside
  <1>2. CASE CalibrateAwait
    <2>1. EffSame
      BY <1>2, ReadEff DEF CalibrateAwait, Await, Receive
    <2>2. pc' \in {"cal_wait", "cal_reset", "lp_spin"} /\ station_id' = station_id
      BY <1>2 DEF CalibrateAwait, Await
    <2> QED
      BY <1>0, <2>1, <2>2, StaysKept
  <1>3. CASE CalibrateReset
    BY <1>3, ResetKept DEF CalibrateReset, Reset, Plain
  <1>4. CASE CalibrateCleared \/ CalibrateDump
    <2>1. EffSame
      BY <1>4, ReadEff, UnchangedEff
      DEF CalibrateCleared, ClearEnds, CalibrateDump, deviceVars
    <2>2. pc' \in {"cal_dump", "cal_euler", "lp_spin"} /\ station_id' = station_id
      BY <1>4 DEF CalibrateCleared, CalibrateDump, AnswerWith
    <2> QED
      BY <1>0, <2>1, <2>2, StaysKept
  <1>5. CASE CalibrateEuler \/ CalibrateZero \/ CalibrateQuat
    <2>1. PICK rc : Send(pc, rc)
      BY <1>5 DEF CalibrateEuler, CalibrateZero, CalibrateQuat, Sent, Send
    <2>2. /\ pc \in {"cal_euler", "cal_zero", "cal_quat"}
          /\ pc' \in {"cal_zero", "cal_quat", "cal_cont"}
      BY <1>5 DEF CalibrateEuler, CalibrateZero, CalibrateQuat, Sent, Send
    <2> QED
      BY <2>1, <2>2, SendOutside
  <1>6. CASE CalibrateContinuous
    <2>1. PICK rc : Send("cal_cont", rc)
      BY <1>6 DEF CalibrateContinuous
    <2>2. pc = "cal_cont" /\ pc' = "lp_spin"
      BY <1>6, <2>1 DEF CalibrateContinuous, Send, AnswerWith
    <2> QED
      BY <2>1, <2>2, SendOutside
  <1> QED
    BY <1>1, <1>2, <1>3, <1>4, <1>5, <1>6 DEF CalibrationStep

LEMMA EnvironmentKeeps ==
    TInv /\ EInv /\ (DeviceNext \/ Environment \/ UNCHANGED vars) => EInv'
  <1> SUFFICES ASSUME TInv, EInv, DeviceNext \/ Environment \/ UNCHANGED vars PROVE EInv'
    OBVIOUS
  <1>0. station_id \in Nat
    BY DEF TInv, TypeOK, AppTypeOK
  <1>1. CASE DeviceNext
    <2>1. EffSame
      BY <1>1, ExecuteEff, UnchangedEff DEF DeviceNext, DeviceStream, SensorChange
    <2>2. Stays /\ station_id' = station_id
      BY <1>1 DEF DeviceNext, Stays, progVars
    <2> QED
      BY <1>0, <2>1, <2>2, StaysKept
  <1>2. CASE RequestCalibration \/ TimerExpires \/ Sigint \/ UNCHANGED vars
    <2>1. EffSame
      BY <1>2, UnchangedEff DEF RequestCalibration, TimerExpires, Sigint, vars, deviceVars
    <2>2. Stays /\ station_id' = station_id
      BY <1>2 DEF RequestCalibration, TimerExpires, Sigint, vars, Stays, progVars
    <2> QED
      BY <1>0, <2>1, <2>2, StaysKept
  <1>3. CASE Relaunch
    <2>1. EffSame
      BY <1>3, UnchangedEff DEF Relaunch, deviceVars
    <2>2. Stays /\ station_id' \in Nat
      BY <1>3 DEF Relaunch, Stays, Bare, Formatted
    <2> QED
      BY <2>1, <2>2, StaysKept
  <1> QED
    BY <1>1, <1>2, <1>3 DEF Environment

LEMMA InitialEff == Init => EInv
  <1> SUFFICES ASSUME Init PROVE EInv
    OBVIOUS
  <1>1. TypeOK
    BY InitialTypes DEF TInv
  <1>2. EffBore = bore
    BY <1>1, NothingOutstanding DEF Init, DeviceInit, EffBore
  <1>3. \A s \in Stations : bore[s] # "layered"
    BY DEF Init, DeviceInit
  <1>4. pc = "su_init"
    BY DEF Init, ProcessInit
  <1> QED
    BY <1>2, <1>3, <1>4 DEF EInv, BareInv, UnitsInv, NeverLayered, Bare, Formatted

LEMMA EInvKept == TInv /\ EInv /\ [Next]_vars => EInv'
  BY MainKeeps, SavedKeeps, CalibrationKeeps, EnvironmentKeeps DEF Next, DriverStep, Ended

LEMMA EInvHolds == Spec => [](TInv /\ EInv)
  BY InitialTypes, InitialEff, TypesKept, EInvKept, PTL DEF Spec

(* No station ever carries two boresights, whatever failed and however     *)
(* often the driver was relaunched (README.md:60): main resets the         *)
(* boresight before anything, and send_saved_calibration goes up the       *)
(* stations, correcting each at most once.                                 *)
THEOREM NotLayered == Spec => []NeverLayered
  BY EInvHolds, PTL DEF EInv, BareInv

(* The loop is entered from send_saved_calibration and from nowhere else.  *)
LEMMA EntersFromSaved == Next /\ EntersLoop => SavedContinuous
  <1> SUFFICES ASSUME Next, EntersLoop PROVE SavedContinuous
    OBVIOUS
  <1>1. pc = "sv_cont" /\ pc' = "lp_recv"
    BY DEF EntersLoop
  <1>2. CASE DeviceNext \/ Environment \/ Ended
    BY <1>1, <1>2 DEF DeviceNext, Environment, RequestCalibration, TimerExpires, Sigint,
                      Relaunch, Ended, progVars, vars
  <1>3. ~(MainStep \/ CalibrationStep)
    BY <1>1 DEF MainStep, DeviceInitCall, MainReset, MainCleared, MainBoresight, MainStations,
          ReceiveStations, MainQuaternion, MainHemisphere, MainContinuous, ClearInput,
          ClearLabels, MainLoop, RecoveryReset, RecoveryCleared, RecoveryContinuous, Spin,
          EndReset, EndCleared, CalibrationStep, CalibrateBore, CalibrateAwait, Await,
          CalibrateReset, CalibrateCleared, CalibrateDump, CalibrateEuler, CalibrateZero,
          CalibrateQuat, CalibrateContinuous, Reset, Sent, Send, ClearEnds, Receive
  <1>4. ~(SavedAwait \/ SavedReset \/ SavedCleared \/ SavedBoresight)
    BY <1>1 DEF SavedAwait, Await, Receive, SavedReset, Reset, SavedCleared, ClearEnds,
                SavedBoresight, Send
  <1> QED
    BY <1>2, <1>3, <1>4 DEF Next, DriverStep, SavedCalibrationStep

(* main enters its loop with the device in, or about to be in, quaternion  *)
(* format, whatever failed before.                                         *)
THEOREM EntersInQuaternions == Spec => ReadyInQuaternions
  <1>1. TInv /\ EInv /\ [Next]_vars => (EntersLoop => EffUnits' = "quat") \/ UNCHANGED vars
    <2> SUFFICES ASSUME TInv, EInv, Next, EntersLoop PROVE EffUnits' = "quat"
      BY DEF EntersLoop
    <2>1. pc = "sv_cont" /\ EffUnits = "quat"
      BY DEF EntersLoop, EInv, UnitsInv, Formatted
    <2>2. PICK rc : Send("sv_cont", rc)
      BY EntersFromSaved DEF SavedContinuous
    <2> QED
      BY <2>1, <2>2, SendEff, CommandFormat DEF EffSame
  <1> QED
    BY <1>1, EInvHolds, PTL DEF Spec, ReadyInQuaternions

----------------------------------------------------------------------------
(* The corrections stay in force.  The stations below the one that is      *)
(* corrected have theirs; when the last correction is sent, or there was   *)
(* none to send, every station that is counted has one, unless the         *)
(* parameter server has no angles for it.                                  *)
Restored(s) == EffBore[s] = "corrected"

RInv ==
    /\ pc = "sv_bore" => \A s \in Stations : s <= station_id => Restored(s)
    /\ pc = "sv_cont" /\ (\A s \in Stations : store[s] # "none") =>
          \A s \in Stations : s <= station_count => Restored(s)

(* send_saved_calibration's index walks over the stations without a gap.   *)
Contiguous == \A s \in Stations : 1..s \subseteq Stations

LEMMA NextRestores ==
    ASSUME TInv, Contiguous, NEW i \in Nat, NextStation(i),
           \A s \in Stations : s <= i => Restored(s)',
           UNCHANGED <<store, station_count>>
    PROVE  RInv'
  <1>1. Stations \subseteq Nat \ {0} /\ station_count \in Nat
    BY DeviceAssumption DEF TInv, TypeOK, AppTypeOK
  <1>2. CASE i < station_count /\ i + 1 \in Stations /\ store[i + 1] # "none"
    <2>1. station_id' = i /\ pc' = "sv_bore"
      BY <1>2 DEF NextStation
    <2> QED
      BY <2>1 DEF RInv
  <1>3. CASE ~(i < station_count /\ i + 1 \in Stations /\ store[i + 1] # "none")
    <2>1. pc' = "sv_cont"
      BY <1>3 DEF NextStation
    <2>2. ASSUME \A s \in Stations : store[s] # "none",
                 NEW s \in Stations, s <= station_count
          PROVE  s <= i
      <3> SUFFICES ASSUME i + 1 <= s PROVE FALSE
        BY <1>1
      <3>1. i + 1 \in Stations
        BY <1>1 DEF Contiguous
      <3> QED
        BY <1>1, <1>3, <2>2, <3>1
    <2> QED
      BY <2>1, <2>2 DEF RInv
  <1> QED
    BY <1>2, <1>3

(* A step that neither walks on nor changes what the walk has reached.     *)
Rests == pc' \in {"sv_bore", "sv_cont"} =>
            EffSame /\ UNCHANGED <<pc, station_id, store, station_count>>

LEMMA RestsKept == RInv /\ Rests => RInv'
  <1> SUFFICES ASSUME RInv, Rests, pc' \in {"sv_bore", "sv_cont"} PROVE RInv'
    BY DEF RInv
  <1>1. EffBore' = EffBore /\ pc' = pc /\ station_id' = station_id /\ store' = store
        /\ station_count' = station_count
    BY DEF Rests, EffSame
  <1> QED
    BY <1>1 DEF RInv, Restored

LEMMA OthersRest ==
    /\ MainStep => Rests \/ MainContinuous
    /\ CalibrationStep => Rests
    /\ SavedCalibrationStep => Rests \/ SavedCleared \/ SavedBoresight
  <1> USE DEF Rests
  <1>1. MainStep => Rests \/ MainContinuous
    BY DEF MainStep, DeviceInitCall, MainReset, MainCleared, MainBoresight, MainStations,
           ReceiveStations, MainQuaternion, MainHemisphere, ClearInput, ClearLabels, MainLoop,
           RecoveryReset, RecoveryCleared, RecoveryContinuous, Spin, LoopTop, EndReset,
           EndCleared, Reset, Sent
  <1>2. CalibrationStep => Rests
    BY DEF CalibrationStep, CalibrateBore, CalibrateAwait, Await, CalibrateReset,
           CalibrateCleared, CalibrateDump, CalibrateEuler, CalibrateZero, CalibrateQuat,
           CalibrateContinuous, Reset, Sent, AnswerWith
  <1>3. SavedCalibrationStep => Rests \/ SavedCleared \/ SavedBoresight
    BY DEF SavedCalibrationStep, SavedAwait, Await, SavedReset, Reset, SavedContinuous
  <1> QED
    BY <1>1, <1>2, <1>3

LEMMA EnvironmentRests == TInv /\ (DeviceNext \/ Environment \/ UNCHANGED vars) => Rests
  <1> SUFFICES ASSUME TInv, DeviceNext \/ Environment \/ UNCHANGED vars,
                      pc' \in {"sv_bore", "sv_cont"}
               PROVE  EffSame /\ UNCHANGED <<pc, station_id, store, station_count>>
    BY DEF Rests
  <1>1. CASE DeviceNext
    BY <1>1, ExecuteEff, UnchangedEff DEF DeviceNext, DeviceStream, SensorChange, progVars,
                                          dataVars
  <1>2. CASE RequestCalibration \/ TimerExpires \/ Sigint \/ UNCHANGED vars
    BY <1>2, UnchangedEff DEF RequestCalibration, TimerExpires, Sigint, vars, deviceVars,
                              progVars, dataVars
  <1>3. ~Relaunch
    BY DEF Relaunch
  <1> QED
    BY <1>1, <1>2, <1>3 DEF Environment

LEMMA RInvKept == Contiguous /\ TInv /\ EInv /\ RInv /\ [Next]_vars => RInv'
  <1> SUFFICES ASSUME Contiguous, TInv, EInv, RInv, [Next]_vars PROVE RInv'
    OBVIOUS
  <1>0. station_id \in Nat /\ Stations \subseteq Nat \ {0}
    BY DeviceAssumption DEF TInv, TypeOK, AppTypeOK
  <1>1. CASE Rests
    BY <1>1, RestsKept
  <1>2. CASE MainContinuous
    <2>1. NextStation(0) \/ pc' \in {"sv_first", "exited"}
      BY <1>2 DEF MainContinuous
    <2>2. UNCHANGED <<store, station_count>>
      BY <1>2 DEF MainContinuous, dataVars
    <2>3. CASE pc' \in {"sv_first", "exited"}
      BY <2>3 DEF RInv
    <2> QED
      BY <1>0, <2>1, <2>2, <2>3, NextRestores
  <1>3. CASE SavedCleared
    <2>1. NextStation(0) \/ pc' = "end_reset"
      BY <1>3 DEF SavedCleared
    <2>2. UNCHANGED <<store, station_count>>
      BY <1>3 DEF SavedCleared, ClearEnds, dataVars
    <2>3. CASE pc' = "end_reset"
      BY <2>3 DEF RInv
    <2> QED
      BY <1>0, <2>1, <2>2, <2>3, NextRestores
  <1>4. CASE SavedBoresight
    <2>1. PICK rc \in {0, RETURN_ERROR} :
             /\ Send("sv_bore", rc)
             /\ IF rc = 0 THEN NextStation(station_id + 1)
                ELSE pc' = "end_reset" /\ UNCHANGED station_id
      BY <1>4 DEF SavedBoresight
    <2>2. pc = "sv_bore" /\ UNCHANGED <<store, station_count>>
      BY <1>4, <2>1 DEF Send, SavedBoresight, dataVars
    <2>3. CASE rc # 0
      BY <2>1, <2>3 DEF RInv
    <2>4. CASE rc = 0
      <3>1. ASSUME NEW s \in Stations, s <= station_id + 1 PROVE Restored(s)'
        <4>1. EffBore'[s] = Bored(Command(pc), s, EffBore[s])
          BY <2>1, <2>2, <2>4, SendEff DEF RETURN_ERROR
        <4>2. CASE s = station_id + 1
          <5>1. EffBore[s] = "none"
            BY <1>0, <2>2, <4>2 DEF EInv, BareInv
          <5> QED
            BY <2>2, <4>1, <4>2, <5>1, CommandBore DEF Restored
        <4>3. CASE s <= station_id
          <5>1. EffBore[s] = "corrected" /\ s # station_id + 1
            BY <1>0, <2>2, <4>3 DEF RInv, Restored
          <5> QED
            BY <2>2, <4>1, <5>1, CommandBore DEF Restored
        <4> QED
          BY <1>0, <3>1, <4>2, <4>3
      <3> QED
        BY <1>0, <2>1, <2>2, <2>4, <3>1, NextRestores
    <2> QED
      BY <2>3, <2>4
  <1> QED
    BY <1>1, <1>2, <1>3, <1>4, OthersRest, EnvironmentRests DEF Next, DriverStep, Ended

(* Where the parameter server holds the angles of every station, none of   *)
(* the stations that main counted enters the loop without its correction,  *)
(* whatever failed before, and the last command takes none back.  The      *)
(* stations are numbered without a gap (Contiguous).                       *)
THEOREM CorrectionsInForce == ASSUME Contiguous PROVE Spec => RestoresKept
  <1>1. Init => RInv
    BY DEF Init, ProcessInit, RInv
  <1>2. ASSUME TInv, RInv, Next, EntersLoop, \A s \in Stations : store[s] # "none",
               NEW s \in Stations, s <= station_count
        PROVE  EffBore'[s] = "corrected"
    <2>1. pc = "sv_cont" /\ EffBore[s] = "corrected"
      BY <1>2 DEF EntersLoop, RInv, Restored
    <2>2. PICK rc : Send("sv_cont", rc)
      BY <1>2, EntersFromSaved DEF SavedContinuous
    <2> QED
      BY <1>2, <2>1, <2>2, SendEff, CommandBore DEF EffSame
  <1>3. TInv /\ RInv /\ [Next]_vars =>
            (EntersLoop /\ (\A s \in Stations : store[s] # "none") =>
                \A s \in Stations : s <= station_count => EffBore'[s] = "corrected")
            \/ UNCHANGED vars
    BY <1>2
  <1>4. TInv /\ EInv /\ RInv /\ [Next]_vars => RInv'
    BY RInvKept
  <1> QED
    BY <1>1, <1>3, <1>4, EInvHolds, PTL DEF Spec, RestoresKept
=============================================================================

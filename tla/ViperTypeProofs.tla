-------------------------- MODULE ViperTypeProofs --------------------------
(***************************************************************************)
(* Type correctness of ViperDriver, and that frames are looked up within   *)
(* their bounds, for every value of the constants and whatever fails.      *)
(*                                                                         *)
(* TypeOK is inductive but for one fact: a source command is sent only for *)
(* a source number the code accepted (SourceAccepted).  The lemmas go up   *)
(* the modules: the device, the link, the control of the driver.  For the  *)
(* lookups, the second part adds what the driver knows of the call it is   *)
(* in (Calls) and of the frame it last took (Frame).                       *)
(***************************************************************************)
EXTENDS ViperProperties, FiniteSetTheorems, TLAPS

USE StationsAssumption, DeviceAssumption, DriverAssumption

(* set_source runs for a request in progress and sends no command for a    *)
(* source number below 1.                                                  *)
SourceAccepted == pc = "src_set" => Pending /\ client.kind = "source" /\ client.source >= 1

TInv == TypeOK /\ SourceAccepted

----------------------------------------------------------------------------
(* Counting stations gives a natural number.                               *)
LEMMA CountIsNat == \A S \in SUBSET Stations : Cardinality(S) \in Nat
  BY FS_Subset, FS_CardinalityType

(* A frame has a size of at least one byte (device_clear_input's loop goes *)
(* on after every frame).                                                  *)
LEMMA FrameSizePositive == \A f \in Frames : FrameSize(f) \in Nat /\ FrameSize(f) > 0
  <1> SUFFICES ASSUME NEW f \in Frames
               PROVE  FrameSize(f) \in Nat /\ FrameSize(f) > 0
    OBVIOUS
  <1>1. Cardinality(f.sensors) \in Nat
    BY CountIsNat DEF Frames
  <1> QED
    BY <1>1 DEF FrameSize

(* A reply and a PNO frame are frames.                                     *)
LEMMA ReplyIsFrame ==
    ASSUME NEW c \in Commands, NEW act \in {"ACK", "NAK"}, NEW S \in SUBSET Stations
    PROVE  Reply(c, act, S) \in Frames
  BY DEF Reply, Frames, Commands

LEMMA PnoIsFrame ==
    ASSUME NEW u \in OriUnits, NEW S \in SUBSET Stations
    PROVE  PnoFrame(u, S) \in Frames
  BY DEF PnoFrame, Frames

(* The command of every label is a command, or none.                       *)
LEMMA CommandType == TInv => Command(pc) \in Commands \cup {NoCommand}
  <1> SUFFICES ASSUME TInv PROVE Command(pc) \in Commands \cup {NoCommand}
    OBVIOUS
  <1> USE DEF Fill, Commands, CmdTypes, OriUnits, AllStations, NoMap
  <1>1. /\ DataMode("DATA_RESET") \in Commands
        /\ DataMode("DATA_CONTINUOUS") \in Commands
        /\ DataMode("DATA_SINGLE") \in Commands
    BY DEF DataMode
  <1>2. /\ ResetBoresight \in Commands
        /\ RequestNumOfStations \in Commands
        /\ SetHemisphere \in Commands
        /\ DefineDataType("quat") \in Commands
        /\ DefineDataType("euler") \in Commands
    BY DEF ResetBoresight, RequestNumOfStations, SetHemisphere, DefineDataType
  <1>3. /\ SetBoresight(station_id, "correction") \in Commands
        /\ SetBoresight(AllStations, "zero") \in Commands
    BY DEF TInv, TypeOK, AppTypeOK, SetBoresight
  <1>4. ASSUME pc = "src_set" PROVE SetSource(client.source, client.station) \in Commands
    <2>1. client.source \in Nat /\ client.station \in Stations \cup {AllStations}
      <3>1. client.source \in Sources \cup {1}
        BY DEF TInv, TypeOK, AppTypeOK
      <3>2. client.station \in Stations \cup {AllStations}
        BY DEF TInv, TypeOK, AppTypeOK
      <3>3. \A x \in Sources \cup {1} : x \in Nat
        BY DriverAssumption
      <3> QED
        BY <3>1, <3>2, <3>3
    <2>2. client.source >= 1
      BY <1>4 DEF TInv, SourceAccepted
    <2> QED
      BY <2>1, <2>2 DEF SetSource, SourceMap
  <1> HIDE DEF Fill, Commands, CmdTypes, OriUnits, AllStations, NoMap
  <1> QED
    BY <1>1, <1>2, <1>3, <1>4 DEF Command

----------------------------------------------------------------------------
(* The device's own steps.                                                 *)
LEMMA DeviceTypes ==
    ASSUME DeviceTypeOK, DeviceStep \/ DeviceRefuse \/ SensorChange
    PROVE  DeviceTypeOK'
  <1> USE DEF DeviceTypeOK
  <1>1. CASE DeviceExecute
    <2>1. inbox \in Commands
      BY <1>1 DEF DeviceExecute
    <2>2. streaming' \in BOOLEAN
      BY <1>1 DEF DeviceExecute, StreamingAfter
    <2>3. units' \in OriUnits
      BY <1>1, <2>1 DEF DeviceExecute, UnitsAfter, Commands
    <2>4. layers' \in [Stations -> 0..MaxLayers]
      BY <1>1 DEF DeviceExecute, LayersAfter, MaxLayers
    <2>5. zeroed' \in BOOLEAN
      BY <1>1 DEF DeviceExecute, ZeroedAfter
    <2>6. srcmap' \in [Stations -> SUBSET Nat]
      BY <1>1, <2>1 DEF DeviceExecute, SrcmapAfter, Commands
    <2>7. pipe' \in Seq(Frames)
      <3>1. Reply(inbox, "ACK", sensors) \in Frames /\ PnoFrame(units, sensors) \in Frames
        BY <2>1, ReplyIsFrame, PnoIsFrame
      <3>2. <<Reply(inbox, "ACK", sensors)>> \in Seq(Frames)
        BY <3>1
      <3>3. (IF inbox.cmd = "SINGLE_PNO" THEN <<PnoFrame(units, sensors)>> ELSE <<>>)
               \in Seq(Frames)
        BY <3>1
      <3> QED
        BY <1>1, <3>2, <3>3 DEF DeviceExecute
    <2> QED
      BY <1>1, <2>2, <2>3, <2>4, <2>5, <2>6, <2>7 DEF DeviceExecute
  <1>2. CASE DeviceRefuse
    <2>1. Reply(inbox, "NAK", sensors) \in Frames
      BY <1>2, ReplyIsFrame DEF DeviceRefuse
    <2>2. faults' \in 0..MaxFaults
      BY <1>2 DEF DeviceRefuse, Fault
    <2> QED
      BY <1>2, <2>1, <2>2 DEF DeviceRefuse
  <1>3. CASE DeviceStream
    <2>1. PnoFrame(units, sensors) \in Frames
      BY PnoIsFrame
    <2> QED
      BY <1>3, <2>1 DEF DeviceStream
  <1>4. CASE SensorChange
    <2>1. faults' \in 0..MaxFaults
      BY <1>4 DEF SensorChange, Fault
    <2> QED
      BY <1>4, <2>1 DEF SensorChange
  <1> QED
    BY <1>1, <1>2, <1>3, <1>4 DEF DeviceStep

----------------------------------------------------------------------------
(* A write of a command, whatever became of it.                            *)
LEMMA AfterWriteTypes ==
    ASSUME LinkTypeOK, NEW c, NEW rc \in {RETURN_ERROR, 0}, AfterWrite(c, rc),
           UNCHANGED pno
    PROVE  LinkTypeOK'
  BY DEF LinkTypeOK, AfterWrite, RETURN_ERROR, VIPER_RX_BUF_SIZE, attempts

LEMMA WriteTypes ==
    ASSUME DeviceTypeOK, LinkTypeOK, NEW c \in Commands \cup {NoCommand},
           WriteOk(c) \/ WriteLost(c) \/ WriteUnreported(c)
    PROVE  DeviceTypeOK' /\ LinkTypeOK'
  <1>1. LinkTypeOK'
    BY AfterWriteTypes DEF WriteOk, WriteLost, WriteUnreported, UnchangedByWrite
  <1>2. inbox' \in Commands \cup {NoCommand}
    BY DEF WriteOk, WriteLost, WriteUnreported, DeviceTypeOK
  <1>3. faults' \in 0..MaxFaults
    BY DEF WriteOk, WriteLost, WriteUnreported, DeviceTypeOK, Fault
  <1> QED
    BY <1>1, <1>2, <1>3
    DEF WriteOk, WriteLost, WriteUnreported, UnchangedByWrite, DeviceTypeOK

(* A read that failed.                                                     *)
LEMMA ReadFailedTypes ==
    ASSUME LinkTypeOK, ReadFailed
    PROVE  LinkTypeOK'
  BY DEF LinkTypeOK, ReadFailed, ReplyMissed, Return, RETURN_ERROR, attempts

(* A frame that was read, for each of the four ways to read on.            *)
LEMMA FrameTypes ==
    ASSUME LinkTypeOK, NEW c, NEW f \in Frames, g_nrxcount' \in Nat,
           ReceiveDataFrame(c, f) \/ ReceiveStationMap(f) \/ ReceivePno(f) \/ ClearInput(f)
    PROVE  LinkTypeOK'
  <1> USE DEF LinkTypeOK
  <1>0. Cardinality(f.sensors) \in Nat /\ MaxStations \in Nat
    BY CountIsNat DEF Frames, MaxStations
  <1>1. CASE ReceiveDataFrame(c, f)
    BY <1>1 DEF ReceiveDataFrame, ReplyMissed, Return, RETURN_ERROR, attempts
  <1>2. CASE ReceiveStationMap(f)
    <2>1. station_count' \in Nat
      BY <1>0, <1>2 DEF ReceiveStationMap
    <2> QED
      BY <1>2, <2>1 DEF ReceiveStationMap, Return
  <1>3. CASE ReceivePno(f)
    <2>1. CASE IsPno(f)
      <3>1. [units |-> f.units, sensors |-> f.sensors]
              \in [units : OriUnits \cup {"none"}, sensors : SUBSET Stations]
        BY DEF Frames
      <3> QED
        BY <1>0, <1>3, <2>1, <3>1 DEF ReceivePno, Return
    <2>2. CASE ~IsPno(f)
      BY <1>3, <2>2 DEF ReceivePno, Return
    <2> QED
      BY <2>1, <2>2
  <1>4. CASE ClearInput(f)
    BY <1>4 DEF ClearInput
  <1> QED
    BY <1>1, <1>2, <1>3, <1>4

LEMMA ReadTypes ==
    ASSUME DeviceTypeOK, LinkTypeOK, NEW c, ReadStep(c) \/ ReadFaultStep
    PROVE  DeviceTypeOK' /\ LinkTypeOK'
  <1>1. CASE ReadStep(c)
    <2>1. pipe' \in Seq(Frames) /\ faults' = faults
      BY <1>1 DEF ReadStep, DeviceRead, ReadOverflow, ReadTimeout, DeviceTypeOK
    <2>2. DeviceTypeOK'
      BY <1>1, <2>1 DEF ReadStep, UnchangedByRead, DeviceTypeOK
    <2>3. CASE DeviceRead
      <3>1. Head(pipe) \in Frames
        BY <2>3 DEF DeviceRead, DeviceTypeOK
      <3>2. g_nrxcount' \in Nat
        BY <2>3, <3>1, FrameSizePositive DEF DeviceRead
      <3> QED
        BY <1>1, <2>2, <2>3, <3>1, <3>2, FrameTypes, ReadFailedTypes DEF ReadStep
    <2>4. CASE ~DeviceRead
      BY <1>1, <2>2, <2>4, ReadFailedTypes DEF ReadStep
    <2> QED
      BY <2>3, <2>4
  <1>2. CASE ReadFaultStep
    <2>1. LinkTypeOK'
      BY <1>2, ReadFailedTypes DEF ReadFaultStep
    <2>2. faults' \in 0..MaxFaults
      BY <1>2 DEF ReadFaultStep, ReadFault, Fault, DeviceTypeOK
    <2> QED
      BY <1>2, <2>1, <2>2 DEF ReadFaultStep, ReadFault, UnchangedByRead, DeviceTypeOK
  <1> QED
    BY <1>1, <1>2

----------------------------------------------------------------------------
(* Going to a label starts the call that is made there.                    *)
LEMMA GotoTypes ==
    ASSUME LinkTypeOK, NEW l \in Labels, Goto(l)
    PROVE  LinkTypeOK' /\ pc' = l /\ pc' \in Labels
  BY DEF Goto, LinkTypeOK, StartSend, StartPno, StartIdle, VIPER_RX_BUF_SIZE

LEMMA ElsewhereTypes ==
    ASSUME DeviceTypeOK, Elsewhere
    PROVE  DeviceTypeOK'
  BY DEF DeviceTypeOK, Elsewhere, deviceVars

(* What every step of the driver's control leaves to show: the types of    *)
(* what is neither the device's, nor the link's, nor pc.                   *)
RestTypeOK ==
    /\ flag \in 0..2
    /\ nb_attempts \in 0..5
    /\ station_id \in Stations \cup {-1}
    /\ timer \in {"off", "running", "expired"}
    /\ keep_main_loop_running \in BOOLEAN
    /\ client \in [kind : {"none", "calibrate", "source"}, source : Sources \cup {1},
                   station : Stations \cup {AllStations},
                   reply : {"none", "success", "failure"}]
    /\ params \in SUBSET Stations
    /\ store \in [Stations -> Saved]
    /\ file \in [Stations -> Saved]

LEMMA RestOfApp == /\ AppTypeOK <=> (pc \in Labels /\ RestTypeOK)
                   /\ AppTypeOK' <=> (pc' \in Labels /\ RestTypeOK')
  BY DEF AppTypeOK, RestTypeOK

LEMMA UnchangedAppTypes == TInv /\ UnchangedApp => RestTypeOK'
  BY DEF TInv, TypeOK, AppTypeOK, UnchangedApp, RestTypeOK

(* Any label but that of set_source's command.                             *)
Plain == Labels \ {"src_set"}

LEMMA ControlTypes ==
    ASSUME TInv, DeviceTypeOK', \E l \in Plain : Goto(l), RestTypeOK'
    PROVE  TInv'
  <1>1. PICK l \in Plain : Goto(l)
    OBVIOUS
  <1>2. LinkTypeOK' /\ pc' = l /\ l \in Labels /\ l # "src_set"
    BY <1>1, GotoTypes DEF TInv, TypeOK, Plain
  <1> QED
    BY <1>2, RestOfApp DEF TInv, TypeOK, SourceAccepted

(* The helpers of the control go to plain labels.                          *)
LEMMA Destinations ==
    /\ \A ok, error \in Plain : OnResult(ok, error) => \E l \in Plain : Goto(l)
    /\ LoopTop => \E l \in Plain : Goto(l)
    /\ RetryStation => \E l \in Plain : Goto(l)
    /\ \A s : NextStation(s) => \E l \in Plain : Goto(l)
    /\ SendLabels \ {"src_set"} \subseteq Plain
    /\ PnoLabels \subseteq Plain
    /\ IdleLabels \subseteq Plain
  <1>1. {"sd_reset", "lp_recv", "sv_euler", "sv_fail", "sv_cont"} \subseteq Plain
    BY DEF Plain, Labels, SendLabels, PnoLabels, IdleLabels
  <1>2. /\ SendLabels \ {"src_set"} \subseteq Plain
        /\ PnoLabels \subseteq Plain
        /\ IdleLabels \subseteq Plain
    BY DEF Plain, Labels, SendLabels, PnoLabels, IdleLabels
  <1>3. LoopTop => \E l \in Plain : Goto(l)
    BY <1>1 DEF LoopTop
  <1>4. RetryStation => \E l \in Plain : Goto(l)
    BY <1>1 DEF RetryStation
  <1>5. \A s : NextStation(s) => \E l \in Plain : Goto(l)
    BY <1>1 DEF NextStation
  <1>6. \A ok, error \in Plain : OnResult(ok, error) => \E l \in Plain : Goto(l)
    BY DEF OnResult
  <1> QED
    BY <1>2, <1>3, <1>4, <1>5, <1>6

----------------------------------------------------------------------------
(* One lemma per procedure of the driver, one step per action.             *)
LEMMA MainTypes == TInv /\ MainStep => TInv'
  <1> SUFFICES ASSUME TInv, MainStep PROVE TInv'
    OBVIOUS
  <1> USE Destinations
  <1>1. ASSUME Elsewhere PROVE DeviceTypeOK'
    BY <1>1, ElsewhereTypes DEF TInv, TypeOK
  <1>2. ASSUME NEW l, NEW next \in Plain, StartupStep(l, next) PROVE TInv'
    <2>1. "exited" \in Plain
      BY DEF IdleLabels
    <2> QED
      BY <1>1, <1>2, <2>1, ControlTypes, UnchangedAppTypes DEF StartupStep
  <1>3. {"su_bore", "su_map", "su_quat", "su_hemi", "su_cont"} \subseteq Plain
    BY DEF SendLabels
  <1>4. CASE MainReset \/ MainBoresight \/ MainStations \/ MainQuaternion \/ MainHemisphere
    BY <1>2, <1>3, <1>4
    DEF MainReset, MainBoresight, MainStations, MainQuaternion, MainHemisphere
  <1>5. CASE MainContinuous
    <2>1. \E l \in Plain : Goto(l)
      BY <1>5 DEF MainContinuous, PnoLabels, IdleLabels
    <2>2. station_id' \in Stations \cup {-1} /\ nb_attempts' \in 0..5
      BY <1>5 DEF MainContinuous, NextStation, max_attempts, TInv, TypeOK, AppTypeOK
    <2>3. RestTypeOK'
      BY <1>5, <2>2 DEF MainContinuous, RestTypeOK, TInv, TypeOK, AppTypeOK
    <2> QED
      BY <1>1, <1>5, <2>1, <2>3, ControlTypes DEF MainContinuous
  <1>6. CASE MainLoopError \/ MainLoopNoSensors \/ MainLoopPublish
    <2>1. \E l \in Plain : Goto(l)
      BY <1>6 DEF MainLoopError, MainLoopNoSensors, MainLoopPublish, SendLabels, IdleLabels
    <2>2. flag' \in 0..2
      BY <1>6 DEF MainLoopError, MainLoopNoSensors, MainLoopPublish, TInv, TypeOK, AppTypeOK
    <2>3. UNCHANGED <<nb_attempts, station_id, timer, keep_main_loop_running, client, params,
                      store, file>>
      BY <1>6 DEF MainLoopError, MainLoopNoSensors, MainLoopPublish
    <2>4. RestTypeOK'
      BY <2>2, <2>3 DEF RestTypeOK, TInv, TypeOK, AppTypeOK
    <2> QED
      BY <1>1, <1>6, <2>1, <2>4, ControlTypes
      DEF MainLoopError, MainLoopNoSensors, MainLoopPublish
  <1>7. CASE RecoveryReset \/ RecoveryContinuous \/ ShutDown
    <2>1. \E l \in Plain : Goto(l)
      BY <1>7 DEF RecoveryReset, RecoveryContinuous, ShutDown, SendLabels, IdleLabels
    <2> QED
      BY <1>1, <1>7, <2>1, ControlTypes, UnchangedAppTypes
      DEF RecoveryReset, RecoveryContinuous, ShutDown
  <1>8. CASE SpinIdle
    BY <1>1, <1>8, ControlTypes, UnchangedAppTypes DEF SpinIdle
  <1> QED
    BY <1>4, <1>5, <1>6, <1>7, <1>8 DEF MainStep

LEMMA SavedCalibrationTypes == TInv /\ SavedCalibrationStep => TInv'
  <1> SUFFICES ASSUME TInv, SavedCalibrationStep PROVE TInv'
    OBVIOUS
  <1> USE Destinations
  <1>1. ASSUME Elsewhere PROVE DeviceTypeOK'
    BY <1>1, ElsewhereTypes DEF TInv, TypeOK
  <1>2. ASSUME NextStation(-1) \/ NextStation(station_id) \/ RetryStation
        PROVE  station_id' \in Stations \cup {-1} /\ nb_attempts' \in 0..5
    BY <1>2 DEF NextStation, RetryStation, max_attempts, TInv, TypeOK, AppTypeOK
  <1>3. CASE SavedFirst
    <2>1. \E l \in Plain : Goto(l)
      BY <1>3 DEF SavedFirst, AwaitFirst, PnoLabels, SendLabels
    <2>2. RestTypeOK'
      BY <1>3 DEF SavedFirst, AwaitFirst, RestTypeOK, TInv, TypeOK, AppTypeOK
    <2> QED
      BY <1>1, <1>3, <2>1, <2>2, ControlTypes DEF SavedFirst, AwaitFirst
  <1>4. CASE SavedWait \/ SavedTimeout \/ SavedFailed
    <2>1. \E l \in Plain : Goto(l)
      BY <1>4 DEF SavedWait, AwaitMore, SavedTimeout, SavedFailed, PnoLabels, SendLabels,
                  IdleLabels
    <2> QED
      BY <1>1, <1>4, <2>1, ControlTypes, UnchangedAppTypes
      DEF SavedWait, AwaitMore, SavedTimeout, SavedFailed
  <1>5. CASE SavedReset
    <2>1. \E l \in Plain : Goto(l)
      BY <1>5 DEF SavedReset, SendLabels
    <2>2. station_id' \in Stations \cup {-1} /\ nb_attempts' \in 0..5
      BY <1>2, <1>5 DEF SavedReset, TInv, TypeOK, AppTypeOK
    <2>3. RestTypeOK'
      BY <1>5, <2>2 DEF SavedReset, RestTypeOK, TInv, TypeOK, AppTypeOK
    <2> QED
      BY <1>1, <1>5, <2>1, <2>3, ControlTypes DEF SavedReset
  <1>6. CASE SavedEuler \/ SavedBoresight \/ SavedQuaternion
    <2>1. \E l \in Plain : Goto(l)
      BY <1>6 DEF SavedEuler, SavedBoresight, SavedStep, SavedQuaternion, SendLabels
    <2>2. station_id' \in Stations \cup {-1} /\ nb_attempts' \in 0..5
      BY <1>2, <1>6
      DEF SavedEuler, SavedBoresight, SavedStep, SavedQuaternion, TInv, TypeOK, AppTypeOK
    <2>3. RestTypeOK'
      BY <1>6, <2>2 DEF SavedEuler, SavedBoresight, SavedStep, SavedQuaternion, RestTypeOK,
                        TInv, TypeOK, AppTypeOK
    <2> QED
      BY <1>1, <1>6, <2>1, <2>3, ControlTypes
      DEF SavedEuler, SavedBoresight, SavedStep, SavedQuaternion
  <1>7. CASE SavedContinuous
    <2>1. \E l \in Plain : Goto(l)
      BY <1>7 DEF SavedContinuous, PnoLabels, SendLabels
    <2>2. RestTypeOK'
      BY <1>7 DEF SavedContinuous, RestTypeOK, TInv, TypeOK, AppTypeOK
    <2> QED
      BY <1>1, <1>7, <2>1, <2>2, ControlTypes DEF SavedContinuous
  <1> QED
    BY <1>3, <1>4, <1>5, <1>6, <1>7 DEF SavedCalibrationStep

LEMMA CalibrationTypes == TInv /\ CalibrationStep => TInv'
  <1> SUFFICES ASSUME TInv, CalibrationStep PROVE TInv'
    OBVIOUS
  <1> USE Destinations
  <1>1. ASSUME Elsewhere PROVE DeviceTypeOK'
    BY <1>1, ElsewhereTypes DEF TInv, TypeOK
  <1>2. ASSUME NEW l, NEW next \in Plain, CalibrateStep(l, next) PROVE TInv'
    BY <1>1, <1>2, ControlTypes, UnchangedAppTypes DEF CalibrateStep
  <1>3. {"cal_single", "cal_bore", "cal_first", "cal_wait", "cal_reset", "cal_save", "cal_dump",
         "cal_euler", "cal_zero", "cal_quat", "cal_cont"} \subseteq Plain
    BY DEF SendLabels, PnoLabels, IdleLabels
  <1>4. CASE \/ CalibrateSingle \/ CalibrateBore \/ CalibrateReset \/ CalibrateEuler
             \/ CalibrateZero \/ CalibrateQuat
    BY <1>2, <1>3, <1>4 DEF CalibrateSingle, CalibrateBore, CalibrateReset, CalibrateEuler,
                            CalibrateZero, CalibrateQuat
  <1>5. CASE CalibrateStart \/ CalibrateWait
    <2>1. \E l \in Plain : Goto(l)
      BY <1>3, <1>5 DEF CalibrateStart, CalibrateWait, AwaitMore
    <2> QED
      BY <1>1, <1>5, <2>1, ControlTypes, UnchangedAppTypes
      DEF CalibrateStart, CalibrateWait, AwaitMore
  <1>6. CASE CalibrateFails \/ CalibrateSucceeds
    <2>1. client' \in [kind : {"none", "calibrate", "source"}, source : Sources \cup {1},
                       station : Stations \cup {AllStations},
                       reply : {"none", "success", "failure"}]
      BY <1>6 DEF CalibrateFails, CalibrateSucceeds, Answer, TInv, TypeOK, AppTypeOK
    <2>2. RestTypeOK'
      BY <1>6, <2>1 DEF CalibrateFails, CalibrateSucceeds, Answer, RestTypeOK, TInv, TypeOK,
                        AppTypeOK
    <2> QED
      BY <1>1, <1>6, <2>2, ControlTypes
      DEF CalibrateFails, CalibrateSucceeds, Answer, IdleLabels
  <1>7. CASE CalibrateFirst
    <2>1. \E l \in Plain : Goto(l)
      BY <1>3, <1>7 DEF CalibrateFirst, AwaitFirst
    <2>2. RestTypeOK'
      BY <1>7 DEF CalibrateFirst, AwaitFirst, RestTypeOK, TInv, TypeOK, AppTypeOK
    <2> QED
      BY <1>1, <1>7, <2>1, <2>2, ControlTypes DEF CalibrateFirst, AwaitFirst
  <1>8. CASE CalibrateSave
    <2>1. store' \in [Stations -> Saved] /\ Goto("cal_dump")
      <3>1. pno.units \in Saved
        BY DEF TInv, TypeOK, LinkTypeOK, Saved
      <3> QED
        BY <1>8, <3>1 DEF CalibrateSave, TInv, TypeOK, AppTypeOK
    <2>2. RestTypeOK'
      BY <1>8, <2>1 DEF CalibrateSave, RestTypeOK, TInv, TypeOK, AppTypeOK
    <2> QED
      BY <1>1, <1>3, <1>8, <2>1, <2>2, ControlTypes DEF CalibrateSave
  <1>9. CASE CalibrateDump
    <2>1. RestTypeOK'
      BY <1>9 DEF CalibrateDump, RestTypeOK, TInv, TypeOK, AppTypeOK
    <2> QED
      BY <1>1, <1>3, <1>9, <2>1, ControlTypes DEF CalibrateDump
  <1> QED
    BY <1>4, <1>5, <1>6, <1>7, <1>8, <1>9 DEF CalibrationStep

(* The failures of the dump.                                               *)
LEMMA DumpTypes == TInv /\ (DumpFails \/ NoShell) => TInv'
  <1> SUFFICES ASSUME TInv, DumpFails \/ NoShell PROVE TInv'
    OBVIOUS
  <1> USE Destinations
  <1>1. DeviceTypeOK'
    BY DEF DumpFails, NoShell, Fault, deviceVars, DeviceTypeOK, TInv, TypeOK
  <1>2. \E l \in Plain : Goto(l)
    BY DEF DumpFails, NoShell, SendLabels, IdleLabels
  <1>3. CASE DumpFails
    BY <1>1, <1>2, <1>3, ControlTypes, UnchangedAppTypes DEF DumpFails
  <1>4. CASE NoShell
    <2>1. RestTypeOK'
      BY <1>4 DEF NoShell, RestTypeOK, TInv, TypeOK, AppTypeOK
    <2> QED
      BY <1>1, <1>2, <2>1, ControlTypes
  <1> QED
    BY <1>3, <1>4

LEMMA SourceTypes == TInv /\ SourceStep => TInv'
  <1> SUFFICES ASSUME TInv, SourceStep PROVE TInv'
    OBVIOUS
  <1>1. ASSUME Elsewhere PROVE DeviceTypeOK'
    BY <1>1, ElsewhereTypes DEF TInv, TypeOK
  <1>2. CASE SourceStart
    <2>1. LinkTypeOK' /\ pc' = "src_set" /\ pc' \in Labels
      <3>1. "src_set" \in Labels
        BY DEF Labels, SendLabels
      <3> QED
        BY <1>2, <3>1, GotoTypes DEF SourceStart, TInv, TypeOK
    <2>2. RestTypeOK'
      BY <1>2, UnchangedAppTypes DEF SourceStart
    <2>3. SourceAccepted'
      BY <1>2 DEF SourceStart, SourceAccepted, Pending, UnchangedApp
    <2> QED
      BY <1>1, <1>2, <2>1, <2>2, <2>3, RestOfApp DEF SourceStart, TInv, TypeOK
  <1>3. CASE SourceInvalid \/ SourceEnd
    <2>1. client' \in [kind : {"none", "calibrate", "source"}, source : Sources \cup {1},
                       station : Stations \cup {AllStations},
                       reply : {"none", "success", "failure"}]
      BY <1>3 DEF SourceInvalid, SourceEnd, Answer, TInv, TypeOK, AppTypeOK
    <2>2. RestTypeOK'
      BY <1>3, <2>1 DEF SourceInvalid, SourceEnd, Answer, RestTypeOK, TInv, TypeOK, AppTypeOK
    <2> QED
      BY <1>1, <1>3, <2>2, ControlTypes, Destinations
      DEF SourceInvalid, SourceEnd, Answer, IdleLabels
  <1> QED
    BY <1>2, <1>3 DEF SourceStep

(* The steps of the link and of the device leave the driver's control.     *)
LEMMA UnderneathTypes ==
    ASSUME TInv, DeviceTypeOK', LinkTypeOK', UNCHANGED appVars
    PROVE  TInv'
  BY DEF TInv, TypeOK, AppTypeOK, appVars, SourceAccepted, Pending

LEMMA EnvironmentTypes == TInv /\ Environment => TInv'
  <1> SUFFICES ASSUME TInv, Environment PROVE TInv'
    OBVIOUS
  <1> USE DEF TInv, TypeOK
  <1>1. ASSUME UNCHANGED <<deviceVars, faults, linkVars>> PROVE DeviceTypeOK' /\ LinkTypeOK'
    BY <1>1 DEF deviceVars, linkVars, DeviceTypeOK, LinkTypeOK
  <1>2. ASSUME NEW kind \in {"calibrate", "source"}, NEW source \in Sources \cup {1},
               NEW station \in Stations \cup {AllStations}, ClientCalls(kind, source, station)
        PROVE  TInv'
    <2>1. client' \in [kind : {"none", "calibrate", "source"}, source : Sources \cup {1},
                       station : Stations \cup {AllStations},
                       reply : {"none", "success", "failure"}]
      BY <1>2 DEF ClientCalls
    <2>2. RestTypeOK'
      BY <1>2, <2>1 DEF ClientCalls, RestTypeOK, AppTypeOK
    <2>3. pc' = pc /\ pc # "src_set"
      BY <1>2 DEF ClientCalls, SourceAccepted
    <2>4. pc' \in Labels
      BY <2>3 DEF AppTypeOK
    <2> QED
      BY <1>1, <1>2, <2>2, <2>3, <2>4, RestOfApp DEF ClientCalls, SourceAccepted
  <1>3. CASE RequestCalibration
    BY <1>2, <1>3 DEF RequestCalibration
  <1>4. CASE RequestSource
    BY <1>2, <1>4 DEF RequestSource
  <1>5. CASE TimerExpires \/ Sigint
    BY <1>1, <1>5 DEF TimerExpires, Sigint, AppTypeOK, SourceAccepted, Pending
  <1>6. CASE Relaunch
    <2>1. DeviceTypeOK'
      BY <1>6 DEF Relaunch, Fault, deviceVars, DeviceTypeOK
    <2>2. LinkTypeOK'
      BY <1>6 DEF Relaunch, EmptyPno, RETURN_ERROR, attempts, LinkTypeOK
    <2>3. pc' = "su_reset" /\ pc' \in Labels
      BY <1>6 DEF Relaunch, Labels, SendLabels
    <2>4. client' \in [kind : {"none", "calibrate", "source"}, source : Sources \cup {1},
                       station : Stations \cup {AllStations},
                       reply : {"none", "success", "failure"}]
      BY <1>6 DEF Relaunch, NoClient
    <2>5. params' \in SUBSET Stations /\ UNCHANGED <<store, file>>
      BY <1>6 DEF Relaunch, AppTypeOK
    <2>6. RestTypeOK'
      <3>1. /\ flag' \in 0..2 /\ nb_attempts' \in 0..5 /\ station_id' \in Stations \cup {-1}
            /\ timer' \in {"off", "running", "expired"}
        BY <1>6 DEF Relaunch
      <3>2. keep_main_loop_running' \in BOOLEAN
        BY <1>6 DEF Relaunch
      <3>3. store' \in [Stations -> Saved] /\ file' \in [Stations -> Saved]
        BY <2>5 DEF AppTypeOK
      <3> QED
        BY <2>4, <2>5, <3>1, <3>2, <3>3, Zenon DEF RestTypeOK
    <2> QED
      BY <2>1, <2>2, <2>3, <2>6, RestOfApp DEF SourceAccepted
  <1> QED
    BY <1>3, <1>4, <1>5, <1>6 DEF Environment

----------------------------------------------------------------------------
(* Every step keeps the types.                                             *)
LEMMA TypesKept == TInv /\ [Next]_vars => TInv'
  <1> SUFFICES ASSUME TInv, [Next]_vars PROVE TInv'
    OBVIOUS
  <1>1. CASE DriverStep
    <2>1. CASE TransferStep
      <3>1. DeviceTypeOK' /\ LinkTypeOK'
        BY <2>1, CommandType, WriteTypes, ReadTypes DEF TransferStep, Transfer, TInv, TypeOK
      <3> QED
        BY <2>1, <3>1, UnderneathTypes DEF TransferStep
    <2> QED
      BY <1>1, <2>1, MainTypes, SavedCalibrationTypes, CalibrationTypes, SourceTypes
      DEF DriverStep
  <1>2. CASE DeviceNext
    <2>1. DeviceTypeOK'
      BY <1>2, DeviceTypes DEF DeviceNext, TInv, TypeOK
    <2>2. LinkTypeOK'
      BY <1>2 DEF DeviceNext, linkVars, LinkTypeOK, TInv, TypeOK
    <2> QED
      BY <1>2, <2>1, <2>2, UnderneathTypes DEF DeviceNext
  <1>3. CASE FaultStep
    <2>1. CASE FaultyTransfer(Command(pc)) /\ UNCHANGED appVars
      <3>1. DeviceTypeOK' /\ LinkTypeOK'
        BY <2>1, CommandType, WriteTypes, ReadTypes DEF FaultyTransfer, TInv, TypeOK
      <3> QED
        BY <2>1, <3>1, UnderneathTypes
    <2> QED
      BY <1>3, <2>1, DumpTypes DEF FaultStep
  <1>4. CASE Environment
    BY <1>4, EnvironmentTypes
  <1>5. CASE Ended \/ UNCHANGED vars
    <2>1. UNCHANGED <<deviceVars, faults, linkVars, appVars>>
      BY <1>5 DEF Ended, vars
    <2>2. DeviceTypeOK' /\ LinkTypeOK'
      BY <2>1 DEF deviceVars, linkVars, DeviceTypeOK, LinkTypeOK, TInv, TypeOK
    <2> QED
      BY <2>1, <2>2, UnderneathTypes
  <1> QED
    BY <1>1, <1>2, <1>3, <1>4, <1>5 DEF Next

LEMMA InitialTypes == Init => TInv
  <1> SUFFICES ASSUME Init PROVE TInv
    OBVIOUS
  <1>1. DeviceTypeOK
    <2>1. SourceMap(1) \in SUBSET Nat
      BY DEF SourceMap
    <2>2. srcmap \in [Stations -> SUBSET Nat] /\ layers \in [Stations -> 0..MaxLayers]
      BY <2>1 DEF Init, DeviceInit, MaxLayers
    <2>3. pipe \in Seq(Frames)
      BY DEF Init, DeviceInit
    <2>4. /\ inbox \in Commands \cup {NoCommand} /\ streaming \in BOOLEAN
          /\ units \in OriUnits /\ zeroed \in BOOLEAN /\ sensors \in SUBSET Stations
      BY DEF Init, DeviceInit
    <2>5. faults \in 0..MaxFaults
      BY DeviceAssumption DEF Init, DeviceInit
    <2> QED
      BY <2>2, <2>3, <2>4, <2>5 DEF DeviceTypeOK
  <1>2. LinkTypeOK
    BY DEF Init, LinkInit, LinkTypeOK, EmptyPno, RETURN_ERROR, attempts
  <1>3. AppTypeOK
    <2>1. pc \in Labels
      BY DEF Init, Labels, SendLabels
    <2>2. client \in [kind : {"none", "calibrate", "source"}, source : Sources \cup {1},
                      station : Stations \cup {AllStations},
                      reply : {"none", "success", "failure"}]
      BY DEF Init, NoClient
    <2>3. store \in [Stations -> Saved] /\ file \in [Stations -> Saved]
      BY DEF Init, Saved, OriUnits
    <2>4. /\ flag \in 0..2 /\ nb_attempts \in 0..5 /\ station_id \in Stations \cup {-1}
          /\ timer \in {"off", "running", "expired"} /\ params \in SUBSET Stations
      BY DEF Init
    <2>5. keep_main_loop_running \in BOOLEAN
      BY DEF Init
    <2> QED
      BY <2>1, <2>2, <2>3, <2>4, <2>5, Zenon DEF AppTypeOK
  <1> QED
    BY <1>1, <1>2, <1>3 DEF Init, TInv, TypeOK, SourceAccepted

LEMMA TInvHolds == Spec => []TInv
  BY InitialTypes, TypesKept, PTL DEF Spec

(* Every variable keeps its type, for any stations, faults and requests:   *)
(* receive_data_frame's attempts and send_saved_calibration's retries stay *)
(* within their bounds, every frame in the pipe is well-formed.            *)
THEOREM TypeCorrect == Spec => []TypeOK
  BY TInvHolds, PTL DEF TInv

----------------------------------------------------------------------------
(* The call in progress is one the label makes.                            *)
Calls ==
    /\ call = "map"  => pc = "su_map"
    /\ call = "pno"  => pc \in PnoLabels
    /\ call \in {"send", "reply", "map", "clear"} => pc \in SendLabels

(* A PNO call that succeeded has set the frame and its count; from there   *)
(* to the lookups nothing else sets them.                                  *)
Complete == station_count = Cardinality(pno.sensors) /\ station_count >= RequiredSensors

Frame ==
    /\ pc \in PnoLabels /\ call = "done" /\ ~Failed =>
          return_value = station_count /\ station_count = Cardinality(pno.sensors)
    /\ pc \in Indexing \cup {"sv_reset", "cal_reset"} => Complete

FrameInv == TInv /\ Calls /\ Frame

(* The labels are different strings in three disjoint sets.                *)
LEMMA LabelSets ==
    /\ SendLabels \cap PnoLabels = {}
    /\ SendLabels \cap IdleLabels = {}
    /\ PnoLabels \cap IdleLabels = {}
    /\ Indexing \cup {"sv_reset", "cal_reset"} \subseteq (SendLabels \cup IdleLabels) \ {"su_map"}
  BY DEF SendLabels, PnoLabels, IdleLabels, Indexing

(* Going to a label makes the call that belongs there.                     *)
LEMMA GotoCalls == \A l \in Labels : Goto(l) => Calls' /\ call' # "done"
  BY LabelSets DEF Goto, Calls, StartSend, StartPno, StartIdle, Labels

(* It is enough that the frame is complete where it has to be.             *)
LEMMA GotoFrame ==
    ASSUME NEW l \in Labels, Goto(l),
           l \in Indexing \cup {"sv_reset", "cal_reset"} => Complete
    PROVE  Calls' /\ Frame'
  <1>1. Calls' /\ call' # "done" /\ pc' = l
    BY GotoCalls DEF Goto
  <1>2. UNCHANGED <<pno, station_count>>
    BY DEF Goto
  <1> QED
    BY <1>1, <1>2 DEF Frame, Complete

(* The labels at which nothing is claimed of the frame.                    *)
Free == Labels \ (Indexing \cup {"sv_reset", "cal_reset"})

LEMMA GotoFree == (\E l \in Free : Goto(l)) => Calls' /\ Frame'
  BY GotoFrame DEF Free

LEMMA FreeLabels ==
    /\ PnoLabels \subseteq Free
    /\ {"exited", "lp_spin", "cal_dump"} \subseteq Free
    /\ SendLabels \ {"sv_reset", "cal_reset", "sv_euler", "sv_bore", "sv_quat"} \subseteq Free
    /\ Free \cup Indexing \cup {"sv_reset", "cal_reset"} = Labels
  BY DEF Free, Labels, SendLabels, PnoLabels, IdleLabels, Indexing

(* The procedures that take no frame.                                      *)
LEMMA MainFrames == MainStep => Calls' /\ Frame'
  <1> SUFFICES ASSUME MainStep PROVE \E l \in Free : Goto(l)
    BY GotoFree
  <1>1. {"su_bore", "su_map", "su_quat", "su_hemi", "su_cont", "sv_first", "sv_cont", "lp_recv",
         "lp_reset", "lp_cont", "lp_spin", "sd_reset", "exited"} \subseteq Free
    BY FreeLabels DEF SendLabels, PnoLabels
  <1>2. ASSUME NEW l, NEW next \in Free, StartupStep(l, next)
        PROVE  \E m \in Free : Goto(m)
    BY <1>1, <1>2 DEF StartupStep, OnResult
  <1>3. CASE MainReset \/ MainBoresight \/ MainStations \/ MainQuaternion \/ MainHemisphere
    BY <1>1, <1>2, <1>3
    DEF MainReset, MainBoresight, MainStations, MainQuaternion, MainHemisphere
  <1>4. CASE MainContinuous
    BY <1>1, <1>4 DEF MainContinuous, NextStation
  <1>5. CASE MainLoopError \/ MainLoopNoSensors \/ MainLoopPublish
    BY <1>1, <1>5 DEF MainLoopError, MainLoopNoSensors, MainLoopPublish
  <1>6. CASE RecoveryReset \/ RecoveryContinuous \/ SpinIdle \/ ShutDown
    BY <1>1, <1>6 DEF RecoveryReset, RecoveryContinuous, SpinIdle, ShutDown, LoopTop
  <1> QED
    BY <1>3, <1>4, <1>5, <1>6 DEF MainStep

LEMMA SourceFrames == SourceStep => Calls' /\ Frame'
  <1>1. {"src_set", "lp_spin"} \subseteq Free
    BY FreeLabels DEF SendLabels, PnoLabels
  <1> QED
    BY <1>1, GotoFree DEF SourceStep, SourceStart, SourceInvalid, SourceEnd

(* A wait ends well only with a complete frame.                            *)
LEMMA AwaitComplete ==
    FrameInv /\ pc \in PnoLabels /\ call = "done" /\ ~FrameIncomplete => Complete
  <1> SUFFICES ASSUME FrameInv, pc \in PnoLabels, call = "done", ~FrameIncomplete
               PROVE  Complete
    OBVIOUS
  <1>1. return_value \in Int /\ return_value >= RequiredSensors
    BY DEF FrameInv, TInv, TypeOK, LinkTypeOK, FrameIncomplete, RETURN_ERROR
  <1>2. ~Failed
    BY <1>1 DEF Failed, RETURN_ERROR
  <1> QED
    BY <1>1, <1>2 DEF FrameInv, Frame, Complete

(* Procedures that wait for a frame, then look stations up in it.          *)
LEMMA SavedFrames == FrameInv /\ SavedCalibrationStep => Calls' /\ Frame'
  <1> SUFFICES ASSUME FrameInv, SavedCalibrationStep PROVE Calls' /\ Frame'
    OBVIOUS
  <1>1. {"sv_wait", "sv_cont", "sv_fail", "lp_recv", "exited"} \subseteq Free
    BY FreeLabels DEF SendLabels, PnoLabels
  <1>2. {"sv_reset", "sv_euler", "sv_bore", "sv_quat"} \subseteq Labels
    BY FreeLabels DEF Indexing
  <1>3. CASE SavedFirst \/ SavedWait
    <2>1. pc \in PnoLabels /\ call = "done"
      BY <1>3 DEF SavedFirst, SavedWait, AwaitFirst, AwaitMore, Done, PnoLabels
    <2>2. Goto("sv_wait") \/ (~FrameIncomplete /\ Goto("sv_reset"))
      BY <1>3 DEF SavedFirst, SavedWait, AwaitFirst, AwaitMore
    <2> QED
      BY <1>1, <1>2, <2>1, <2>2, AwaitComplete, GotoFrame, GotoFree
  <1>4. CASE SavedTimeout \/ SavedContinuous \/ SavedFailed
    BY <1>1, <1>4, GotoFree DEF SavedTimeout, SavedContinuous, SavedFailed, OnResult
  <1>5. CASE SavedReset \/ SavedEuler \/ SavedBoresight \/ SavedQuaternion
    <2>1. pc \in {"sv_reset", "sv_euler", "sv_bore", "sv_quat"}
      BY <1>5 DEF SavedReset, SavedEuler, SavedBoresight, SavedStep, SavedQuaternion, Done
    <2>2. Complete
      BY <2>1 DEF FrameInv, Frame, Indexing
    <2>3. \E l \in {"sv_euler", "sv_bore", "sv_quat", "sv_cont", "sv_fail"} : Goto(l)
      BY <1>5 DEF SavedReset, SavedEuler, SavedBoresight, SavedStep, SavedQuaternion,
                  NextStation, RetryStation
    <2> QED
      BY <1>1, <1>2, <2>2, <2>3, GotoFrame, GotoFree
  <1> QED
    BY <1>3, <1>4, <1>5 DEF SavedCalibrationStep

LEMMA CalibrationFrames == FrameInv /\ CalibrationStep => Calls' /\ Frame'
  <1> SUFFICES ASSUME FrameInv, CalibrationStep PROVE Calls' /\ Frame'
    OBVIOUS
  <1>1. {"cal_single", "cal_bore", "cal_first", "cal_wait", "cal_dump", "cal_euler", "cal_zero",
         "cal_quat", "cal_cont", "lp_spin"} \subseteq Free
    BY FreeLabels DEF SendLabels, PnoLabels
  <1>2. {"cal_reset", "cal_save"} \subseteq Labels
    BY FreeLabels DEF Indexing
  <1>3. CASE CalibrateFirst \/ CalibrateWait
    <2>1. pc \in PnoLabels /\ call = "done"
      BY <1>3 DEF CalibrateFirst, CalibrateWait, AwaitFirst, AwaitMore, Done, PnoLabels
    <2>2. Goto("cal_wait") \/ (~FrameIncomplete /\ Goto("cal_reset"))
      BY <1>3 DEF CalibrateFirst, CalibrateWait, AwaitFirst, AwaitMore
    <2> QED
      BY <1>1, <1>2, <2>1, <2>2, AwaitComplete, GotoFrame, GotoFree
  <1>4. CASE CalibrateReset
    <2>1. Complete /\ Goto("cal_save")
      BY <1>4 DEF CalibrateReset, CalibrateStep, Done, FrameInv, Frame
    <2> QED
      BY <1>2, <2>1, GotoFrame
  <1>5. CASE \/ CalibrateStart \/ CalibrateFails \/ CalibrateSingle \/ CalibrateBore
             \/ CalibrateSave \/ CalibrateDump \/ CalibrateEuler \/ CalibrateZero
             \/ CalibrateQuat \/ CalibrateSucceeds
    <2>1. \E l \in Free : Goto(l)
      BY <1>1, <1>5
      DEF CalibrateStart, CalibrateFails, CalibrateSingle, CalibrateBore, CalibrateSave,
          CalibrateDump, CalibrateEuler, CalibrateZero, CalibrateQuat, CalibrateSucceeds,
          CalibrateStep
    <2> QED
      BY <2>1, GotoFree
  <1> QED
    BY <1>3, <1>4, <1>5 DEF CalibrationStep

(* The transfers.  Only su_map asks for the number of stations, only a     *)
(* data-mode RESET is followed by the clearing of the input.               *)
LEMMA StationMapLabel == Command(pc) = RequestNumOfStations => pc = "su_map"
  <1>1. RequestNumOfStations.cmd = "STATION_MAP"
    BY DEF RequestNumOfStations, Fill
  <1>2. ASSUME pc # "su_map" PROVE Command(pc).cmd # "STATION_MAP"
    BY <1>2 DEF Command, DataMode, ResetBoresight, DefineDataType, SetHemisphere, SetBoresight,
                SetSource, NoCommand, Fill
  <1> QED
    BY <1>1, <1>2

LEMMA WriteFrames ==
    ASSUME FrameInv, UNCHANGED appVars, NEW c, c = Command(pc),
           WriteOk(c) \/ WriteLost(c) \/ WriteUnreported(c)
    PROVE  Calls' /\ Frame'
  <1>1. /\ call = "send" /\ UNCHANGED pno /\ pc' = pc
        /\ \E rc \in {RETURN_ERROR, 0} : AfterWrite(c, rc)
    BY DEF WriteOk, WriteLost, WriteUnreported, UnchangedByWrite, appVars
  <1>2. pc \in SendLabels /\ pc \notin PnoLabels
    BY <1>1, LabelSets DEF FrameInv, Calls
  <1>3. /\ call' \in {"clear", "done", "map", "reply"}
        /\ call' = "map" => c = RequestNumOfStations
        /\ station_count' # station_count => c = RequestNumOfStations
    BY <1>1 DEF AfterWrite
  <1>4. Calls'
    BY <1>1, <1>2, <1>3, StationMapLabel DEF Calls
  <1>5. Frame'
    <2>1. ASSUME pc \in Indexing \cup {"sv_reset", "cal_reset"} PROVE station_count' = station_count
      BY <1>3, <2>1, StationMapLabel, LabelSets
    <2> QED
      BY <1>1, <1>2, <2>1 DEF FrameInv, Frame, Complete
  <1> QED
    BY <1>4, <1>5

LEMMA ReadFrames ==
    ASSUME FrameInv, UNCHANGED appVars, NEW c, ReadStep(c) \/ ReadFaultStep
    PROVE  Calls' /\ Frame'
  <1>1. pc' = pc
    BY DEF appVars
  <1>2. ASSUME NEW f \in Frames, ReceiveDataFrame(c, f) \/ ReceiveStationMap(f) \/ ClearInput(f)
        PROVE  Calls' /\ Frame'
    <2>1. /\ call \in {"reply", "map", "clear"} /\ call' \in {call, "done"} /\ UNCHANGED pno
          /\ call # "map" => UNCHANGED station_count
      BY <1>2 DEF ReceiveDataFrame, ReplyMissed, Return, ReceiveStationMap, ClearInput
    <2>2. pc \in SendLabels /\ pc \notin PnoLabels
      BY <2>1, LabelSets DEF FrameInv, Calls
    <2> QED
      BY <1>1, <2>1, <2>2, LabelSets DEF FrameInv, Calls, Frame, Complete
  <1>3. ASSUME NEW f \in Frames, ReceivePno(f)
        PROVE  Calls' /\ Frame'
    <2>1. call = "pno" /\ call' = "done"
      BY <1>3 DEF ReceivePno, Return
    <2>2. pc \in PnoLabels /\ pc \notin Indexing \cup {"sv_reset", "cal_reset"}
      BY <2>1, LabelSets DEF FrameInv, Calls
    <2>3. CASE IsPno(f)
      <3>1. pno' = [units |-> f.units, sensors |-> f.sensors]
        BY <1>3, <2>3 DEF ReceivePno
      <3>2. return_value' = station_count' /\ station_count' = Cardinality(pno'.sensors)
        BY <1>3, <2>3, <3>1 DEF ReceivePno, Return
      <3> QED
        BY <1>1, <2>1, <2>2, <3>2 DEF Calls, Frame
    <2>4. CASE ~IsPno(f)
      <3>1. Failed'
        BY <1>3, <2>4 DEF ReceivePno, Return, Failed
      <3> QED
        BY <1>1, <2>1, <2>2, <3>1 DEF Calls, Frame
    <2> QED
      BY <2>3, <2>4
  <1>4. ASSUME ReadFailed PROVE Calls' /\ Frame'
    <2>1. CASE call = "pno"
      <3>1. call' = "done" /\ Failed'
        BY <1>4, <2>1 DEF ReadFailed, Return, Failed
      <3>2. pc \in PnoLabels /\ pc \notin Indexing \cup {"sv_reset", "cal_reset"}
        BY <2>1, LabelSets DEF FrameInv, Calls
      <3> QED
        BY <1>1, <3>1, <3>2 DEF Calls, Frame
    <2>2. CASE call # "pno"
      <3>1. /\ call \in {"reply", "map", "clear"} /\ call' \in {call, "done"} /\ UNCHANGED pno
            /\ call # "map" => UNCHANGED station_count
        BY <1>4, <2>2 DEF ReadFailed, ReplyMissed, Return
      <3>2. pc \in SendLabels /\ pc \notin PnoLabels
        BY <3>1, LabelSets DEF FrameInv, Calls
      <3> QED
        BY <1>1, <3>1, <3>2, LabelSets DEF FrameInv, Calls, Frame, Complete
    <2> QED
      BY <2>1, <2>2
  <1>5. CASE ReadStep(c) /\ DeviceRead
    <2>1. Head(pipe) \in Frames
      BY <1>5 DEF DeviceRead, FrameInv, TInv, TypeOK, DeviceTypeOK
    <2> QED
      BY <1>2, <1>3, <1>4, <1>5, <2>1 DEF ReadStep
  <1>6. CASE ReadFailed
    BY <1>4, <1>6
  <1> QED
    BY <1>5, <1>6 DEF ReadStep, ReadFaultStep

LEMMA FrameKept == FrameInv /\ [Next]_vars => FrameInv'
  <1> SUFFICES ASSUME FrameInv, [Next]_vars PROVE Calls' /\ Frame'
    BY TypesKept DEF FrameInv
  <1>1. ASSUME UNCHANGED <<pc, call, return_value, pno, station_count>> PROVE Calls' /\ Frame'
    BY <1>1 DEF FrameInv, Calls, Frame, Complete, Failed
  <1>2. CASE TransferStep
    BY <1>2, WriteFrames, ReadFrames DEF TransferStep, Transfer
  <1>3. CASE FaultStep
    <2>1. CASE FaultyTransfer(Command(pc)) /\ UNCHANGED appVars
      BY <2>1, WriteFrames, ReadFrames DEF FaultyTransfer
    <2>2. CASE DumpFails \/ NoShell
      <3>1. {"cal_euler", "lp_spin"} \subseteq Free
        BY FreeLabels DEF SendLabels, PnoLabels
      <3> QED
        BY <2>2, <3>1, GotoFree DEF DumpFails, NoShell
    <2> QED
      BY <1>3, <2>1, <2>2 DEF FaultStep
  <1>4. CASE DeviceNext \/ Ended \/ UNCHANGED vars
    BY <1>1, <1>4 DEF DeviceNext, Ended, vars, linkVars, appVars
  <1>5. CASE Environment
    <2>1. CASE Relaunch
      <3>1. pc' = "su_reset" /\ call' = "send"
        BY <2>1 DEF Relaunch
      <3>2. "su_reset" \in SendLabels /\ "su_reset" \notin Indexing
        BY DEF SendLabels, Indexing
      <3> QED
        BY <3>1, <3>2 DEF Calls, Frame
    <2>2. CASE RequestCalibration \/ RequestSource \/ TimerExpires \/ Sigint
      BY <1>1, <2>2
      DEF RequestCalibration, RequestSource, ClientCalls, TimerExpires, Sigint, linkVars
    <2> QED
      BY <1>5, <2>1, <2>2 DEF Environment
  <1> QED
    BY <1>2, <1>3, <1>4, <1>5, MainFrames, SavedFrames, CalibrationFrames, SourceFrames
    DEF Next, DriverStep

LEMMA InitialFrame == Init => FrameInv
  <1> SUFFICES ASSUME Init PROVE Calls /\ Frame
    BY InitialTypes DEF FrameInv
  <1>1. "su_reset" \in SendLabels /\ "su_reset" \notin Indexing
    BY DEF SendLabels, Indexing
  <1> QED
    BY <1>1 DEF Init, LinkInit, Calls, Frame

LEMMA FrameInvHolds == Spec => []FrameInv
  BY InitialFrame, FrameKept, PTL DEF Spec

(* Wherever calibrate and send_saved_calibration look a station up in the  *)
(* last frame, the loop's bound station_count is that frame's, and the     *)
(* frame holds every required sensor: for any faults, refusals and crashes *)
(* included.                                                               *)
THEOREM FramesIndexed == Spec => []IndexesFrame
  <1>1. FrameInv => IndexesFrame
    BY DEF FrameInv, Frame, Complete, IndexesFrame
  <1> QED
    BY <1>1, FrameInvHolds, PTL
=============================================================================

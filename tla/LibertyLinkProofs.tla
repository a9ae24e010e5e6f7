------------------------- MODULE LibertyLinkProofs -------------------------
(***************************************************************************)
(* What the driver of LibertyDriver keeps over a link whose writes do not  *)
(* fail (WritesSucceed): a calibration that runs to its end was carried    *)
(* out, main publishes quaternion records only, and in the first life of   *)
(* the process the saved corrections are computed from a frame without any *)
(* boresight.  Reads may fail, sensors come and go, and signals, requests  *)
(* and (for the first two) relaunches come at any moment.                  *)
(*                                                                         *)
(* A quaternion record and an Euler record look alike to the driver, and   *)
(* it clears its input only as far as the reads succeed.  What keeps a     *)
(* record of a former stream from being taken for one of the present is    *)
(* the answer to ^u: the pipe is first in, first out, that answer is sent  *)
(* while the device does not stream, and main goes on only when it has     *)
(* read one.                                                               *)
(***************************************************************************)
EXTENDS LibertyProofs

USE DeviceAssumption, DriverAssumption

WritesSucceed == Faults \cap {"write_lost", "write_unreported"} = {}

(* Where main has not yet read an answer to ^u, and where it has.          *)
Early   == {"su_init", "su_reset", "su_clear", "su_bore"}
Outside == {"exited", "end_reset", "end_clear"}
Late    == Labels \ (Early \cup {"su_map", "su_mapread"} \cup Outside)

(* Where the device is in quaternion format, and where it does not stream, *)
(* once it has carried out the last command.                               *)
InQuat  == Late \ {"su_quat", "cal_zero", "cal_quat"}
Stopped == {"su_clear", "su_bore", "su_map", "su_mapread", "su_quat", "su_hemi", "su_cont",
            "cal_clear", "cal_dump", "cal_euler", "cal_zero", "cal_quat", "cal_cont"}

(* The stretches of main from its start to the corrections.                *)
Before      == Early \cup {"su_map"}
Configuring == {"su_quat", "su_hemi", "su_cont"}
Awaiting    == {"sv_first", "sv_wait"}
Using       == {"sv_reset", "sv_clear", "sv_bore"}

IsEuler(f)  == f.head = "C" /\ f.units = "euler"
NoEuler(p)  == \A i \in 1..Len(p) : ~IsEuler(p[i])
NoState(p)  == \A i \in 1..Len(p) : p[i].head # "state"
Ordered(p)  == \A i, j \in 1..Len(p) : i < j /\ p[i].head = "state" => ~IsEuler(p[j])
Sensed(p)   == \A i \in 1..Len(p) : p[i].head \in {"C", "P"} => p[i].sensors # {}

EulerStream == streaming /\ units = "euler"

(* The command on its way: a stream is started in quaternion format, and   *)
(* the format is left and ^u asked only while there is none.               *)
InboxInv == /\ inbox.cmd = "c" => units = "quat"
            /\ inbox.cmd = "O" /\ inbox.arg = "euler" => ~streaming
            /\ inbox.cmd = "^u" => ~streaming

(* A stream of Euler records was left by somebody else: it ends before ^u  *)
(* is sent, so none of its records is behind an answer to it.              *)
EulerInv == EulerStream => pc \in Early \cup {"exited"} /\ NoState(pipe)

LinkInv == /\ pc \in InQuat => EffUnits = "quat"
           /\ pc \in Stopped => ~EffStreaming
           /\ InboxInv
           /\ EulerInv
           /\ Ordered(pipe) /\ Sensed(pipe)
           /\ pc \in Late /\ Garbage = {} => NoEuler(pipe)

----------------------------------------------------------------------------
(* A frame taken from the pipe, and one put in.                            *)

LEMMA TailElements ==
    ASSUME NEW S, NEW p \in Seq(S), p # <<>>
    PROVE  /\ Len(Tail(p)) = Len(p) - 1 /\ Head(p) = p[1] /\ Len(p) \in Nat \ {0}
           /\ \A i \in 1..Len(Tail(p)) : i + 1 \in 1..Len(p) /\ Tail(p)[i] = p[i + 1]
  OBVIOUS

LEMMA AppendElements ==
    ASSUME NEW S, NEW p \in Seq(S), NEW e \in S
    PROVE  /\ Len(Append(p, e)) = Len(p) + 1 /\ Len(p) \in Nat
           /\ \A i \in 1..Len(p) : Append(p, e)[i] = p[i]
           /\ Append(p, e)[Len(p) + 1] = e
  OBVIOUS

LEMMA TailQueue ==
    ASSUME NEW S, NEW p \in Seq(S), p # <<>>
    PROVE  /\ Ordered(p) => Ordered(Tail(p))
           /\ Sensed(p) => Sensed(Tail(p))
           /\ NoEuler(p) => NoEuler(Tail(p))
           /\ NoState(p) => NoState(Tail(p))
           /\ Ordered(p) /\ Head(p).head = "state" => NoEuler(Tail(p))
  <1>1. /\ Len(Tail(p)) = Len(p) - 1 /\ Head(p) = p[1] /\ Len(p) \in Nat \ {0}
        /\ \A i \in 1..Len(Tail(p)) : i + 1 \in 1..Len(p) /\ Tail(p)[i] = p[i + 1]
    BY TailElements
  <1>2. Sensed(p) => Sensed(Tail(p))
    BY <1>1 DEF Sensed
  <1>3. (NoEuler(p) => NoEuler(Tail(p))) /\ (NoState(p) => NoState(Tail(p)))
    BY <1>1 DEF NoEuler, NoState
  <1>4. ASSUME Ordered(p) PROVE Ordered(Tail(p))
    <2> SUFFICES ASSUME NEW i \in 1..Len(Tail(p)), NEW j \in 1..Len(Tail(p)),
                        i < j, Tail(p)[i].head = "state"
                 PROVE  ~IsEuler(Tail(p)[j])
      BY DEF Ordered
    <2>1. /\ i + 1 \in 1..Len(p) /\ j + 1 \in 1..Len(p) /\ i + 1 < j + 1
          /\ Tail(p)[i] = p[i + 1] /\ Tail(p)[j] = p[j + 1]
      BY <1>1
    <2> QED
      BY <1>4, <2>1 DEF Ordered
  <1>5. ASSUME Ordered(p), Head(p).head = "state" PROVE NoEuler(Tail(p))
    <2> SUFFICES ASSUME NEW i \in 1..Len(Tail(p)) PROVE ~IsEuler(Tail(p)[i])
      BY DEF NoEuler
    <2>1. 1 \in 1..Len(p) /\ i + 1 \in 1..Len(p) /\ 1 < i + 1 /\ Tail(p)[i] = p[i + 1]
      BY <1>1
    <2> QED
      BY <1>1, <1>5, <2>1 DEF Ordered
  <1> QED
    BY <1>2, <1>3, <1>4, <1>5

LEMMA AppendQueue ==
    ASSUME NEW p \in Seq(Frames), NEW f \in Frames
    PROVE  /\ Ordered(p) /\ (IsEuler(f) => NoState(p)) => Ordered(Append(p, f))
           /\ Sensed(p) /\ (f.head \in {"C", "P"} => f.sensors # {}) => Sensed(Append(p, f))
           /\ NoEuler(p) /\ ~IsEuler(f) => NoEuler(Append(p, f))
           /\ NoState(p) /\ f.head # "state" => NoState(Append(p, f))
  <1> DEFINE q == Append(p, f)
  <1>1. /\ Len(q) = Len(p) + 1 /\ Len(p) \in Nat
        /\ \A i \in 1..Len(p) : q[i] = p[i]
        /\ q[Len(p) + 1] = f
    BY AppendElements
  <1> HIDE DEF q
  <1>2. \A i \in 1..Len(q) : i \in 1..Len(p) \/ i = Len(p) + 1
    BY <1>1
  <1>3. Sensed(p) /\ (f.head \in {"C", "P"} => f.sensors # {}) => Sensed(q)
    BY <1>1, <1>2, Zenon DEF Sensed
  <1>4. NoEuler(p) /\ ~IsEuler(f) => NoEuler(q)
    BY <1>1, <1>2, Zenon DEF NoEuler
  <1>5. NoState(p) /\ f.head # "state" => NoState(q)
    BY <1>1, <1>2, Zenon DEF NoState
  <1>6. ASSUME Ordered(p), IsEuler(f) => NoState(p) PROVE Ordered(q)
    <2> SUFFICES ASSUME NEW i \in 1..Len(q), NEW j \in 1..Len(q), i < j, q[i].head = "state"
                 PROVE  ~IsEuler(q[j])
      BY DEF Ordered
    <2>1. i \in 1..Len(p) /\ q[i] = p[i]
      BY <1>1, <1>2
    <2>2. CASE j \in 1..Len(p)
      BY <1>1, <1>6, <2>1, <2>2 DEF Ordered
    <2>3. CASE j = Len(p) + 1
      BY <1>1, <1>6, <2>1, <2>3 DEF NoState
    <2> QED
      BY <1>2, <2>2, <2>3
  <1> QED
    BY <1>3, <1>4, <1>5, <1>6 DEF q

----------------------------------------------------------------------------
(* The kinds of step.  A write: the command of the label is on its way,    *)
(* and the program is where it goes on after it.                           *)
After(l) ==
    CASE l = "su_reset" -> {"su_clear"}
      [] l = "su_bore"  -> {"su_map"}
      [] l = "su_map"   -> {"su_mapread"}
      [] l = "su_quat"  -> {"su_hemi"}
      [] l = "su_hemi"  -> {"su_cont"}
      [] l = "su_cont"  -> {"sv_first", "sv_bore", "sv_cont"}
      [] l = "sv_reset" -> {"sv_clear"}
      [] l = "sv_bore"  -> {"sv_bore", "sv_cont"}
      [] l = "sv_cont"  -> {"lp_recv"}
      [] l = "lp_reset" -> {"lp_clear"}
      [] l = "lp_cont"  -> {"lp_spin"}
      [] l = "cal_bore" -> {"cal_first"}
      [] l = "cal_reset" -> {"cal_clear"}
      [] l = "cal_euler" -> {"cal_zero"}
      [] l = "cal_zero" -> {"cal_quat"}
      [] l = "cal_quat" -> {"cal_cont"}
      [] l = "cal_cont" -> {"lp_spin"}
      [] l = "end_reset" -> {"end_clear"}
      [] OTHER -> {}

Writers == ResetLabels \cup SendLabels

Delivered == /\ inbox = NoCommand /\ inbox' = Command(pc)
             /\ UNCHANGED <<pipe, binary, streaming, units, bore, sensors, faults>>

Writes == /\ pc \in Writers /\ Delivered /\ pc' \in After(pc)
          /\ UNCHANGED <<stations, params>>
          /\ pc = "su_cont" /\ pc' = "sv_bore" => params = {}

(* A read, or nothing to do with the device: a frame may be gone, and what *)
(* the invariant says of a label it has said of the label before.          *)
Drained == pipe' = pipe \/ (pipe # <<>> /\ pipe' = Tail(pipe))

Onward ==
    /\ pc' \in Before => pc \in Before
    /\ pc' = "su_mapread" => pc = "su_mapread"
    /\ pc' \in Configuring /\ Garbage = {} =>
          pc \in Configuring \/ (pc = "su_mapread" /\ ReadFrame(StateSize))
    /\ pc' \in Awaiting => pc \in Awaiting
    /\ pc' \in Using => \/ pc \in Using /\ UNCHANGED <<stations, params>>
                        \/ /\ pc \in Awaiting
                           /\ \E n \in Results : Receive(pc, n) /\ n >= RequiredSensors

Quiet == /\ UNCHANGED <<inbox, binary, streaming, units, bore>> /\ Drained
         /\ pc' \in InQuat => pc \in InQuat
         /\ pc' \in Stopped => pc \in Stopped
         /\ pc \in Early \cup {"exited"} => pc' \in Early \cup {"exited"}
         /\ pc' \in Late /\ Garbage = {} => pc \in Late \/ ReadFrame(StateSize)
         /\ pc' \in {"cal_quat", "cal_cont"} => pc' = pc
         /\ Relaunch \/ Onward

DeviceStep == (DeviceExecute \/ DeviceStream) /\ UNCHANGED <<progVars, dataVars>>

(* A write that does not fail.                                             *)
LEMMA SoundSend ==
    ASSUME WritesSucceed, NEW l, NEW rc, Send(l, rc)
    PROVE  rc = 0 /\ pc = l /\ Delivered
  BY DEF WritesSucceed, Send, Fault, Delivered

LEMMA ReadShape ==
    ASSUME NEW size, ReadFrame(size) \/ ReadFails(size)
    PROVE  UNCHANGED <<inbox, binary, streaming, units, bore, sensors>> /\ Drained
  BY DEF ReadFrame, ReadFails, UnchangedByRead, Drained

LEMMA ReceiveShape ==
    ASSUME NEW l, NEW n, Receive(l, n)
    PROVE  pc = l /\ UNCHANGED <<inbox, binary, streaming, units, bore, sensors>> /\ Drained
  <1>1. pc = l /\ (ReadFrame(PnoSize * station_count) \/ ReadFails(PnoSize * station_count))
    BY DEF Receive
  <1> QED
    BY <1>1, ReadShape

LEMMA MainShapes == WritesSucceed /\ MainStep => Writes \/ Quiet
  <1> SUFFICES ASSUME WritesSucceed, MainStep PROVE Writes \/ Quiet
    OBVIOUS
  <1> USE DEF Early, Outside, Late, InQuat, Stopped, Labels, ResetLabels, ClearLabels,
              SendLabels, PnoLabels, Writers, Before, Configuring, Awaiting, Using, Onward
  <1>1. CASE DeviceInitCall \/ Spin
    BY <1>1 DEF DeviceInitCall, Spin, LoopTop, Quiet, Drained, deviceVars, dataVars
  <1>2. CASE MainReset \/ RecoveryReset \/ EndReset
    <2>1. PICK l \in {"su_reset", "lp_reset", "end_reset"}, clear \in ClearLabels :
              Reset(l, clear) /\ {clear} = After(l)
      <3>1. /\ After("su_reset") = {"su_clear"} /\ After("lp_reset") = {"lp_clear"}
            /\ After("end_reset") = {"end_clear"}
        BY DEF After
      <3> QED
        BY <1>2, <3>1 DEF MainReset, RecoveryReset, EndReset
    <2>2. PICK rc : Send(l, rc)
      BY <2>1 DEF Reset
    <2>3. pc' = clear /\ UNCHANGED <<stations, params>>
      BY <2>1 DEF Reset, dataVars
    <2> QED
      BY <2>1, <2>2, <2>3, SoundSend DEF Writes
  <1>3. CASE MainBoresight \/ MainStations \/ MainQuaternion \/ MainHemisphere
             \/ RecoveryContinuous
    <2>1. PICK l \in {"su_bore", "su_map", "su_quat", "su_hemi", "lp_cont"} :
              \E ok \in After(l) : \E error : Sent(l, ok, error)
      BY <1>3 DEF MainBoresight, MainStations, MainQuaternion, MainHemisphere,
                  RecoveryContinuous, After
    <2>2. PICK ok \in After(l) : \E error : Sent(l, ok, error)
      BY <2>1
    <2>3. PICK rc : Send(l, rc) /\ (rc = 0 => pc' = ok)
      BY <2>2 DEF Sent
    <2>4. UNCHANGED <<stations, params>>
      BY <2>2 DEF Sent, dataVars
    <2> QED
      BY <2>1, <2>2, <2>3, <2>4, SoundSend DEF Writes
  <1>4. CASE MainCleared \/ RecoveryCleared \/ EndCleared
    <2>1. PICK l : ClearEnds(l)
      BY <1>4 DEF MainCleared, RecoveryCleared, EndCleared
    <2>2. UNCHANGED <<inbox, binary, streaming, units, bore, sensors>> /\ Drained
      BY <2>1, ReadShape DEF ClearEnds
    <2>3. \/ pc = "su_clear" /\ pc' \in {"exited", "su_bore"}
          \/ pc = "lp_clear" /\ pc' = "lp_cont"
          \/ pc = "end_clear" /\ pc' = "exited"
      BY <1>4 DEF MainCleared, RecoveryCleared, EndCleared, ClearEnds
    <2> QED
      BY <2>2, <2>3 DEF Quiet
  <1>5. CASE ReceiveStations
    <2>1. UNCHANGED <<inbox, binary, streaming, units, bore, sensors>> /\ Drained
      BY <1>5, ReadShape DEF ReceiveStations
    <2>2. pc = "su_mapread" /\ pc' \in {"exited", "su_quat"}
      BY <1>5 DEF ReceiveStations
    <2>3. pc' = "su_quat" /\ Garbage = {} => ReadFrame(StateSize)
      BY <1>5 DEF ReceiveStations
    <2> QED
      BY <2>1, <2>2, <2>3 DEF Quiet
  <1>6. CASE MainContinuous
    <2>1. PICK rc :
             /\ Send("su_cont", rc)
             /\ rc = 0 => \/ pc' = "sv_first"
                          \/ pc' \in {"sv_bore", "sv_cont"} /\ params = {}
      BY <1>6 DEF MainContinuous, NextStation
    <2>2. UNCHANGED <<stations, params>>
      BY <1>6 DEF MainContinuous, dataVars
    <2> QED
      BY <2>1, <2>2, SoundSend DEF Writes, After
  <1>7. CASE ClearInput
    BY <1>7, ReadShape DEF ClearInput, Quiet, dataVars
  <1>8. CASE MainLoop
    <2>1. PICK n : Receive("lp_recv", n)
      BY <1>8 DEF MainLoop
    <2>2. pc' \in {"lp_reset", "lp_spin"}
      BY <1>8 DEF MainLoop
    <2> QED
      BY <2>1, <2>2, ReceiveShape DEF Quiet
  <1> QED
    BY <1>1, <1>2, <1>3, <1>4, <1>5, <1>6, <1>7, <1>8 DEF MainStep

LEMMA SavedShapes == WritesSucceed /\ SavedCalibrationStep => Writes \/ Quiet
  <1> SUFFICES ASSUME WritesSucceed, SavedCalibrationStep PROVE Writes \/ Quiet
    OBVIOUS
  <1> USE DEF Early, Outside, Late, InQuat, Stopped, Labels, ResetLabels, ClearLabels,
              SendLabels, PnoLabels, Writers, Before, Configuring, Awaiting, Using, Onward
  <1>1. CASE SavedAwait
    <2>1. PICK l \in {"sv_first", "sv_wait"} : \E n : Receive(l, n)
      BY <1>1 DEF SavedAwait, Await
    <2>2. pc' \in {"sv_wait", "sv_reset", "end_reset"}
      BY <1>1 DEF SavedAwait, Await
    <2>3. pc' = "sv_reset" => \E m \in Results : Receive(pc, m) /\ m >= RequiredSensors
      <3> SUFFICES ASSUME pc' = "sv_reset"
                   PROVE  \E m \in Results : Receive(pc, m) /\ m >= RequiredSensors
        OBVIOUS
      <3>1. PICK m \in Results : \/ Receive("sv_first", m) /\ ~(m < RequiredSensors)
                                 \/ Receive("sv_wait", m) /\ ~(m < RequiredSensors)
        BY <1>1 DEF SavedAwait, Await
      <3>2. Receive(pc, m)
        BY <3>1 DEF Receive
      <3> QED
        BY <3>1, <3>2 DEF Results, RETURN_ERROR
    <2> QED
      BY <2>1, <2>2, <2>3, ReceiveShape DEF Quiet
  <1>2. CASE SavedReset
    <2>1. PICK rc : Send("sv_reset", rc)
      BY <1>2 DEF SavedReset, Reset
    <2>2. pc' = "sv_clear" /\ UNCHANGED <<stations, params>>
      BY <1>2 DEF SavedReset, Reset, dataVars
    <2> QED
      BY <2>1, <2>2, SoundSend DEF Writes, After
  <1>3. CASE SavedCleared
    <2>1. ClearEnds("sv_clear")
      BY <1>3 DEF SavedCleared
    <2>2. UNCHANGED <<inbox, binary, streaming, units, bore, sensors>> /\ Drained
      BY <2>1, ReadShape DEF ClearEnds
    <2>3. pc = "sv_clear" /\ pc' \in {"end_reset", "sv_bore", "sv_cont"}
      BY <1>3, <2>1 DEF SavedCleared, ClearEnds, NextStation
    <2>4. UNCHANGED <<stations, params>>
      BY <1>3 DEF SavedCleared, ClearEnds, dataVars
    <2> QED
      BY <2>2, <2>3, <2>4 DEF Quiet
  <1>4. CASE SavedBoresight
    <2>1. PICK rc : Send("sv_bore", rc) /\ (rc = 0 => pc' \in {"sv_bore", "sv_cont"})
      BY <1>4 DEF SavedBoresight, NextStation
    <2>2. UNCHANGED <<stations, params>>
      BY <1>4 DEF SavedBoresight, dataVars
    <2> QED
      BY <2>1, <2>2, SoundSend DEF Writes, After
  <1>5. CASE SavedContinuous
    <2>1. PICK rc : Send("sv_cont", rc)
      BY <1>5 DEF SavedContinuous
    <2>2. pc' = "lp_recv" /\ UNCHANGED <<stations, params>>
      BY <1>5 DEF SavedContinuous, dataVars
    <2> QED
      BY <2>1, <2>2, SoundSend DEF Writes, After
  <1> QED
    BY <1>1, <1>2, <1>3, <1>4, <1>5 DEF SavedCalibrationStep

LEMMA CalibrationShapes == WritesSucceed /\ CalibrationStep => Writes \/ Quiet
  <1> SUFFICES ASSUME WritesSucceed, CalibrationStep PROVE Writes \/ Quiet
    OBVIOUS
  <1> USE DEF Early, Outside, Late, InQuat, Stopped, Labels, ResetLabels, ClearLabels,
              SendLabels, PnoLabels, Writers, Before, Configuring, Awaiting, Using, Onward
  <1>1. CASE CalibrateBore
    <2>1. PICK rc : Send("cal_bore", rc) /\ (rc = 0 => pc' = "cal_first")
      BY <1>1 DEF CalibrateBore
    <2>2. UNCHANGED <<stations, params>>
      BY <1>1 DEF CalibrateBore, NoAnswer, AnswerWith, dataVars
    <2> QED
      BY <2>1, <2>2, SoundSend DEF Writes, After
  <1>2. CASE CalibrateAwait
    <2>1. PICK l \in {"cal_first", "cal_wait"} : \E n : Receive(l, n)
      BY <1>2 DEF CalibrateAwait, Await
    <2>2. pc' \in {"cal_wait", "cal_reset", "lp_spin"}
      BY <1>2 DEF CalibrateAwait, Await
    <2> QED
      BY <2>1, <2>2, ReceiveShape DEF Quiet
  <1>3. CASE CalibrateReset
    <2>1. PICK rc : Send("cal_reset", rc)
      BY <1>3 DEF CalibrateReset, Reset
    <2>2. pc' = "cal_clear" /\ UNCHANGED <<stations, params>>
      BY <1>3 DEF CalibrateReset, Reset, dataVars
    <2> QED
      BY <2>1, <2>2, SoundSend DEF Writes, After
  <1>4. CASE CalibrateCleared
    <2>1. ClearEnds("cal_clear")
      BY <1>4 DEF CalibrateCleared
    <2>2. UNCHANGED <<inbox, binary, streaming, units, bore, sensors>> /\ Drained
      BY <2>1, ReadShape DEF ClearEnds
    <2>3. pc = "cal_clear" /\ pc' \in {"cal_dump", "lp_spin"}
      BY <1>4, <2>1 DEF CalibrateCleared, ClearEnds, AnswerWith
    <2> QED
      BY <2>2, <2>3 DEF Quiet
  <1>5. CASE CalibrateDump
    BY <1>5 DEF CalibrateDump, AnswerWith, deviceVars, Quiet, Drained
  <1>6. CASE CalibrateEuler \/ CalibrateZero \/ CalibrateQuat
    <2>1. PICK l \in {"cal_euler", "cal_zero", "cal_quat"} : \E ok \in After(l) : Sent(l, ok, ok)
      BY <1>6 DEF CalibrateEuler, CalibrateZero, CalibrateQuat, After
    <2>2. PICK ok \in After(l) : Sent(l, ok, ok)
      BY <2>1
    <2>3. PICK rc : Send(l, rc) /\ pc' = ok
      BY <2>2 DEF Sent
    <2>4. UNCHANGED <<stations, params>>
      BY <2>2 DEF Sent, dataVars
    <2> QED
      BY <2>1, <2>2, <2>3, <2>4, SoundSend DEF Writes
  <1>7. CASE CalibrateContinuous
    <2>1. PICK rc : Send("cal_cont", rc)
      BY <1>7 DEF CalibrateContinuous
    <2>2. pc' = "lp_spin" /\ UNCHANGED <<stations, params>>
      BY <1>7 DEF CalibrateContinuous, AnswerWith
    <2> QED
      BY <2>1, <2>2, SoundSend DEF Writes, After
  <1> QED
    BY <1>1, <1>2, <1>3, <1>4, <1>5, <1>6, <1>7 DEF CalibrationStep

LEMMA EnvironmentShapes ==
    DeviceNext \/ Environment \/ UNCHANGED vars => Quiet \/ DeviceStep
  <1> SUFFICES ASSUME DeviceNext \/ Environment \/ UNCHANGED vars, ~DeviceStep PROVE Quiet
    OBVIOUS
  <1> USE DEF Quiet, Drained, Onward
  <1>1. CASE DeviceNext
    BY <1>1 DEF DeviceNext, DeviceStep, SensorChange, progVars, dataVars
  <1>2. CASE RequestCalibration \/ TimerExpires \/ Sigint \/ UNCHANGED vars
    BY <1>2 DEF RequestCalibration, TimerExpires, Sigint, vars, progVars, dataVars, deviceVars
  <1>3. CASE Relaunch
    BY <1>3 DEF Relaunch, deviceVars, Early, Late, InQuat, Stopped
  <1> QED
    BY <1>1, <1>2, <1>3 DEF Environment

LEMMA StepShapes == WritesSucceed /\ [Next]_vars => Writes \/ Quiet \/ DeviceStep
  BY MainShapes, SavedShapes, CalibrationShapes, EnvironmentShapes DEF Next, DriverStep, Ended

----------------------------------------------------------------------------
(* The invariant is kept.                                                  *)

LEMMA IdleEff == inbox = NoCommand => EffUnits = units /\ EffStreaming = streaming
  BY DEF EffUnits, EffStreaming, UnitsAfter, StreamingAfter, NoCommand

LEMMA CommandKinds ==
    ASSUME NEW l
    PROVE  /\ Command(l).cmd = "c" <=> l \in {"su_cont", "sv_cont", "lp_cont", "cal_cont"}
           /\ Command(l).cmd = "p" <=> l \in ResetLabels
           /\ Command(l).cmd = "^u" <=> l = "su_map"
           /\ Command(l).cmd = "O" <=> l \in {"su_quat", "cal_quat", "cal_euler"}
           /\ l \in {"su_quat", "cal_quat"} => Command(l).arg = "quat"
  BY DEF Command, Cmd, OutputFormat, Boresight, NoCommand, ResetLabels

(* What main takes for the answer to ^u is one: no other frame is as small.*)
LEMMA ReplyRead ==
    ASSUME TInv, Sensed(pipe), ReadFrame(StateSize)
    PROVE  pipe # <<>> /\ pipe' = Tail(pipe) /\ Head(pipe).head = "state"
  <1>1. pipe # <<>> /\ pipe' = Tail(pipe) /\ FrameSize(Head(pipe)) <= StateSize
    BY DEF ReadFrame
  <1>2. pipe \in Seq(Frames)
    BY DEF TInv, TypeOK, DeviceTypeOK
  <1>3. 1 \in 1..Len(pipe) /\ Head(pipe) = pipe[1] /\ Head(pipe) \in Frames
    BY <1>1, <1>2
  <1> SUFFICES ASSUME Head(pipe).head # "state" PROVE FALSE
    BY <1>1
  <1>4. Head(pipe).head \in {"C", "P"}
    BY <1>1, <1>3 DEF Frames, FrameSize, AsciiSize, StateSize
  <1>5. Head(pipe).sensors # {} /\ Head(pipe).sensors \subseteq Stations
    BY <1>3, <1>4 DEF Sensed, Frames
  <1>6. Cardinality(Head(pipe).sensors) \in Nat \ {0}
    BY <1>5, FS_Subset, FS_CardinalityType, FS_EmptySet
  <1> QED
    BY <1>1, <1>4, <1>6 DEF FrameSize, StateSize, PnoSize, EulerSize

LEMMA QuietLink == TInv /\ LinkInv /\ Quiet => LinkInv'
  <1> SUFFICES ASSUME TInv, LinkInv, Quiet PROVE LinkInv'
    OBVIOUS
  <1>1. pipe \in Seq(Frames)
    BY DEF TInv, TypeOK, DeviceTypeOK
  <1>2. EffUnits' = EffUnits /\ EffStreaming' = EffStreaming
    BY DEF Quiet, EffUnits, EffStreaming, UnitsAfter, StreamingAfter
  <1>3. Ordered(pipe') /\ Sensed(pipe')
    BY <1>1, TailQueue DEF Quiet, Drained, LinkInv
  <1>4. InboxInv'
    BY DEF Quiet, LinkInv, InboxInv
  <1>5. EulerInv'
    <2> SUFFICES ASSUME EulerStream PROVE pc' \in Early \cup {"exited"} /\ NoState(pipe')
      BY DEF EulerInv, EulerStream, Quiet
    <2> QED
      BY <1>1, TailQueue DEF Quiet, Drained, LinkInv, EulerInv
  <1>6. ASSUME pc' \in Late, Garbage = {} PROVE NoEuler(pipe')
    <2>1. CASE pc \in Late
      BY <1>1, <1>6, <2>1, TailQueue DEF Quiet, Drained, LinkInv
    <2>2. CASE ReadFrame(StateSize)
      BY <1>1, <2>2, ReplyRead, TailQueue DEF LinkInv
    <2> QED
      BY <1>6, <2>1, <2>2 DEF Quiet
  <1>7. (pc' \in InQuat => EffUnits' = "quat") /\ (pc' \in Stopped => ~EffStreaming')
    BY <1>2 DEF Quiet, LinkInv
  <1> QED
    BY <1>3, <1>4, <1>5, <1>6, <1>7 DEF LinkInv

LEMMA WritesLink == LinkInv /\ Writes => LinkInv'
  <1> SUFFICES ASSUME LinkInv, Writes PROVE LinkInv'
    OBVIOUS
  <1> USE DEF Early, Outside, Late, InQuat, Stopped, Labels, ResetLabels, ClearLabels,
              SendLabels, PnoLabels, Writers
  <1>0. /\ pc \in Writers /\ pc' \in After(pc) /\ inbox' = Command(pc)
        /\ UNCHANGED <<pipe, streaming, units>>
        /\ EffUnits = units /\ EffStreaming = streaming
    BY IdleEff DEF Writes, Delivered
  <1>1. /\ EffUnits' = IF Command(pc).cmd = "O" THEN Command(pc).arg ELSE units
        /\ EffStreaming' = IF Command(pc).cmd \in {"c", "p"} THEN Command(pc).cmd = "c"
                           ELSE streaming
    BY <1>0 DEF EffUnits, EffStreaming, UnitsAfter, StreamingAfter
  <1>2. pc' \in InQuat => EffUnits' = "quat"
    BY <1>0, <1>1, CommandKinds DEF After, LinkInv
  <1>3. ASSUME pc' \in Stopped PROVE ~EffStreaming'
    <2>1. CASE pc \in ResetLabels
      BY <1>1, <2>1, CommandKinds
    <2>2. CASE pc \notin ResetLabels
      <3>1. pc \in Stopped \ {"su_cont", "cal_cont"}
        BY <1>0, <1>3, <2>2 DEF After
      <3> QED
        BY <1>0, <1>1, <2>2, <3>1, CommandKinds DEF LinkInv
    <2> QED
      BY <2>1, <2>2
  <1>4. InboxInv'
    BY <1>0, CommandKinds DEF LinkInv, InboxInv
  <1>5. EulerInv'
    <2> SUFFICES ASSUME EulerStream PROVE pc' \in Early \cup {"exited"} /\ NoState(pipe)
      BY <1>0 DEF EulerInv, EulerStream
    <2>1. pc \in {"su_reset", "su_bore"} /\ NoState(pipe) /\ streaming
      BY <1>0 DEF LinkInv, EulerInv, EulerStream
    <2>2. pc # "su_bore"
      BY <1>0, <2>1 DEF LinkInv
    <2> QED
      BY <1>0, <2>1, <2>2 DEF After
  <1>6. pc' \in Late => pc \in Late
    BY <1>0 DEF After
  <1> QED
    BY <1>0, <1>2, <1>3, <1>4, <1>5, <1>6 DEF LinkInv

(* What the device puts into the pipe.                                     *)
LEMMA DeviceAdds ==
    ASSUME TInv, DeviceExecute \/ DeviceStream
    PROVE  \/ /\ DeviceExecute /\ pipe' = pipe /\ inbox.cmd # "^u"
           \/ /\ DeviceExecute /\ inbox.cmd = "p" /\ sensors # {}
              /\ Frame("P") \in Frames /\ pipe' = Append(pipe, Frame("P"))
           \/ /\ DeviceExecute /\ inbox.cmd = "^u"
              /\ Frame("state") \in Frames /\ pipe' = Append(pipe, Frame("state"))
           \/ /\ DeviceStream /\ sensors # {}
              /\ Frame("C") \in Frames /\ pipe' = Append(pipe, Frame("C"))
  <1>1. pipe \in Seq(Frames) /\ \A h \in {"C", "P", "state"} : Frame(h) \in Frames
    BY FrameType DEF TInv, TypeOK, DeviceTypeOK
  <1>2. CASE DeviceStream
    BY <1>1, <1>2 DEF DeviceStream
  <1>3. CASE DeviceExecute
    <2>1. pipe' = pipe \o Answer(inbox)
      BY <1>3 DEF DeviceExecute
    <2>2. CASE inbox.cmd = "p" /\ sensors # {}
      BY <1>1, <1>3, <2>1, <2>2 DEF Answer
    <2>3. CASE inbox.cmd = "^u"
      BY <1>1, <1>3, <2>1, <2>3 DEF Answer
    <2>4. CASE ~(inbox.cmd = "p" /\ sensors # {}) /\ inbox.cmd # "^u"
      BY <1>1, <1>3, <2>1, <2>4 DEF Answer
    <2> QED
      BY <2>2, <2>3, <2>4
  <1> QED
    BY <1>2, <1>3

LEMMA DeviceLink == TInv /\ LinkInv /\ DeviceStep => LinkInv'
  <1> SUFFICES ASSUME TInv, LinkInv, DeviceStep PROVE LinkInv'
    OBVIOUS
  <1>1. pipe \in Seq(Frames) /\ pc' = pc /\ streaming \in BOOLEAN
    BY DEF TInv, TypeOK, DeviceTypeOK, DeviceStep, progVars
  <1>2. CASE DeviceExecute
    <2>0. inbox' = NoCommand /\ units' = EffUnits /\ streaming' = EffStreaming
      BY <1>2 DEF DeviceExecute, EffUnits, EffStreaming
    <2>1. EffUnits' = EffUnits /\ EffStreaming' = EffStreaming
      BY <2>0 DEF EffUnits, EffStreaming, UnitsAfter, StreamingAfter, NoCommand
    <2>2. InboxInv'
      BY <2>0 DEF InboxInv, NoCommand
    <2>3. \/ pipe' = pipe
          \/ \E f \in Frames : /\ pipe' = Append(pipe, f) /\ f.head # "C"
                               /\ f.head = "P" => f.sensors # {}
                               /\ inbox.cmd \in {"p", "^u"}
      <3>1. \A h \in {"P", "state"} : Frame(h).head \in {h, "ascii"} /\ Frame(h).sensors = sensors
        BY DEF Frame
      <3> QED
        BY <1>2, <3>1, DeviceAdds DEF DeviceStream, DeviceExecute
    <2>4. ASSUME EulerStream' PROVE EulerStream /\ inbox.cmd \notin {"p", "^u"}
      BY <2>0, <2>4, <1>1
      DEF EulerStream, EffUnits, EffStreaming, UnitsAfter, StreamingAfter, LinkInv, InboxInv
    <2>5. EulerInv'
      BY <1>1, <2>3, <2>4 DEF EulerInv, LinkInv
    <2>6. Ordered(pipe') /\ Sensed(pipe')
      BY <1>1, <2>3, AppendQueue DEF LinkInv, IsEuler
    <2>7. NoEuler(pipe) => NoEuler(pipe')
      BY <1>1, <2>3, AppendQueue DEF IsEuler
    <2> QED
      BY <1>1, <2>1, <2>2, <2>5, <2>6, <2>7 DEF LinkInv
  <1>3. CASE DeviceStream
    <2>1. /\ UNCHANGED <<inbox, units, streaming>> /\ streaming
          /\ sensors # {} /\ Frame("C") \in Frames /\ pipe' = Append(pipe, Frame("C"))
      BY <1>3, DeviceAdds DEF DeviceStream, DeviceExecute
    <2>2. EffUnits' = EffUnits /\ EffStreaming' = EffStreaming
      BY <2>1 DEF EffUnits, EffStreaming, UnitsAfter, StreamingAfter
    <2>3. /\ Frame("C").head \in {"C", "ascii"} /\ Frame("C").sensors # {}
          /\ IsEuler(Frame("C")) => EulerStream
      BY <2>1 DEF Frame, IsEuler, EulerStream
    <2>4. EulerStream => pc \in Early \cup {"exited"} /\ NoState(pipe)
      BY DEF LinkInv, EulerInv
    <2>5. Ordered(pipe') /\ Sensed(pipe')
      BY <1>1, <2>1, <2>3, <2>4, AppendQueue DEF LinkInv
    <2>6. EulerInv'
      BY <1>1, <2>1, <2>3, <2>4, AppendQueue DEF EulerInv, EulerStream
    <2>7. pc \in Late => ~EulerStream
      BY <2>4 DEF Late, Early, Outside
    <2>8. pc \in Late /\ Garbage = {} => NoEuler(pipe')
      BY <1>1, <2>1, <2>3, <2>7, AppendQueue DEF LinkInv
    <2> QED
      BY <1>1, <2>1, <2>2, <2>5, <2>6, <2>8 DEF LinkInv, InboxInv
  <1> QED
    BY <1>2, <1>3 DEF DeviceStep

LEMMA InitialLink == Init => LinkInv
  <1> SUFFICES ASSUME Init PROVE LinkInv
    OBVIOUS
  <1>1. pipe = <<>> /\ inbox = NoCommand /\ pc = "su_init"
    BY DEF Init, DeviceInit, ProcessInit
  <1>2. Ordered(pipe) /\ Sensed(pipe) /\ NoState(pipe)
    BY <1>1 DEF Ordered, Sensed, NoState
  <1> QED
    BY <1>1, <1>2 DEF LinkInv, InboxInv, EulerInv, NoCommand, Early, Late, InQuat, Stopped

LEMMA LinkKept == WritesSucceed /\ TInv /\ LinkInv /\ [Next]_vars => LinkInv'
  BY StepShapes, QuietLink, WritesLink, DeviceLink

LEMMA LinkHolds == ASSUME WritesSucceed PROVE Spec => [](TInv /\ LinkInv)
  <1>1. TInv /\ LinkInv /\ [Next]_vars => (TInv /\ LinkInv)'
    BY TypesKept, LinkKept
  <1>2. Init => TInv /\ LinkInv
    BY InitialTypes, InitialLink
  <1> QED
    BY <1>1, <1>2, PTL DEF Spec

(* Main reads a record for publishing in its loop and nowhere else.        *)
LEMMA PublishesFromLoop == Next /\ Publishes => MainLoop
  <1> SUFFICES ASSUME Next, Publishes PROVE MainLoop
    OBVIOUS
  <1>1. pc = "lp_recv" /\ pc' = "lp_spin"
    BY DEF Publishes
  <1>2. CASE DeviceNext \/ Environment \/ Ended
    BY <1>1, <1>2 DEF DeviceNext, Environment, RequestCalibration, TimerExpires, Sigint,
                      Relaunch, Ended, progVars, vars
  <1>3. ~SavedCalibrationStep /\ ~CalibrationStep
    BY <1>1 DEF SavedCalibrationStep, SavedAwait, SavedReset, SavedCleared, SavedBoresight,
          SavedContinuous, CalibrationStep, CalibrateBore, CalibrateAwait, Await,
          CalibrateReset, CalibrateCleared, CalibrateDump, CalibrateEuler, CalibrateZero,
          CalibrateQuat, CalibrateContinuous, Reset, Sent, Send, ClearEnds, Receive
  <1>4. MainStep => MainLoop
    BY <1>1 DEF MainStep, DeviceInitCall, MainReset, MainCleared, MainBoresight, MainStations,
          ReceiveStations, MainQuaternion, MainHemisphere, MainContinuous, ClearInput,
          ClearLabels, RecoveryReset, RecoveryCleared, RecoveryContinuous, Spin,
          EndReset, EndCleared, Reset, Sent, Send, ClearEnds
  <1> QED
    BY <1>2, <1>3, <1>4 DEF Next, DriverStep

(* The records main publishes are quaternion records, over writes that do  *)
(* not fail and a stack that holds no reply, through read failures,        *)
(* dropouts, signals, calibrations and relaunches without number.          *)
THEOREM PublishedInQuaternions ==
    ASSUME WritesSucceed, Garbage = {} PROVE Spec => PublishesQuaternions
  <1>1. ASSUME TInv, LinkInv, Next, Publishes PROVE stations'.units = "quat"
    <2>1. MainLoop /\ flag' = 0 /\ pc = "lp_recv"
      BY <1>1, PublishesFromLoop DEF Publishes
    <2>2. PICK n \in Results : Receive("lp_recv", n) /\ n > 0
      <3>1. PICK n \in Results :
                /\ Receive("lp_recv", n)
                /\ \/ n = RETURN_ERROR /\ flag \in {0, 2} /\ flag' = 1
                   \/ n = RETURN_ERROR /\ flag = 1 /\ flag' = flag
                   \/ n = 0 /\ flag < 2 /\ flag' = 2
                   \/ n = 0 /\ flag = 2 /\ flag' = flag
                   \/ n > 0
        BY <2>1 DEF MainLoop
      <3> QED
        BY <2>1, <3>1
    <2>3. n # RETURN_ERROR
      BY <2>2 DEF RETURN_ERROR
    <2>4. pipe # <<>> /\ stations' = Head(pipe) /\ Head(pipe).head = "C"
      BY <2>2, <2>3 DEF Receive, ReadFrame
    <2>5. pipe \in Seq(Frames) /\ pc \in Late
      BY <1>1, <2>1 DEF TInv, TypeOK, DeviceTypeOK, Late, Labels, PnoLabels, Early, Outside
    <2>6. 1 \in 1..Len(pipe) /\ Head(pipe) = pipe[1] /\ Head(pipe) \in Frames
      BY <2>4, <2>5
    <2>7. ~IsEuler(Head(pipe))
      BY <1>1, <2>5, <2>6 DEF LinkInv, NoEuler
    <2> QED
      BY <2>4, <2>6, <2>7 DEF IsEuler, Frames, OriUnits
  <1>2. TInv /\ LinkInv /\ [Next]_vars =>
            (Publishes => stations'.units = "quat") \/ UNCHANGED vars
    BY <1>1
  <1> QED
    BY <1>2, LinkHolds, PTL DEF Spec, PublishesQuaternions

----------------------------------------------------------------------------
(* A calibration that is under way has a client, and once the zeros have   *)
(* been sent they are in force.                                            *)
InCalibration == {"cal_bore", "cal_first", "cal_wait", "cal_reset", "cal_clear", "cal_dump",
                  "cal_euler", "cal_zero", "cal_quat", "cal_cont"}

ClientInv == pc \in InCalibration => client = "pending"
ZeroInv   == pc \in {"cal_quat", "cal_cont"} => \A s \in Stations : EffBore[s] = "zero"

LEMMA ClientKept == ClientInv /\ [Next]_vars => ClientInv'
  <1> SUFFICES ASSUME ClientInv, [Next]_vars, pc' \in InCalibration PROVE client' = "pending"
    BY DEF ClientInv
  <1> USE DEF InCalibration, ClientInv
  <1>1. CASE MainStep
    BY <1>1 DEF MainStep, DeviceInitCall, MainReset, MainCleared, MainBoresight, MainStations,
           ReceiveStations, MainQuaternion, MainHemisphere, MainContinuous, NextStation,
           ClearInput, ClearLabels, MainLoop, RecoveryReset, RecoveryCleared,
           RecoveryContinuous, Spin, LoopTop, EndReset, EndCleared, Reset, Sent, dataVars
  <1>2. CASE SavedCalibrationStep
    BY <1>2 DEF SavedCalibrationStep, SavedAwait, Await, SavedReset, SavedCleared,
           SavedBoresight, SavedContinuous, NextStation, Reset
  <1>3. CASE CalibrationStep
    <2>1. CASE CalibrateAwait
      <3>1. pc \in {"cal_first", "cal_wait"}
        BY <2>1 DEF CalibrateAwait, Await, Receive
      <3>2. ~(pc = "cal_wait" /\ timer = "expired")
        BY <2>1 DEF CalibrateAwait, Await, Receive
      <3> QED
        BY <2>1, <3>1, <3>2 DEF CalibrateAwait
    <2>2. CASE CalibrateBore \/ CalibrateCleared \/ CalibrateDump \/ CalibrateContinuous
      <3>1. pc \in InCalibration /\ (client' = client \/ pc' = "lp_spin")
        BY <2>2 DEF CalibrateBore, CalibrateCleared, CalibrateDump, CalibrateContinuous,
                    Send, ClearEnds, AnswerWith, NoAnswer, dataVars
      <3> QED
        BY <3>1
    <2>3. CASE CalibrateReset \/ CalibrateEuler \/ CalibrateZero \/ CalibrateQuat
      BY <2>3 DEF CalibrateReset, CalibrateEuler, CalibrateZero, CalibrateQuat, Reset, Sent,
                  Send, dataVars
    <2> QED
      BY <1>3, <2>1, <2>2, <2>3 DEF CalibrationStep
  <1>4. CASE DeviceNext \/ Environment \/ UNCHANGED vars
    BY <1>4 DEF DeviceNext, Environment, RequestCalibration, TimerExpires, Sigint, Relaunch,
                progVars, dataVars, vars
  <1> QED
    BY <1>1, <1>2, <1>3, <1>4 DEF Next, DriverStep, Ended

LEMMA DeliveredBore ==
    ASSUME TInv, Delivered, NEW s \in Stations
    PROVE  EffBore'[s] = Bored(Command(pc), s, EffBore[s])
  <1>1. Send(pc, 0)
    BY DEF Delivered, Send
  <1> QED
    BY <1>1, SendEff DEF RETURN_ERROR

LEMMA ZeroKept == WritesSucceed /\ TInv /\ ZeroInv /\ [Next]_vars => ZeroInv'
  <1> SUFFICES ASSUME WritesSucceed, TInv, ZeroInv, [Next]_vars, pc' \in {"cal_quat", "cal_cont"},
                      NEW s \in Stations
               PROVE  EffBore'[s] = "zero"
    BY DEF ZeroInv
  <1>1. CASE Writes
    <2>1. pc \in {"cal_zero", "cal_quat"}
      BY <1>1 DEF Writes, After
    <2> QED
      BY <1>1, <2>1, DeliveredBore, CommandBore DEF Writes, ZeroInv
  <1>2. CASE Quiet \/ DeviceStep
    BY <1>2, UnchangedEff, ExecuteEff
    DEF Quiet, DeviceStep, DeviceStream, EffSame, ZeroInv, progVars
  <1> QED
    BY <1>1, <1>2, StepShapes

(* Where a calibration can be answered with success.                       *)
LEMMA AnsweredFromLast ==
    Next /\ pc = "cal_cont" /\ client = "pending" /\ client' = "success" => CalibrateContinuous
  <1> SUFFICES ASSUME Next, pc = "cal_cont", client = "pending", client' = "success"
               PROVE  CalibrateContinuous
    OBVIOUS
  <1>1. ~(DeviceNext \/ Environment \/ Ended)
    BY DEF DeviceNext, Environment, RequestCalibration, TimerExpires, Sigint, Relaunch, Ended,
           dataVars, vars
  <1>2. ~MainStep
    BY DEF MainStep, DeviceInitCall, MainReset, MainCleared, MainBoresight, MainStations,
           ReceiveStations, MainQuaternion, MainHemisphere, MainContinuous, ClearInput,
           ClearLabels, MainLoop, RecoveryReset, RecoveryCleared, RecoveryContinuous, Spin,
           EndReset, EndCleared, Reset, Sent, Send, ClearEnds, Receive
  <1>3. ~SavedCalibrationStep
    BY DEF SavedCalibrationStep, SavedAwait, Await, SavedReset, SavedCleared, SavedBoresight,
           SavedContinuous, Reset, Send, ClearEnds, Receive
  <1>4. CalibrationStep => CalibrateContinuous
    BY DEF CalibrationStep, CalibrateBore, CalibrateAwait, Await, CalibrateReset,
           CalibrateCleared, CalibrateDump, CalibrateEuler, CalibrateZero, CalibrateQuat,
           Reset, Sent, Send, ClearEnds, Receive
  <1> QED
    BY <1>1, <1>2, <1>3, <1>4 DEF Next, DriverStep

(* A calibration that runs to its end over writes that do not fail has     *)
(* zeroed every station and left the device streaming quaternions: nothing *)
(* between its writes, and no answer but its own, takes that back.         *)
THEOREM CompletedCalibration ==
    ASSUME WritesSucceed PROVE Spec => CalibrationCompletes
  <1>1. ASSUME TInv, LinkInv, ClientInv, ZeroInv, Next, pc = "cal_cont", client' = "success"
        PROVE  /\ \A s \in Stations : EffBore'[s] = "zero"
               /\ EffUnits' = "quat" /\ EffStreaming'
    <2>1. CalibrateContinuous
      BY <1>1, AnsweredFromLast DEF ClientInv, InCalibration
    <2>2. Delivered
      BY <2>1, SoundSend DEF CalibrateContinuous
    <2>3. EffUnits = "quat"
      BY <1>1 DEF LinkInv, InQuat, Late, Labels, SendLabels, Early, Outside
    <2>4. units = "quat" /\ inbox' = Command(pc) /\ units' = units
      BY <2>2, <2>3, IdleEff DEF Delivered
    <2>5. EffUnits' = "quat" /\ EffStreaming'
      BY <1>1, <2>4, CommandKinds DEF EffUnits, EffStreaming, UnitsAfter, StreamingAfter
    <2>6. ASSUME NEW s \in Stations PROVE EffBore'[s] = "zero"
      BY <1>1, <2>2, DeliveredBore, CommandBore DEF ZeroInv
    <2> QED
      BY <2>5, <2>6
  <1>2. TInv /\ LinkInv /\ ClientInv /\ ZeroInv /\ [Next]_vars =>
            (pc = "cal_cont" /\ client' = "success" =>
                /\ \A s \in Stations : EffBore'[s] = "zero"
                /\ EffUnits' = "quat" /\ EffStreaming')
            \/ UNCHANGED vars
    BY <1>1
  <1>3. ClientInv /\ [Next]_vars => ClientInv'
    BY ClientKept
  <1>4. TInv /\ ZeroInv /\ [Next]_vars => ZeroInv'
    BY ZeroKept
  <1>5. Init => ClientInv /\ ZeroInv
    BY DEF Init, ProcessInit, ClientInv, InCalibration, ZeroInv
  <1> QED
    BY <1>2, <1>3, <1>4, <1>5, LinkHolds, PTL DEF Spec, CalibrationCompletes

----------------------------------------------------------------------------
(* The first life of the process.  No answer to ^u waits before it is      *)
(* asked, so the one main reads is the last of the pipe, and nothing comes *)
(* after it until the stream is started again, of records without any      *)
(* boresight: the saved corrections are computed from no other.            *)
LastAnswer(p)    == \A i, j \in 1..Len(p) : i < j => p[i].head # "state"
Unboresighted(p) == \A i \in 1..Len(p) : p[i].head = "C" => p[i].raw = p[i].sensors

WholeFrame == stations.units = "quat" /\ stations.sensors = Stations /\ stations.raw = Stations

FirstInv ==
    /\ pc \in Before => NoState(pipe) /\ inbox.cmd # "^u"
    /\ pc = "su_mapread" => LastAnswer(pipe) /\ (NoState(pipe) \/ inbox = NoCommand)
    /\ pc \in Configuring /\ Garbage = {} => pipe = <<>> /\ inbox.cmd \in {"none", "O", "h"}
    /\ pc \in Awaiting /\ Garbage = {} => Unboresighted(pipe) /\ inbox.cmd \in {"none", "c"}
    /\ pc \in Using /\ params # {} => WholeFrame

(* One life of the process, writes that do not fail and a stack that holds *)
(* no reply; a frame of the required sensors is one of every station.      *)
FirstLife == /\ WritesSucceed /\ "crash" \notin Faults /\ Garbage = {}
           /\ Cardinality(Stations) <= RequiredSensors

LEMMA TailFirst ==
    ASSUME NEW S, NEW p \in Seq(S), p # <<>>
    PROVE  /\ LastAnswer(p) => LastAnswer(Tail(p))
           /\ Unboresighted(p) => Unboresighted(Tail(p))
           /\ LastAnswer(p) /\ Head(p).head = "state" => Tail(p) = <<>>
  <1>1. /\ Len(Tail(p)) = Len(p) - 1 /\ Head(p) = p[1] /\ Len(p) \in Nat \ {0}
        /\ \A i \in 1..Len(Tail(p)) : i + 1 \in 1..Len(p) /\ Tail(p)[i] = p[i + 1]
    BY TailElements
  <1>2. ASSUME LastAnswer(p) PROVE LastAnswer(Tail(p))
    <2> SUFFICES ASSUME NEW i \in 1..Len(Tail(p)), NEW j \in 1..Len(Tail(p)), i < j
                 PROVE  Tail(p)[i].head # "state"
      BY DEF LastAnswer
    <2>1. /\ i + 1 \in 1..Len(p) /\ j + 1 \in 1..Len(p) /\ i + 1 < j + 1
          /\ Tail(p)[i] = p[i + 1]
      BY <1>1
    <2> QED
      BY <1>2, <2>1 DEF LastAnswer
  <1>3. Unboresighted(p) => Unboresighted(Tail(p))
    BY <1>1 DEF Unboresighted
  <1>4. ASSUME LastAnswer(p), Head(p).head = "state" PROVE Tail(p) = <<>>
    <2>1. 1 \in 1..Len(p) /\ p[1].head = "state"
      BY <1>1, <1>4
    <2>2. ~(Len(p) >= 2)
      <3> SUFFICES ASSUME Len(p) >= 2 PROVE FALSE
        OBVIOUS
      <3>1. 2 \in 1..Len(p) /\ 1 < 2
        BY <1>1
      <3> QED
        BY <1>4, <2>1, <3>1 DEF LastAnswer
    <2>3. Len(p) = 1
      BY <1>1, <2>2
    <2> DEFINE t == Tail(p)
    <2>4. t \in Seq(S) /\ Len(t) = 0
      BY <1>1, <2>3
    <2> HIDE DEF t
    <2>5. t = <<>>
      BY <2>4
    <2> QED
      BY <2>5 DEF t
  <1> QED
    BY <1>2, <1>3, <1>4

LEMMA AppendFirst ==
    ASSUME NEW p \in Seq(Frames), NEW f \in Frames
    PROVE  /\ NoState(p) => LastAnswer(Append(p, f))
           /\ Unboresighted(p) /\ (f.head = "C" => f.raw = f.sensors) =>
                 Unboresighted(Append(p, f))
  <1> DEFINE q == Append(p, f)
  <1>1. /\ Len(q) = Len(p) + 1 /\ Len(p) \in Nat
        /\ \A i \in 1..Len(p) : q[i] = p[i]
        /\ q[Len(p) + 1] = f
    BY AppendElements
  <1> HIDE DEF q
  <1>2. \A i \in 1..Len(q) : i \in 1..Len(p) \/ i = Len(p) + 1
    BY <1>1
  <1>3. NoState(p) => LastAnswer(q)
    BY <1>1, <1>2 DEF NoState, LastAnswer
  <1>4. Unboresighted(p) /\ (f.head = "C" => f.raw = f.sensors) => Unboresighted(q)
    BY <1>1, <1>2, Zenon DEF Unboresighted
  <1> QED
    BY <1>3, <1>4 DEF q

(* A frame of the required sensors, read while every record is in          *)
(* quaternions and without boresight, is a whole one.                      *)
LEMMA WholeFrameRead ==
    ASSUME FirstLife, TInv, NoEuler(pipe), Unboresighted(pipe),
           NEW n \in Results, Receive(pc, n), n >= RequiredSensors
    PROVE  WholeFrame'
  <1>1. n # RETURN_ERROR
    BY DEF RETURN_ERROR
  <1>2. /\ pipe # <<>> /\ stations' = Head(pipe) /\ Head(pipe).head = "C"
        /\ n = FrameSize(Head(pipe)) \div PnoSize
    BY <1>1 DEF Receive, ReadFrame
  <1>3. pipe \in Seq(Frames)
    BY DEF TInv, TypeOK, DeviceTypeOK
  <1>4. 1 \in 1..Len(pipe) /\ Head(pipe) = pipe[1] /\ Head(pipe) \in Frames
    BY <1>2, <1>3
  <1>5. Head(pipe).units = "quat"
    BY <1>2, <1>4 DEF NoEuler, IsEuler, Frames, OriUnits
  <1>6. Head(pipe).raw = Head(pipe).sensors
    BY <1>2, <1>4 DEF Unboresighted
  <1>7. Head(pipe).sensors \in SUBSET Stations
    BY <1>4 DEF Frames
  <1>8. /\ Cardinality(Head(pipe).sensors) \in Nat /\ Cardinality(Stations) \in Nat
        /\ Cardinality(Head(pipe).sensors) <= Cardinality(Stations)
        /\ Cardinality(Stations) = Cardinality(Head(pipe).sensors) =>
              Stations = Head(pipe).sensors
    BY <1>7, FS_Subset, FS_CardinalityType
  <1>9. n = Cardinality(Head(pipe).sensors)
    <2>1. FrameSize(Head(pipe)) = Cardinality(Head(pipe).sensors) * PnoSize
      BY <1>2, <1>5 DEF FrameSize
    <2>2. \A k \in Nat : (k * PnoSize) \div PnoSize = k
      BY DEF PnoSize
    <2> QED
      BY <1>2, <1>8, <2>1, <2>2
  <1> QED
    BY <1>2, <1>5, <1>6, <1>8, <1>9 DEF FirstLife, WholeFrame

LEMMA QuietFirst ==
    FirstLife /\ TInv /\ LinkInv /\ FirstInv /\ Quiet => FirstInv'
  <1> SUFFICES ASSUME FirstLife, TInv, LinkInv, FirstInv, Quiet PROVE FirstInv'
    OBVIOUS
  <1>1. pipe \in Seq(Frames) /\ Garbage = {} /\ inbox' = inbox /\ Drained
    BY DEF TInv, TypeOK, DeviceTypeOK, FirstLife, Quiet
  <1>2. Onward
    BY DEF Quiet, Relaunch, Fault, FirstLife
  <1>3. /\ NoState(pipe) => NoState(pipe')
        /\ LastAnswer(pipe) => LastAnswer(pipe')
        /\ Unboresighted(pipe) => Unboresighted(pipe')
    BY <1>1, TailQueue, TailFirst DEF Drained
  <1>4. pc' \in Before => NoState(pipe') /\ inbox'.cmd # "^u"
    BY <1>1, <1>2, <1>3 DEF Onward, FirstInv
  <1>5. pc' = "su_mapread" => LastAnswer(pipe') /\ (NoState(pipe') \/ inbox' = NoCommand)
    BY <1>1, <1>2, <1>3 DEF Onward, FirstInv
  <1>6. ASSUME pc' \in Configuring PROVE pipe' = <<>> /\ inbox'.cmd \in {"none", "O", "h"}
    <2>1. CASE pc \in Configuring
      BY <1>1, <2>1 DEF FirstInv, Drained
    <2>2. CASE pc = "su_mapread" /\ ReadFrame(StateSize)
      <3>1. pipe # <<>> /\ pipe' = Tail(pipe) /\ Head(pipe).head = "state"
        BY <2>2, ReplyRead DEF LinkInv
      <3>2. LastAnswer(pipe) /\ (NoState(pipe) \/ inbox = NoCommand)
        BY <2>2 DEF FirstInv
      <3>3. ~NoState(pipe)
        <4>1. 1 \in 1..Len(pipe) /\ Head(pipe) = pipe[1]
          BY <1>1, <3>1
        <4> QED
          BY <3>1, <4>1 DEF NoState
      <3>4. pipe' = <<>>
        BY <1>1, <3>1, <3>2, TailFirst
      <3> QED
        BY <1>1, <3>2, <3>3, <3>4 DEF NoCommand
    <2> QED
      BY <1>1, <1>2, <1>6, <2>1, <2>2 DEF Onward
  <1>7. pc' \in Awaiting => Unboresighted(pipe') /\ inbox'.cmd \in {"none", "c"}
    BY <1>1, <1>2, <1>3 DEF Onward, FirstInv
  <1>8. ASSUME pc' \in Using, params' # {} PROVE WholeFrame'
    <2>1. CASE pc \in Using /\ UNCHANGED <<stations, params>>
      BY <1>8, <2>1 DEF FirstInv, WholeFrame
    <2>2. CASE pc \in Awaiting /\ \E n \in Results : Receive(pc, n) /\ n >= RequiredSensors
      <3>1. pc \in Late
        BY <2>2 DEF Awaiting, Late, Labels, PnoLabels, Early, Outside
      <3>2. NoEuler(pipe) /\ Unboresighted(pipe)
        BY <1>1, <2>2, <3>1 DEF LinkInv, FirstInv
      <3> QED
        BY <2>2, <3>2, WholeFrameRead
    <2> QED
      BY <1>2, <1>8, <2>1, <2>2 DEF Onward
  <1> QED
    BY <1>4, <1>5, <1>6, <1>7, <1>8 DEF FirstInv

LEMMA WritesFirst == FirstInv /\ Writes => FirstInv'
  <1> SUFFICES ASSUME FirstInv, Writes PROVE FirstInv'
    OBVIOUS
  <1> USE DEF Early, Before, Configuring, Awaiting, Using
  <1>1. /\ pc \in Writers /\ pc' \in After(pc) /\ inbox' = Command(pc)
        /\ UNCHANGED <<pipe, stations, params>>
    BY DEF Writes, Delivered
  <1>2. pc' \in Before => NoState(pipe') /\ inbox'.cmd # "^u"
    <2>1. pc' \in Before => pc \in {"su_reset", "su_bore"}
      BY <1>1 DEF After, Writers, ResetLabels, SendLabels
    <2> QED
      BY <1>1, <2>1, CommandKinds DEF FirstInv
  <1>3. pc' = "su_mapread" => LastAnswer(pipe') /\ NoState(pipe')
    <2>1. pc' = "su_mapread" => pc = "su_map"
      BY <1>1 DEF After, Writers, ResetLabels, SendLabels
    <2> QED
      BY <1>1, <2>1 DEF FirstInv, NoState, LastAnswer
  <1>4. pc' \in Configuring /\ Garbage = {} => pipe' = <<>> /\ inbox'.cmd \in {"none", "O", "h"}
    <2>1. pc' \in Configuring => pc \in {"su_quat", "su_hemi"}
      BY <1>1 DEF After, Writers, ResetLabels, SendLabels
    <2>2. Command("su_hemi").cmd = "h" /\ Command("su_quat").cmd = "O"
      BY DEF Command, Cmd, OutputFormat, ResetLabels
    <2> QED
      BY <1>1, <2>1, <2>2 DEF FirstInv
  <1>5. pc' \in Awaiting /\ Garbage = {} => Unboresighted(pipe') /\ inbox'.cmd \in {"none", "c"}
    <2>1. pc' \in Awaiting => pc = "su_cont"
      BY <1>1 DEF After, Writers, ResetLabels, SendLabels
    <2>2. pipe = <<>> => Unboresighted(pipe)
      BY DEF Unboresighted
    <2> QED
      BY <1>1, <2>1, <2>2, CommandKinds DEF FirstInv
  <1>6. pc' \in Using /\ params' # {} => WholeFrame'
    <2>1. pc' \in Using => pc \in {"sv_reset", "sv_bore"} \/ (pc = "su_cont" /\ pc' = "sv_bore")
      BY <1>1 DEF After, Writers, ResetLabels, SendLabels
    <2> QED
      BY <1>1, <2>1 DEF Writes, FirstInv, WholeFrame
  <1> QED
    BY <1>2, <1>3, <1>4, <1>5, <1>6 DEF FirstInv

LEMMA DeviceFirst ==
    FirstLife /\ TInv /\ EInv /\ LinkInv /\ FirstInv /\ DeviceStep => FirstInv'
  <1> SUFFICES ASSUME FirstLife, TInv, EInv, LinkInv, FirstInv, DeviceStep PROVE FirstInv'
    OBVIOUS
  <1>1. pipe \in Seq(Frames) /\ Garbage = {} /\ UNCHANGED <<pc, stations, params>>
    BY DEF TInv, TypeOK, DeviceTypeOK, FirstLife, DeviceStep, progVars, dataVars
  <1>2. NoState(pipe) => LastAnswer(pipe)
    BY DEF NoState, LastAnswer
  <1>3. CASE DeviceExecute
    <2>1. inbox # NoCommand /\ inbox' = NoCommand
      BY <1>3 DEF DeviceExecute
    <2>2. CASE pipe' = pipe
      BY <1>1, <2>1, <2>2 DEF FirstInv, WholeFrame, NoCommand
    <2>3. CASE inbox.cmd = "p" /\ Frame("P") \in Frames /\ pipe' = Append(pipe, Frame("P"))
      <3>1. Frame("P").head \in {"P", "ascii"}
        BY DEF Frame
      <3>2. NoState(pipe) => NoState(pipe') /\ LastAnswer(pipe')
        BY <1>1, <2>3, <3>1, AppendQueue, AppendFirst
      <3>3. pc \notin Configuring \cup Awaiting
        BY <1>1, <2>3 DEF FirstInv
      <3> QED
        BY <1>1, <2>1, <3>2, <3>3 DEF FirstInv, WholeFrame, NoCommand
    <2>4. CASE inbox.cmd = "^u" /\ Frame("state") \in Frames /\ pipe' = Append(pipe, Frame("state"))
      <3>1. NoState(pipe) => LastAnswer(pipe')
        BY <1>1, <2>4, AppendFirst
      <3>2. pc \notin Before \cup Configuring \cup Awaiting
        BY <1>1, <2>4 DEF FirstInv
      <3> QED
        BY <1>1, <2>1, <3>1, <3>2 DEF FirstInv, WholeFrame, NoCommand
    <2>5. ~DeviceStream
      BY <2>1 DEF DeviceStream
    <2> QED
      BY <1>3, <2>2, <2>3, <2>4, <2>5, DeviceAdds
  <1>4. CASE DeviceStream
    <2>1. /\ streaming /\ UNCHANGED <<inbox, bore>>
          /\ Frame("C") \in Frames /\ pipe' = Append(pipe, Frame("C"))
      BY <1>4, DeviceAdds DEF DeviceStream, DeviceExecute
    <2>2. Frame("C").head \in {"C", "ascii"} /\ Frame("C").sensors = sensors /\ Frame("C").raw = Raw
      BY DEF Frame
    <2>3. NoState(pipe) => NoState(pipe') /\ LastAnswer(pipe')
      BY <1>1, <2>1, <2>2, AppendQueue, AppendFirst
    <2>4. pc = "su_mapread" => NoState(pipe)
      <3>1. pc = "su_mapread" => ~EffStreaming
        BY DEF LinkInv, Stopped
      <3> QED
        BY <2>1, <3>1, IdleEff DEF FirstInv
    <2>5. pc \notin Configuring
      <3> SUFFICES ASSUME pc \in Configuring PROVE FALSE
        OBVIOUS
      <3>1. inbox.cmd \in {"none", "O", "h"} /\ ~EffStreaming
        BY <1>1 DEF FirstInv, LinkInv, Stopped, Configuring
      <3> QED
        BY <2>1, <3>1 DEF EffStreaming, StreamingAfter
    <2>6. ASSUME pc \in Awaiting PROVE Unboresighted(pipe') /\ inbox'.cmd \in {"none", "c"}
      <3>1. inbox.cmd \in {"none", "c"} /\ Unboresighted(pipe)
        BY <1>1, <2>6 DEF FirstInv
      <3>2. \A s \in Stations : EffBore[s] = "none" /\ EffBore[s] = bore[s]
        BY <2>6, <3>1 DEF EInv, BareInv, Bare, Awaiting, EffBore, BoreAfter
      <3>3. Raw = sensors
        BY <3>2 DEF Raw, TInv, TypeOK, DeviceTypeOK
      <3>4. Frame("C").raw = Frame("C").sensors
        BY <2>2, <3>3
      <3>5. Unboresighted(pipe')
        BY <1>1, <2>1, <3>1, <3>4, AppendFirst
      <3> QED
        BY <2>1, <3>1, <3>5
    <2> QED
      BY <1>1, <2>1, <2>3, <2>4, <2>5, <2>6 DEF FirstInv, WholeFrame
  <1> QED
    BY <1>3, <1>4 DEF DeviceStep

LEMMA FirstKept ==
    FirstLife /\ TInv /\ EInv /\ LinkInv /\ FirstInv /\ [Next]_vars => FirstInv'
  BY StepShapes, QuietFirst, WritesFirst, DeviceFirst DEF FirstLife

LEMMA InitialFirst == Init => FirstInv
  <1> SUFFICES ASSUME Init PROVE FirstInv
    OBVIOUS
  <1>1. pipe = <<>> /\ inbox = NoCommand /\ pc = "su_init"
    BY DEF Init, DeviceInit, ProcessInit
  <1>2. NoState(pipe)
    BY <1>1 DEF NoState
  <1> QED
    BY <1>1, <1>2 DEF FirstInv, NoCommand, Early, Before, Configuring, Awaiting, Using

(* Record i of a frame of every station is that of station i + 1.          *)
LEMMA RecordOfStation ==
    ASSUME Contiguous, stations.sensors = Stations, NEW i \in Nat, i + 1 \in Stations
    PROVE  RecordStation(i) = {i + 1}
  <1>1. Stations \subseteq Nat \ {0}
    BY DeviceAssumption
  <1>2. ASSUME NEW s \in Stations PROVE Cardinality({t \in Stations : t < s}) = s - 1
    <2>1. s \in Nat \ {0} /\ 1..s \subseteq Stations
      BY <1>1, <1>2 DEF Contiguous
    <2>2. {t \in Stations : t < s} = 1..(s - 1)
      <3>1. ASSUME NEW t \in Stations, t < s PROVE t \in 1..(s - 1)
        BY <1>1, <2>1, <3>1
      <3>2. ASSUME NEW t \in 1..(s - 1) PROVE t \in Stations /\ t < s
        <4>1. t \in 1..s /\ t < s
          BY <2>1
        <4> QED
          BY <2>1, <4>1
      <3> QED
        BY <3>1, <3>2
    <2>3. Cardinality(1..(s - 1)) = s - 1
      BY <2>1, FS_Interval
    <2> QED
      BY <2>2, <2>3
  <1>3. RecordStation(i) = {s \in Stations : s - 1 = i}
    BY <1>2 DEF RecordStation
  <1> QED
    BY <1>1, <1>3

(* In its first life the driver computes every correction, where the node  *)
(* has a calibration among its parameters, from a quaternion record of the *)
(* very station it is sent to, measured without any boresight: whatever    *)
(* stream an earlier run left behind, however reads fail, sensors come and *)
(* go, and the three seconds run out.  The sensors required are all of the *)
(* stations, which are numbered without a gap.  With relaunches it does    *)
(* not hold for any number of faults: answers to ^u that were never read,  *)
(* one more in each life whose reads fail, let a later life go on with the *)
(* frames of its predecessor still behind the answer it reads.             *)
THEOREM CorrectedFromAwaited ==
    ASSUME WritesSucceed, "crash" \notin Faults, Garbage = {},
           Cardinality(Stations) <= RequiredSensors, Contiguous
    PROVE  Spec => []CorrectsWhatItAwaited
  <1>0. FirstLife
    BY DEF FirstLife
  <1>1. Init => EInv /\ FirstInv
    BY InitialEff, InitialFirst
  <1>2. TInv /\ EInv /\ LinkInv /\ FirstInv /\ [Next]_vars => FirstInv'
    BY <1>0, FirstKept
  <1>3. TInv /\ FirstInv => CorrectsWhatItAwaited
    <2> SUFFICES ASSUME TInv, FirstInv, pc = "sv_bore", params # {} PROVE Correcting
      BY DEF CorrectsWhatItAwaited
    <2>1. WholeFrame
      BY DEF FirstInv, Using
    <2>2. station_id \in Nat /\ station_id + 1 \in Stations
      BY DEF TInv, TypeOK, AppTypeOK, StationKnown
    <2> QED
      BY <2>1, <2>2, RecordOfStation DEF Correcting, WholeFrame
  <1> QED
    BY <1>1, <1>2, <1>3, EInvHolds, LinkHolds, PTL DEF Spec
=============================================================================

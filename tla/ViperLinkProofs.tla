-------------------------- MODULE ViperLinkProofs --------------------------
(***************************************************************************)
(* What the driver relies on over a sound link: no transfer fails, nothing *)
(* is refused, no sensor comes or goes, and the process is not killed.     *)
(* However many PNO frames may wait in the pipe, however many requests are *)
(* served one after the other: no station ever carries two corrections, a  *)
(* calibration that has its EULER acknowledged does not fail any more, and *)
(* Euler angles are published or saved only while the device is in Euler   *)
(* units.                                                                  *)
(*                                                                         *)
(* A reply is matched by command type only, so the argument is about what  *)
(* is outstanding: the acknowledgements in the pipe and the command in the *)
(* inbox.  While main sets the device up nothing is but the answer to the  *)
(* current command.  In the loop anything may be, until a calibration sends*)
(* EULER: before that it has stopped the stream and read until a read      *)
(* failed, so either nothing is left or the next answer is not one to a    *)
(* UNITS command, which fails the call.  A calibration that gets past EULER*)
(* is in step with the device again (Orderly).                             *)
(*                                                                         *)
(* The stream stops before any command that sets the units is sent, so the *)
(* answer to one is first in the pipe or directly behind another answer    *)
(* (Paired), and a clearing that gives up on a PNO frame never leaves one  *)
(* first.                                                                  *)
(***************************************************************************)
EXTENDS ViperOutcomeProofs

USE StationsAssumption, DeviceAssumption, DriverAssumption

SoundLink == Stations # {} /\ Faults \subseteq {"dump"}

(* A PNO frame of all stations, an acknowledgement of a command of type t, *)
(* the type of the command in the inbox ("none" if there is none).         *)
Whole(f)    == IsPno(f) /\ f.sensors = Stations
AckOf(f, t) == IsAck(f) /\ f.cmd = t
Owing       == inbox.cmd
FullSize    == FrameSize(PnoFrame("quat", Stations))

----------------------------------------------------------------------------
(* What waits in the pipe p from place lo on: PNO frames only; and one     *)
(* acknowledgement among them.                                             *)
Run(p, lo) == \A j \in lo..Len(p) : Whole(p[j])

One(p, lo, t) ==
    \E i \in lo..Len(p) :
        /\ \A j \in lo..(i - 1) : Whole(p[j])
        /\ AckOf(p[i], t)
        /\ Run(p, i + 1)

(* One answer is outstanding, of type t, in the pipe or yet to be given    *)
(* (b is Owing).                                                           *)
Owed(p, lo, b, t) == \/ b = t /\ Run(p, lo)
                     \/ b = "none" /\ One(p, lo, t)

Cont == "CONTINUOUS_PNO"

(* How the pipe changes: its first frame goes; a PNO frame comes; an       *)
(* acknowledgement comes, perhaps with a PNO frame behind it.              *)
Shifted(p, q) ==
    /\ Len(p) = Len(q) + 1
    /\ \A i \in 1..Len(q) : q[i] = p[i + 1]

Extended(p, q) == /\ Len(q) = Len(p) + 1
                  /\ \A i \in 1..Len(p) : q[i] = p[i]
                  /\ Whole(q[Len(q)])

Replied(p, q, t) ==
    /\ Len(q) \in {Len(p) + 1, Len(p) + 2}
    /\ \A i \in 1..Len(p) : q[i] = p[i]
    /\ AckOf(q[Len(p) + 1], t)
    /\ Len(q) = Len(p) + 2 => Whole(q[Len(p) + 2])

(* The first frame is a PNO frame and everything moves up, or it is the    *)
(* answer outstanding.                                                     *)
LEMMA ShiftRun ==
    ASSUME NEW p, NEW q, Len(p) \in Nat, Len(q) \in Nat, Shifted(p, q), NEW lo \in Nat \ {0}
    PROVE  /\ Run(p, lo + 1) => Run(q, lo)
           /\ Run(p, 1) => Run(q, 1) /\ (Len(p) > 0 => Whole(p[1]))
  BY DEF Shifted, Run

LEMMA ShiftBefore ==
    ASSUME NEW p, NEW q, Len(p) \in Nat, Len(q) \in Nat, Shifted(p, q),
           NEW i \in 1..Len(p), \A j \in 1..(i - 1) : Whole(p[j])
    PROVE  \A j \in 1..(i - 2) : Whole(q[j])
  <1> TAKE j \in 1..(i - 2)
  <1>1. j + 1 \in 1..(i - 1) /\ j \in 1..Len(q)
    BY DEF Shifted
  <1> QED
    BY <1>1 DEF Shifted

LEMMA HeadOfOwed ==
    ASSUME NEW p, NEW q, Len(p) \in Nat, Len(q) \in Nat, Shifted(p, q),
           NEW b, NEW t, Owed(p, 1, b, t)
    PROVE  \/ Whole(p[1]) /\ Owed(q, 1, b, t)
           \/ AckOf(p[1], t) /\ b = "none" /\ Run(q, 1)
  <1>1. CASE b = t /\ Run(p, 1)
    BY <1>1, ShiftRun DEF Owed, Shifted
  <1>2. CASE b = "none" /\ One(p, 1, t)
    <2>1. PICK i \in 1..Len(p) : /\ \A j \in 1..(i - 1) : Whole(p[j])
                                 /\ AckOf(p[i], t)
                                 /\ Run(p, i + 1)
      BY <1>2 DEF One
    <2>2. CASE i = 1
      BY <1>2, <2>1, <2>2, ShiftRun
    <2>3. CASE i > 1
      <3>1. Whole(p[1])
        BY <2>1, <2>3
      <3>2. i - 1 \in 1..Len(q) /\ q[i - 1] = p[i]
        BY <2>1, <2>3 DEF Shifted
      <3>3. \A j \in 1..(i - 2) : Whole(q[j])
        BY <2>1, ShiftBefore
      <3>4. Run(q, i)
        BY <2>1, ShiftRun
      <3>5. One(q, 1, t)
        BY <2>1, <3>2, <3>3, <3>4 DEF One
      <3> QED
        BY <1>2, <3>1, <3>5 DEF Owed
    <2> QED
      BY <2>1, <2>2, <2>3
  <1> QED
    BY <1>1, <1>2 DEF Owed

(* A PNO frame that comes changes nothing of what is outstanding.          *)
LEMMA ExtendRun ==
    ASSUME NEW p, NEW q, Len(p) \in Nat, Len(q) \in Nat, Extended(p, q), NEW lo \in Nat \ {0},
           Run(p, lo)
    PROVE  Run(q, lo)
  <1>1. ASSUME NEW j \in lo..Len(q) PROVE Whole(q[j])
    <2>1. CASE j = Len(q)
      BY <2>1 DEF Extended
    <2>2. CASE j # Len(q)
      <3>1. j \in lo..Len(p) /\ j \in 1..Len(p)
        BY <2>2 DEF Extended
      <3> QED
        BY <3>1 DEF Extended, Run
    <2> QED
      BY <2>1, <2>2
  <1> QED
    BY <1>1 DEF Run

LEMMA ExtendOwed ==
    ASSUME NEW p, NEW q, Len(p) \in Nat, Len(q) \in Nat, Extended(p, q),
           NEW b, NEW t, Owed(p, 1, b, t)
    PROVE  Owed(q, 1, b, t)
  <1>1. CASE b = t /\ Run(p, 1)
    BY <1>1, ExtendRun DEF Owed
  <1>2. CASE b = "none" /\ One(p, 1, t)
    <2>1. PICK i \in 1..Len(p) : /\ \A j \in 1..(i - 1) : Whole(p[j])
                                 /\ AckOf(p[i], t)
                                 /\ Run(p, i + 1)
      BY <1>2 DEF One
    <2>2. i \in 1..Len(q) /\ q[i] = p[i]
      BY DEF Extended
    <2>3. ASSUME NEW j \in 1..(i - 1) PROVE Whole(q[j])
      <3>1. j \in 1..Len(p)
        OBVIOUS
      <3> QED
        BY <2>1, <3>1 DEF Extended
    <2>4. Run(q, i + 1)
      BY <2>1, ExtendRun
    <2>5. One(q, 1, t)
      BY <2>1, <2>2, <2>3, <2>4 DEF One
    <2> QED
      BY <1>2, <2>5 DEF Owed
  <1> QED
    BY <1>1, <1>2 DEF Owed

(* The device's answer goes from the inbox into the pipe.                  *)
LEMMA ReplyOwed ==
    ASSUME NEW p, NEW q, Len(p) \in Nat, Len(q) \in Nat, NEW b, b # "none", Replied(p, q, b),
           NEW t, Owed(p, 1, b, t)
    PROVE  t = b /\ Owed(q, 1, "none", t)
  <1>1. t = b /\ Run(p, 1)
    BY DEF Owed
  <1>2. Len(p) + 1 \in 1..Len(q) /\ AckOf(q[Len(p) + 1], t)
    BY <1>1 DEF Replied
  <1>3. ASSUME NEW j \in 1..(Len(p) + 1 - 1) PROVE Whole(q[j])
    <2>1. j \in 1..Len(p)
      OBVIOUS
    <2> QED
      BY <1>1, <2>1 DEF Replied, Run
  <1>4. ASSUME NEW j \in (Len(p) + 1 + 1)..Len(q) PROVE Whole(q[j])
    <2>1. j = Len(p) + 2 /\ Len(q) = Len(p) + 2
      BY DEF Replied
    <2> QED
      BY <2>1 DEF Replied
  <1> QED
    BY <1>1, <1>2, <1>3, <1>4 DEF Owed, One, Run

----------------------------------------------------------------------------
(* Nothing is outstanding and no frame waits; nothing is outstanding; the  *)
(* last frame is an answer; the stream has stopped, or will with the RESET *)
(* in the inbox, and nothing comes behind the answer to it; nothing but    *)
(* that answer is outstanding.                                             *)
Still  == pipe = <<>> /\ Owing = "none" /\ ~streaming
Caught == Owing = "none" /\ Run(pipe, 1)
Closed == pipe = <<>> \/ IsAck(pipe[Len(pipe)])

ResetEnds == IF Owing = "none" THEN ~streaming /\ Closed ELSE inbox = DataMode("DATA_RESET")
ResetLast == Owed(pipe, 1, Owing, Cont) /\ ResetEnds

(* The next frame is the answer to the command of pc.                      *)
First ==
    \/ pipe = <<>> /\ ~streaming /\ inbox = Command(pc)
    \/ /\ Owing = "none" /\ Len(pipe) >= 1
       /\ AckOf(pipe[1], Command(pc).cmd)
       /\ Run(pipe, 2)
       /\ Command(pc).cmd # Cont => Len(pipe) = 1 /\ ~streaming

(* The stream has stopped and the next answer is not one to UNITS; the     *)
(* next answer is there and is not one to UNITS, so a command of that type *)
(* fails.                                                                  *)
NotUnits == pipe # <<>> => ~AckOf(pipe[1], "UNITS")
Cleared  == ResetEnds /\ NotUnits
Spoilt   == NotUnits /\ \E i \in 1..Len(pipe) : IsAck(pipe[i])

AckLabels   == {"su_bore", "su_map", "su_quat", "su_hemi", "sv_euler", "sv_bore", "sv_quat",
                "cal_zero", "cal_quat"}
ContLabels  == {"su_cont", "cal_cont"}
ClearLabels == {"su_reset", "sv_reset"}
WaitLabels  == {"sv_first", "sv_wait"}
StopLabels  == {"cal_save", "cal_dump"}
StepLabels  == AckLabels \cup ContLabels \cup ClearLabels \cup WaitLabels \cup StopLabels
                  \cup {"sv_cont", "cal_reset", "cal_euler"}

AckCall ==
    \/ call = "send" /\ Still
    \/ call \in {"reply", "map"} /\ First
    \/ call = "done" /\ Still /\ ~Failed

ContCall ==
    \/ call = "send" /\ Still
    \/ call = "reply" /\ First
    \/ call = "done" /\ Caught /\ ~Failed

ClearCall ==
    \/ call = "send" /\ Caught
    \/ call = "clear" /\ ~Failed /\ (Still \/ (ResetLast /\ g_nrxcount >= FullSize))
    \/ call = "done" /\ ~Failed /\ Still

LastCall ==
    \/ call = "send" /\ Caught
    \/ call = "reply" /\ Owed(pipe, 1, Owing, Cont)
    \/ call = "done" /\ (Failed \/ Caught)

(* calibrate's RESET and EULER, whatever was outstanding before.           *)
StopCall ==
    \/ call = "send"
    \/ call = "clear" /\ ResetEnds /\ g_nrxcount >= 32
    \/ call = "done" /\ Cleared

EulerCall ==
    \/ call = "send" /\ Cleared
    \/ call = "reply" /\ (First \/ Spoilt)
    \/ call = "done" /\ (Failed \/ Still)

(* No frame is larger than the next read allows.                           *)
Roomy == call \in {"reply", "map", "pno"} => g_nrxcount >= FullSize

(* Where the driver is in step with the device, or gets back in step: what *)
(* it reads is the answer to the command it has just sent, or a PNO frame  *)
(* it asked for.                                                           *)
Orderly ==
    /\ pc \in AckLabels   => AckCall
    /\ pc \in ContLabels  => ContCall
    /\ pc \in ClearLabels => ClearCall
    /\ pc \in WaitLabels  => Caught
    /\ pc = "sv_cont"     => LastCall
    /\ pc = "cal_reset"   => StopCall
    /\ pc \in StopLabels  => Cleared
    /\ pc = "cal_euler"   => EulerCall
    /\ pc \in StepLabels  => Roomy

(* What holds of the pipe throughout: of the frames in it; of an answer to *)
(* a UNITS command; of the Euler angles in it, and in a frame that has been*)
(* read and is yet to be used; and, in the loop, that no station map is    *)
(* outstanding (answers are of one size then).                             *)
Kinds   == \A i \in 1..Len(pipe) : Whole(pipe[i]) \/ IsAck(pipe[i])
Paired  == /\ \A i \in 2..Len(pipe) : AckOf(pipe[i], "UNITS") => IsAck(pipe[i - 1])
           /\ Owing = "UNITS" => ~streaming /\ Closed
Timely  == \A i \in 1..Len(pipe) :
              IsPno(pipe[i]) /\ pipe[i].units = "euler" => EffUnits = "euler"
Mapless == Owing # "STATION_MAP" /\ \A i \in 1..Len(pipe) : ~AckOf(pipe[i], "STATION_MAP")
Using   == \/ pc \in {"lp_recv", "cal_first", "cal_wait"} /\ call = "done" /\ ~Failed
           \/ pc \in {"cal_reset", "cal_save"}
Used    == Using /\ pno.units = "euler" => EffUnits = "euler"

LInv == TInv /\ Calls /\ Frame /\ sensors = Stations
SInv == LInv /\ Orderly /\ Kinds /\ Paired /\ Timely /\ Used /\ (InLoop => Mapless)

----------------------------------------------------------------------------
(* Sizes: a PNO frame of all stations is larger than any answer and fits   *)
(* the buffer; without station maps all answers are of one size.           *)
LEMMA Sizes ==
    ASSUME SoundLink
    PROVE  /\ FullSize \in Nat /\ FullSize > 36 /\ FullSize <= VIPER_RX_BUF_SIZE
           /\ \A f \in Frames : Whole(f) => FrameSize(f) = FullSize
           /\ \A f \in Frames : IsAck(f) => FrameSize(f) \in Nat /\ FrameSize(f) <= 36
           /\ \A f \in Frames : IsAck(f) /\ ~AckOf(f, "STATION_MAP") => FrameSize(f) = 32
           /\ \A f : Whole(f) => ~IsAck(f)
  <1>1. Cardinality(Stations) \in Nat /\ Cardinality(Stations) > 0
    BY FS_CardinalityType, FS_EmptySet DEF SoundLink
  <1>2. Cardinality(Stations) <= 16
    <2>0. 0 \in Int /\ 15 \in Int
      OBVIOUS
    <2>1. /\ IsFiniteSet(0..15)
          /\ Cardinality(0..15) = IF 0 > 15 THEN 0 ELSE 15 - 0 + 1
      BY <2>0, FS_Interval, Zenon
    <2>2. Cardinality(0..15) = 16
      BY <2>1
    <2>3. Cardinality(Stations) <= Cardinality(0..15)
      BY <2>1, FS_Subset
    <2> QED
      BY <1>1, <2>2, <2>3
  <1>3. FullSize = 28 + 32 * Cardinality(Stations)
    BY DEF FullSize, FrameSize, PnoFrame
  <1>4. \A f \in Frames : Whole(f) => FrameSize(f) = FullSize
    BY <1>3 DEF Whole, FrameSize, IsPno
  <1>5. \A f \in Frames : IsAck(f) => FrameSize(f) \in Nat /\ FrameSize(f) <= 36
    BY DEF IsAck, IsCmd, FrameSize
  <1>6. \A f \in Frames : IsAck(f) /\ ~AckOf(f, "STATION_MAP") => FrameSize(f) = 32
    BY DEF IsAck, IsCmd, AckOf, FrameSize
  <1>7. \A f : Whole(f) => ~IsAck(f)
    BY DEF Whole, IsPno, IsAck, IsCmd
  <1> QED
    BY <1>1, <1>2, <1>3, <1>4, <1>5, <1>6, <1>7 DEF VIPER_RX_BUF_SIZE

LEMMA OwingNone ==
    ASSUME TInv
    PROVE  /\ Owing \in CmdTypes \cup {"none"}
           /\ inbox = NoCommand <=> Owing = "none"
           /\ pipe \in Seq(Frames) /\ Len(pipe) \in Nat
  <1>1. inbox \in Commands \cup {NoCommand} /\ pipe \in Seq(Frames)
    BY DEF TInv, TypeOK, DeviceTypeOK
  <1>2. NoCommand.cmd = "none" /\ "none" \notin CmdTypes
    BY DEF NoCommand, CmdTypes
  <1>3. \A c \in Commands : c.cmd \in CmdTypes
    BY DEF Commands
  <1> QED
    BY <1>1, <1>2, <1>3 DEF Owing

LEMMA OneMore ==
    ASSUME NEW p \in Seq(Frames), NEW f \in Frames
    PROVE  /\ Append(p, f) \in Seq(Frames) /\ p \o <<f>> = Append(p, f)
           /\ Len(Append(p, f)) = Len(p) + 1
           /\ \A i \in 1..Len(p) : Append(p, f)[i] = p[i]
           /\ Append(p, f)[Len(p) + 1] = f
  OBVIOUS

Both(p, f, g) == (p \o <<f>>) \o <<g>>

LEMMA TwoMore ==
    ASSUME NEW p \in Seq(Frames), NEW f \in Frames, NEW g \in Frames
    PROVE  /\ Len(Both(p, f, g)) = Len(p) + 2
           /\ \A i \in 1..Len(p) : Both(p, f, g)[i] = p[i]
           /\ Both(p, f, g)[Len(p) + 1] = f /\ Both(p, f, g)[Len(p) + 2] = g
  <1> DEFINE q == p \o <<f>>
  <1>1. /\ q \in Seq(Frames) /\ Len(q) = Len(p) + 1 /\ q[Len(p) + 1] = f
        /\ \A i \in 1..Len(p) : q[i] = p[i]
    BY OneMore
  <1> HIDE DEF q
  <1>2. /\ Len(q \o <<g>>) = Len(q) + 1 /\ (q \o <<g>>)[Len(q) + 1] = g
        /\ \A i \in 1..Len(q) : (q \o <<g>>)[i] = q[i]
    BY <1>1, OneMore
  <1>3. Len(p) \in Nat
    OBVIOUS
  <1>4. \A i \in 1..Len(p) : i \in 1..Len(q)
    BY <1>1, <1>3
  <1>5. Len(p) + 1 \in 1..Len(q)
    BY <1>1, <1>3
  <1>6. \A i \in 1..Len(p) : (q \o <<g>>)[i] = p[i]
    BY <1>1, <1>2, <1>4
  <1>7. Len(q \o <<g>>) = Len(p) + 2 /\ (q \o <<g>>)[Len(p) + 2] = g
    BY <1>1, <1>2, <1>3
  <1>8. (q \o <<g>>)[Len(p) + 1] = f
    BY <1>1, <1>2, <1>5
  <1> QED
    BY <1>6, <1>7, <1>8 DEF q, Both

(* What the device can do: stream one more PNO frame, or take the command  *)
(* in the inbox and answer it.                                             *)
Streams == /\ streaming /\ Extended(pipe, pipe')
           /\ UNCHANGED <<inbox, streaming, units>>

Answers1 ==
    /\ Owing # "none" /\ Owing' = "none"
    /\ Replied(pipe, pipe', Owing)
    /\ Owing # "SINGLE_PNO" => Len(pipe') = Len(pipe) + 1
    /\ streaming' \in StreamingAfter(inbox)
    /\ units' = UnitsAfter(inbox)

LEMMA DeviceMoves ==
    ASSUME SoundLink, LInv, DeviceNext
    PROVE  /\ UNCHANGED <<linkVars, appVars, sensors>>
           /\ Streams \/ Answers1
           /\ \A i \in 1..Len(pipe') : \/ i \in 1..Len(pipe) /\ pipe'[i] = pipe[i]
                                       \/ IsPno(pipe'[i]) => pipe'[i].units = units
           /\ Len(pipe') \in Nat
  <1>0. /\ TInv /\ sensors = Stations
        /\ pipe \in Seq(Frames) /\ Len(pipe) \in Nat /\ inbox \in Commands \cup {NoCommand}
        /\ units \in OriUnits
    BY OwingNone DEF LInv, TInv, TypeOK, DeviceTypeOK
  <1>a. DeviceStep
    BY DEF DeviceNext, DeviceRefuse, SensorChange, Fault, SoundLink
  <1>1. UNCHANGED <<linkVars, appVars, sensors>>
    BY <1>a DEF DeviceNext, DeviceStep, DeviceExecute, DeviceStream
  <1> DEFINE f == PnoFrame(units, sensors)
             r == Reply(inbox, "ACK", sensors)
  <1>2. f \in Frames /\ Whole(f) /\ IsPno(f) /\ f.units = units
    BY <1>0, PnoIsFrame DEF PnoFrame, Whole, IsPno
  <1>3. inbox # NoCommand => r \in Frames /\ AckOf(r, Owing) /\ ~IsPno(r)
    BY <1>0, ReplyIsFrame DEF Reply, AckOf, IsAck, IsCmd, Owing, IsPno
  <1> HIDE DEF f, r
  <1>4. CASE DeviceStream
    <2>1. pipe' = Append(pipe, f) /\ streaming
          /\ UNCHANGED <<inbox, streaming, units>>
      BY <1>4 DEF DeviceStream, f
    <2>2. /\ Len(pipe') = Len(pipe) + 1
          /\ \A i \in 1..Len(pipe) : pipe'[i] = pipe[i]
          /\ pipe'[Len(pipe) + 1] = f
      BY <1>0, <1>2, <2>1, OneMore
    <2>3. Streams
      BY <1>2, <2>1, <2>2 DEF Streams, Extended
    <2>4. \A i \in 1..Len(pipe') : i \in 1..Len(pipe) \/ i = Len(pipe) + 1
      BY <1>0, <2>2
    <2> QED
      BY <1>0, <1>1, <1>2, <2>2, <2>3, <2>4
  <1>5. CASE DeviceExecute
    <2>1. /\ inbox # NoCommand /\ inbox' = NoCommand
          /\ streaming' \in StreamingAfter(inbox) /\ units' = UnitsAfter(inbox)
          /\ pipe' = IF Owing = "SINGLE_PNO" THEN (pipe \o <<r>>) \o <<f>> ELSE (pipe \o <<r>>) \o <<>>
      BY <1>5 DEF DeviceExecute, f, r, Owing
    <2>2. Owing # "none" /\ Owing' = "none"
      BY <1>0, <2>1, OwingNone DEF Owing, NoCommand
    <2>3. r \in Frames /\ AckOf(r, Owing) /\ ~IsPno(r)
      BY <1>3, <2>1
    <2>4. CASE Owing = "SINGLE_PNO"
      <3>0. pipe' = Both(pipe, r, f)
        BY <2>1, <2>4, Zenon DEF Both
      <3>5. pipe \in Seq(Frames) /\ r \in Frames /\ f \in Frames
        BY <1>0, <1>2, <2>3
      <3>1. /\ Len(pipe') = Len(pipe) + 2
            /\ \A i \in 1..Len(pipe) : pipe'[i] = pipe[i]
            /\ pipe'[Len(pipe) + 1] = r /\ pipe'[Len(pipe) + 2] = f
        BY <3>0, <3>5, TwoMore
      <3>2. Answers1
        BY <1>0, <1>2, <2>1, <2>2, <2>3, <2>4, <3>1 DEF Answers1, Replied
      <3>3. \A i \in 1..Len(pipe') : i \in 1..Len(pipe) \/ i = Len(pipe) + 1 \/ i = Len(pipe) + 2
        BY <1>0, <3>1
      <3>4. \A i \in 1..Len(pipe') : \/ i \in 1..Len(pipe) /\ pipe'[i] = pipe[i]
                                     \/ IsPno(pipe'[i]) => pipe'[i].units = units
        BY <1>2, <2>3, <3>1, <3>3, Zenon
      <3>6. Len(pipe') \in Nat
        BY <1>0, <3>1
      <3> QED
        BY <1>1, <3>2, <3>4, <3>6, Zenon
    <2>5. CASE Owing # "SINGLE_PNO"
      <3>0. pipe' = Append(pipe, r)
        BY <1>0, <2>1, <2>3, <2>5, OneMore
      <3>1. /\ Len(pipe') = Len(pipe) + 1
            /\ \A i \in 1..Len(pipe) : pipe'[i] = pipe[i]
            /\ pipe'[Len(pipe) + 1] = r
        BY <1>0, <2>3, <3>0, OneMore
      <3>2. Answers1
        BY <1>0, <2>1, <2>2, <2>3, <2>5, <3>1 DEF Answers1, Replied
      <3>3. \A i \in 1..Len(pipe') : i \in 1..Len(pipe) \/ i = Len(pipe) + 1
        BY <1>0, <3>1
      <3>4. \A i \in 1..Len(pipe') : \/ i \in 1..Len(pipe) /\ pipe'[i] = pipe[i]
                                     \/ ~IsPno(pipe'[i])
        BY <2>3, <3>1, <3>3, Zenon
      <3>5. Len(pipe') \in Nat
        BY <1>0, <3>1
      <3> QED
        BY <1>1, <3>2, <3>4, <3>5, Zenon
    <2> QED
      BY <2>4, <2>5
  <1> QED
    BY <1>a, <1>4, <1>5 DEF DeviceStep

LEMMA CommandStands ==
    ASSUME UNCHANGED <<pc, station_id, client>> PROVE Command(pc)' = Command(pc)
  BY DEF Command, DataMode, ResetBoresight, RequestNumOfStations, DefineDataType, SetHemisphere,
         SetBoresight, SetSource, NoCommand, Fill

(* Neither move changes what is outstanding, nor what will hold.           *)
LEMMA MovesKeepOwed ==
    ASSUME TInv, Len(pipe') \in Nat, Streams \/ Answers1
    PROVE  /\ Caught => Caught'
           /\ Owed(pipe, 1, Owing, Cont) => Owed(pipe', 1, Owing', Cont)
           /\ EffUnits' = EffUnits
  <1>1. Len(pipe) \in Nat
    BY OwingNone
  <1>2. CASE Streams
    <2>1. Extended(pipe, pipe') /\ Owing' = Owing /\ EffUnits' = EffUnits
      BY <1>2 DEF Streams, Owing, EffUnits, UnitsAfter
    <2> QED
      BY <1>1, <2>1, ExtendRun, ExtendOwed DEF Caught
  <1>3. CASE Answers1
    <2>1. Owing # "none" /\ Owing' = "none" /\ Replied(pipe, pipe', Owing)
      BY <1>3 DEF Answers1
    <2>2. EffUnits' = EffUnits
      BY <1>3, <2>1 DEF Answers1, EffUnits, UnitsAfter, Owing
    <2> QED
      BY <1>1, <2>1, <2>2, ReplyOwed DEF Caught
  <1> QED
    BY <1>2, <1>3

LEMMA ResetCommand ==
    /\ DataMode("DATA_RESET").cmd = Cont /\ DataMode("DATA_RESET").action = "RESET"
    /\ DataMode("DATA_RESET")' = DataMode("DATA_RESET")
  BY DEF DataMode, Fill, Cont, AllStations, NoMap

LEMMA MovesKeepResetEnds ==
    ASSUME TInv, Len(pipe') \in Nat, Streams \/ Answers1, ResetEnds
    PROVE  ResetEnds'
  <1>1. CASE Streams
    BY <1>1, ResetCommand DEF Streams, ResetEnds, Owing
  <1>2. CASE Answers1
    <2>1. inbox = DataMode("DATA_RESET")
      BY <1>2 DEF Answers1, ResetEnds
    <2>2. streaming' = FALSE /\ Owing' = "none" /\ Len(pipe') = Len(pipe) + 1
      BY <1>2, <2>1, ResetCommand DEF Answers1, StreamingAfter, Owing, Cont
    <2>3. IsAck(pipe'[Len(pipe')])
      BY <1>2, <2>2 DEF Answers1, Replied, AckOf
    <2> QED
      BY <2>2, <2>3 DEF ResetEnds, Closed
  <1> QED
    BY <1>1, <1>2

LEMMA MovesKeepFirst ==
    ASSUME TInv, Len(pipe') \in Nat, Streams \/ Answers1, UNCHANGED <<pc, station_id, client>>,
           Command(pc).cmd # "SINGLE_PNO", First
    PROVE  First'
  <1>0. Len(pipe) \in Nat /\ Command(pc)' = Command(pc)
    BY OwingNone, CommandStands
  <1>1. CASE pipe = <<>> /\ ~streaming /\ inbox = Command(pc)
    <2>1. Answers1
      BY <1>1 DEF Streams
    <2>2. Owing = Command(pc).cmd /\ Len(pipe) = 0 /\ Owing' = "none"
      BY <1>1, <2>1 DEF Owing, Answers1
    <2>3. Len(pipe') = 1 /\ AckOf(pipe'[1], Owing)
      BY <1>0, <2>1, <2>2 DEF Answers1, Replied
    <2>4. Run(pipe', 2)
      BY <2>3 DEF Run
    <2>5. Command(pc).cmd # Cont => ~streaming'
      BY <1>1, <2>1, <2>2 DEF Answers1, StreamingAfter, Owing, Cont
    <2> QED
      BY <1>0, <2>2, <2>3, <2>4, <2>5 DEF First
  <1>2. CASE ~(pipe = <<>> /\ ~streaming /\ inbox = Command(pc))
    <2>1. /\ Owing = "none" /\ Len(pipe) >= 1
          /\ AckOf(pipe[1], Command(pc).cmd)
          /\ Run(pipe, 2)
          /\ Command(pc).cmd # Cont => Len(pipe) = 1 /\ ~streaming
      BY <1>2 DEF First
    <2>2. Extended(pipe, pipe') /\ Owing' = Owing /\ streaming
      BY <2>1 DEF Answers1, Streams, Owing
    <2>3. Run(pipe', 2)
      BY <1>0, <2>1, <2>2, ExtendRun
    <2>4. pipe'[1] = pipe[1] /\ Len(pipe') >= 1
      BY <1>0, <2>1, <2>2 DEF Extended
    <2>5. Command(pc).cmd = Cont
      BY <2>1, <2>2
    <2> QED
      BY <1>0, <2>1, <2>2, <2>3, <2>4, <2>5 DEF First
  <1> QED
    BY <1>1, <1>2

(* The pipe keeps what holds of it throughout.                             *)
LEMMA NewFrames ==
    ASSUME TInv, Len(pipe') \in Nat, Streams \/ Answers1
    PROVE  /\ Len(pipe) \in Nat
           /\ \A i \in 1..Len(pipe) : i \in 1..Len(pipe') /\ pipe'[i] = pipe[i]
           /\ \A i \in 1..Len(pipe') :
                 \/ i \in 1..Len(pipe)
                 \/ Whole(pipe'[i])
                 \/ i = Len(pipe) + 1 /\ Answers1 /\ AckOf(pipe'[i], Owing)
           /\ Answers1 /\ Owing = "UNITS" => Len(pipe') = Len(pipe) + 1
  <1>1. Len(pipe) \in Nat
    BY OwingNone
  <1>2. CASE Streams
    <2>1. Extended(pipe, pipe')
      BY <1>2 DEF Streams
    <2>2. \A i \in 1..Len(pipe') : i \in 1..Len(pipe) \/ i = Len(pipe')
      BY <1>1, <2>1 DEF Extended
    <2>3. ~Answers1
      BY <1>2 DEF Streams, Answers1, Owing
    <2> QED
      BY <1>1, <2>1, <2>2, <2>3 DEF Extended
  <1>3. CASE Answers1
    <2>1. Replied(pipe, pipe', Owing)
      BY <1>3 DEF Answers1
    <2>2. \A i \in 1..Len(pipe') : \/ i \in 1..Len(pipe) \/ i = Len(pipe) + 1
                                   \/ i = Len(pipe) + 2 /\ Len(pipe') = Len(pipe) + 2
      BY <1>1, <2>1 DEF Replied
    <2>3. Owing = "UNITS" => Len(pipe') = Len(pipe) + 1
      BY <1>3 DEF Answers1
    <2> QED
      BY <1>1, <1>3, <2>1, <2>2, <2>3 DEF Replied
  <1> QED
    BY <1>2, <1>3

LEMMA MovesKeepPipe ==
    ASSUME SoundLink, LInv, Kinds, Paired, Timely, DeviceNext
    PROVE  /\ Kinds' /\ Paired' /\ Timely'
           /\ Mapless => Mapless'
           /\ Spoilt => Spoilt'
           /\ Cleared => Cleared'
  <1>1. /\ TInv /\ Len(pipe') \in Nat
        /\ Streams \/ Answers1
        /\ \A i \in 1..Len(pipe') : \/ i \in 1..Len(pipe) /\ pipe'[i] = pipe[i]
                                    \/ IsPno(pipe'[i]) => pipe'[i].units = units
    BY DeviceMoves DEF LInv
  <1>2. /\ Len(pipe) \in Nat
        /\ \A i \in 1..Len(pipe) : i \in 1..Len(pipe') /\ pipe'[i] = pipe[i]
        /\ \A i \in 1..Len(pipe') :
              \/ i \in 1..Len(pipe)
              \/ Whole(pipe'[i])
              \/ i = Len(pipe) + 1 /\ Answers1 /\ AckOf(pipe'[i], Owing)
        /\ Answers1 /\ Owing = "UNITS" => Len(pipe') = Len(pipe) + 1
    BY <1>1, NewFrames, Zenon
  <1>3. \A f : Whole(f) => IsPno(f) /\ ~IsAck(f) /\ \A t : ~AckOf(f, t)
    BY Sizes DEF Whole, AckOf
  <1>4. Owing' = Owing \/ Owing' = "none"
    BY <1>1 DEF Streams, Answers1, Owing
  <1>5. Kinds'
    BY <1>2 DEF Kinds, AckOf
  <1>6. Paired'
    <2>1. ASSUME NEW i \in 2..Len(pipe'), AckOf(pipe'[i], "UNITS") PROVE IsAck(pipe'[i - 1])
      <3>1. i \in 1..Len(pipe') /\ ~Whole(pipe'[i])
        BY <1>1, <1>3, <2>1
      <3>2. CASE i \in 1..Len(pipe)
        <4>1. i \in 2..Len(pipe) /\ i - 1 \in 1..Len(pipe) /\ AckOf(pipe[i], "UNITS")
          BY <1>2, <2>1, <3>2
        <4> QED
          BY <1>2, <4>1 DEF Paired
      <3>3. CASE i = Len(pipe) + 1 /\ Answers1 /\ AckOf(pipe'[i], Owing)
        <4>1. Owing = "UNITS" /\ Len(pipe) \in 1..Len(pipe) /\ pipe # <<>> /\ i - 1 = Len(pipe)
          BY <1>2, <2>1, <3>3 DEF AckOf
        <4> QED
          BY <1>2, <4>1 DEF Paired, Closed
      <3> QED
        BY <1>2, <3>1, <3>2, <3>3
    <2>2. Owing' = "UNITS" => Owing = "UNITS" /\ ~streaming /\ Closed /\ ~Answers1
      BY <1>4 DEF Paired, Answers1
    <2>3. Owing' # "UNITS"
      BY <1>1, <2>2 DEF Streams
    <2> QED
      BY <2>1, <2>3 DEF Paired
  <1>7. Timely'
    <2>1. EffUnits' = EffUnits
      BY <1>1, MovesKeepOwed
    <2>2. ASSUME NEW i \in 1..Len(pipe'), IsPno(pipe'[i]), pipe'[i].units = "euler"
          PROVE  EffUnits = "euler"
      <3>1. CASE i \in 1..Len(pipe)
        BY <1>2, <2>2, <3>1 DEF Timely
      <3>2. CASE i \notin 1..Len(pipe)
        <4>1. units = "euler"
          BY <1>1, <2>2, <3>2
        <4>2. Owing # "UNITS"
          <5>1. CASE Streams
            BY <5>1 DEF Streams, Paired
          <5>2. CASE Answers1
            <6>1. ~IsAck(pipe'[i])
              BY <2>2 DEF IsPno, IsAck, IsCmd
            <6>2. i # Len(pipe) + 1
              BY <1>2, <5>2, <6>1 DEF Answers1, Replied, AckOf
            <6> QED
              BY <1>1, <1>2, <3>2, <5>2, <6>2
          <5> QED
            BY <1>1, <5>1, <5>2
        <4> QED
          BY <4>1, <4>2 DEF EffUnits, UnitsAfter, Owing
      <3> QED
        BY <3>1, <3>2
    <2> QED
      BY <2>1, <2>2 DEF Timely
  <1>8. ASSUME Mapless PROVE Mapless'
    <2>1. ASSUME NEW i \in 1..Len(pipe') PROVE ~AckOf(pipe'[i], "STATION_MAP")
      <3>1. CASE i \in 1..Len(pipe)
        BY <1>2, <1>8, <3>1 DEF Mapless
      <3>2. CASE Whole(pipe'[i])
        BY <1>3, <3>2
      <3>3. CASE AckOf(pipe'[i], Owing)
        BY <1>8, <3>3 DEF AckOf, Mapless
      <3> QED
        BY <1>2, <3>1, <3>2, <3>3
    <2> QED
      BY <1>4, <1>8, <2>1 DEF Mapless
  <1>9. ASSUME Spoilt PROVE Spoilt'
    <2>1. PICK i \in 1..Len(pipe) : IsAck(pipe[i])
      BY <1>9 DEF Spoilt
    <2>2. 1 \in 1..Len(pipe) /\ pipe # <<>>
      BY <1>2, <2>1
    <2>3. pipe'[1] = pipe[1] /\ pipe'[i] = pipe[i] /\ i \in 1..Len(pipe')
      BY <1>2, <2>1, <2>2
    <2> QED
      BY <1>9, <2>1, <2>2, <2>3 DEF Spoilt, NotUnits, AckOf
  <1>10. ASSUME Cleared PROVE Cleared'
    <2>1. ResetEnds'
      BY <1>1, <1>10, MovesKeepResetEnds DEF Cleared
    <2>2. CASE pipe # <<>>
      <3>1. 1 \in 1..Len(pipe)
        BY <1>2, <2>2
      <3>2. pipe'[1] = pipe[1]
        BY <1>2, <3>1
      <3> QED
        BY <1>10, <2>1, <2>2, <3>2 DEF Cleared, NotUnits, AckOf
    <2>3. CASE pipe = <<>>
      <3>1. Owing # "UNITS"
        <4>1. Owing = "none" \/ Owing = Cont
          BY <1>10, ResetCommand DEF Cleared, ResetEnds, Owing
        <4> QED
          BY <4>1 DEF Cont
      <3>2. pipe' # <<>> => 1 \in 1..Len(pipe')
        BY <1>1
      <3>3. 1 \notin 1..Len(pipe)
        BY <2>3
      <3>4. pipe' # <<>> => ~AckOf(pipe'[1], "UNITS")
        BY <1>2, <1>3, <3>1, <3>2, <3>3 DEF AckOf
      <3> QED
        BY <2>1, <3>4 DEF Cleared, NotUnits
    <2> QED
      BY <2>2, <2>3
  <1> QED
    BY <1>5, <1>6, <1>7, <1>8, <1>9, <1>10

(* The commands of the labels.                                             *)
UnitsLabels == {"su_quat", "sv_euler", "sv_quat", "cal_euler", "cal_quat"}

LEMMA OrderCommands ==
    /\ pc \in AckLabels =>
          /\ Command(pc).cmd \notin {"none", "CONTINUOUS_PNO", "SINGLE_PNO"}
          /\ Command(pc) # DataMode("DATA_RESET") /\ Command(pc) # NoCommand
          /\ Command(pc) = RequestNumOfStations <=> pc = "su_map"
    /\ pc \in ContLabels \cup {"sv_cont"} =>
          Command(pc) = DataMode("DATA_CONTINUOUS")
    /\ pc \in ClearLabels \cup {"cal_reset"} => Command(pc) = DataMode("DATA_RESET")
    /\ pc \in {"su_quat", "sv_quat", "cal_quat"} => Command(pc) = DefineDataType("quat")
    /\ pc \in {"sv_euler", "cal_euler"} => Command(pc) = DefineDataType("euler")
    /\ pc \notin UnitsLabels => Command(pc).cmd # "UNITS"
    /\ pc # "su_map" => Command(pc).cmd # "STATION_MAP"
    /\ \A u : DefineDataType(u).cmd = "UNITS" /\ DefineDataType(u).cfg = u
    /\ DataMode("DATA_RESET").cmd = Cont /\ DataMode("DATA_CONTINUOUS").cmd = Cont
    /\ DataMode("DATA_RESET") # DataMode("DATA_CONTINUOUS")
    /\ RequestNumOfStations.cmd = "STATION_MAP"
  <1> USE DEF Command, DataMode, Fill
  <1>1. /\ DataMode("DATA_RESET").cmd = Cont /\ DataMode("DATA_CONTINUOUS").cmd = Cont
        /\ DataMode("DATA_RESET") # DataMode("DATA_CONTINUOUS")
    BY DEF Cont
  <1>2. RequestNumOfStations.cmd = "STATION_MAP"
    BY DEF RequestNumOfStations
  <1>3. pc \in {"su_bore"} => Command(pc).cmd = "BORESIGHT"
    BY DEF ResetBoresight
  <1>4. pc \in {"sv_bore", "cal_zero"} => Command(pc).cmd = "BORESIGHT"
    BY DEF SetBoresight
  <1>5. pc \in {"su_quat", "sv_quat", "cal_quat", "sv_euler", "cal_euler"} => Command(pc).cmd = "UNITS"
    BY DEF DefineDataType
  <1>6. pc = "su_hemi" => Command(pc).cmd = "HEMISPHERE"
    BY DEF SetHemisphere
  <1>7. pc = "su_map" => Command(pc) = RequestNumOfStations
    OBVIOUS
  <1>8. pc \in AckLabels => \/ pc = "su_map" /\ Command(pc) = RequestNumOfStations
                            \/ pc # "su_map" /\ Command(pc).cmd \in {"BORESIGHT", "UNITS", "HEMISPHERE"}
    BY <1>3, <1>4, <1>5, <1>6, <1>7 DEF AckLabels
  <1>9. pc \in AckLabels =>
           /\ Command(pc).cmd \notin {"none", "CONTINUOUS_PNO", "SINGLE_PNO"}
           /\ Command(pc) # DataMode("DATA_RESET") /\ Command(pc) # NoCommand
           /\ Command(pc) = RequestNumOfStations <=> pc = "su_map"
    <2> HIDE DEF Command, DataMode, Fill
    <2>1. NoCommand.cmd = "none"
      BY DEF NoCommand
    <2> QED
      BY <1>1, <1>2, <1>8, <2>1 DEF Cont
  <1>10. pc \in ContLabels \cup {"sv_cont"} => Command(pc) = DataMode("DATA_CONTINUOUS")
    BY DEF ContLabels
  <1>11. pc \in ClearLabels \cup {"cal_reset"} => Command(pc) = DataMode("DATA_RESET")
    BY DEF ClearLabels
  <1>12. \A u : DefineDataType(u).cmd = "UNITS" /\ DefineDataType(u).cfg = u
    BY DEF DefineDataType
  <1>13. pc \notin UnitsLabels => Command(pc).cmd # "UNITS"
    BY DEF UnitsLabels, ResetBoresight, RequestNumOfStations, SetHemisphere, SetBoresight,
           SetSource, NoCommand
  <1>14. pc # "su_map" => Command(pc).cmd # "STATION_MAP"
    BY DEF ResetBoresight, DefineDataType, SetHemisphere, SetBoresight, SetSource, NoCommand
  <1>15. /\ pc \in {"su_quat", "sv_quat", "cal_quat"} => Command(pc) = DefineDataType("quat")
         /\ pc \in {"sv_euler", "cal_euler"} => Command(pc) = DefineDataType("euler")
    OBVIOUS
  <1> HIDE DEF Command, DataMode, Fill
  <1> QED
    BY <1>1, <1>2, <1>9, <1>10, <1>11, <1>12, <1>13, <1>14, <1>15

LEMMA OrderlyMoves ==
    ASSUME SoundLink, SInv, DeviceNext
    PROVE  Orderly' /\ Used'
  <1>1. /\ UNCHANGED <<linkVars, appVars>> /\ Len(pipe') \in Nat /\ TInv
        /\ Streams \/ Answers1
    BY DeviceMoves DEF SInv, LInv
  <1>2. /\ UNCHANGED <<pc, station_id, client, call, return_value, g_nrxcount, pno>>
        /\ Failed' = Failed
    BY <1>1 DEF linkVars, appVars, Failed
  <1>3. ~Still
    BY <1>1 DEF Still, Streams, Answers1
  <1>4. Caught => Caught'
    BY <1>1, MovesKeepOwed
  <1>5. Owed(pipe, 1, Owing, Cont) => Owed(pipe', 1, Owing', Cont)
    BY <1>1, MovesKeepOwed
  <1>6. (ResetEnds => ResetEnds') /\ (ResetLast => ResetLast')
    BY <1>1, <1>5, MovesKeepResetEnds DEF ResetLast
  <1>7. pc \in AckLabels \cup ContLabels \cup {"cal_euler"} /\ First => First'
    <2>1. pc \in AckLabels \cup ContLabels \cup {"cal_euler"} => Command(pc).cmd # "SINGLE_PNO"
      BY OrderCommands DEF Cont
    <2> QED
      BY <1>1, <1>2, <2>1, MovesKeepFirst
  <1>8. (Spoilt => Spoilt') /\ (Cleared => Cleared')
    BY MovesKeepPipe DEF SInv
  <1>9. (pc \in AckLabels => AckCall') /\ (pc \in ContLabels => ContCall')
    BY <1>2, <1>3, <1>4, <1>7 DEF SInv, Orderly, AckCall, ContCall
  <1>10. (pc \in ClearLabels => ClearCall') /\ (pc = "sv_cont" => LastCall')
    BY <1>2, <1>3, <1>4, <1>5, <1>6 DEF SInv, Orderly, ClearCall, LastCall
  <1>11. (pc = "cal_reset" => StopCall') /\ (pc \in StopLabels => Cleared')
    BY <1>2, <1>6, <1>8 DEF SInv, Orderly, StopCall
  <1>12. pc = "cal_euler" => EulerCall'
    BY <1>2, <1>3, <1>7, <1>8 DEF SInv, Orderly, EulerCall
  <1>13. Roomy => Roomy'
    BY <1>2 DEF Roomy
  <1>14. Orderly'
    BY <1>2, <1>4, <1>9, <1>10, <1>11, <1>12, <1>13 DEF SInv, Orderly
  <1>15. Used'
    BY <1>1, <1>2, MovesKeepOwed DEF SInv, Used, Using
  <1> QED
    BY <1>14, <1>15


----------------------------------------------------------------------------
(* A write: the device has taken the command before it.                    *)
WriteMove == WriteOk(Command(pc)) /\ UNCHANGED appVars

LEMMA WriteMoves ==
    ASSUME SoundLink, LInv, WriteMove
    PROVE  /\ call = "send" /\ pc \in SendLabels
           /\ Owing = "none" /\ inbox' = Command(pc) /\ Owing' = Command(pc).cmd
           /\ UNCHANGED <<pipe, streaming, units, sensors, pno, pc, client, station_id, params,
                          store, layers>>
           /\ Command(pc)' = Command(pc)
           /\ ~Failed'
           /\ Command(pc) = DataMode("DATA_RESET") =>
                 call' = "clear" /\ g_nrxcount' >= FullSize /\ g_nrxcount' >= 32
           /\ Command(pc) # DataMode("DATA_RESET") =>
                 /\ call' = IF Command(pc) = RequestNumOfStations THEN "map" ELSE "reply"
                 /\ g_nrxcount' >= FullSize
           /\ Len(pipe) \in Nat
  <1>1. call = "send" /\ inbox = NoCommand /\ inbox' = Command(pc)
    BY DEF WriteMove, WriteOk
  <1>2. pc \in SendLabels
    BY <1>1 DEF LInv, Calls
  <1>3. UNCHANGED <<pipe, streaming, units, sensors, pno, pc, client, station_id, params, store,
                    layers>>
    BY DEF WriteMove, WriteOk, UnchangedByWrite, appVars
  <1>4. Command(pc)' = Command(pc)
    BY <1>3, CommandStands
  <1>5. Len(pipe) \in Nat /\ Owing = "none" /\ Owing' = Command(pc).cmd
    BY <1>1, OwingNone DEF LInv, Owing, NoCommand
  <1>6. AfterWrite(Command(pc), 0)
    BY DEF WriteMove, WriteOk
  <1>7. ~Failed'
    BY <1>6 DEF AfterWrite, Failed, RETURN_ERROR
  <1>8. VIPER_RX_BUF_SIZE >= FullSize /\ VIPER_RX_BUF_SIZE >= 32 /\ 0 # RETURN_ERROR
    BY Sizes DEF VIPER_RX_BUF_SIZE, RETURN_ERROR
  <1>9. Command(pc) = DataMode("DATA_RESET") => call' = "clear" /\ g_nrxcount' = VIPER_RX_BUF_SIZE
    BY <1>6 DEF AfterWrite
  <1>10. Command(pc) # DataMode("DATA_RESET") =>
            /\ call' = IF Command(pc) = RequestNumOfStations THEN "map" ELSE "reply"
            /\ g_nrxcount' = VIPER_RX_BUF_SIZE
    BY <1>6, <1>8 DEF AfterWrite
  <1> QED
    BY <1>1, <1>2, <1>3, <1>4, <1>5, <1>7, <1>8, <1>9, <1>10

LEMMA NotSending ==
    /\ WaitLabels \cap SendLabels = {} /\ StopLabels \cap SendLabels = {}
    /\ {"lp_recv", "cal_first", "cal_wait"} \cap SendLabels = {}
    /\ StopLabels \cap PnoLabels = {}
  BY DEF WaitLabels, StopLabels, SendLabels, PnoLabels

LEMMA RoomStays == FullSize' = FullSize
  BY DEF FullSize, FrameSize, PnoFrame

LEMMA OrderlyWrites ==
    ASSUME SoundLink, SInv, WriteMove
    PROVE  Orderly'
  <1>0. LInv /\ Orderly
    BY DEF SInv
  <1>1. /\ call = "send" /\ pc \in SendLabels
        /\ Owing = "none" /\ inbox' = Command(pc) /\ Owing' = Command(pc).cmd
        /\ pipe' = pipe /\ streaming' = streaming /\ pc' = pc
        /\ Command(pc)' = Command(pc)
        /\ ~Failed' /\ Len(pipe) \in Nat
        /\ Command(pc) = DataMode("DATA_RESET") =>
              call' = "clear" /\ g_nrxcount' >= FullSize /\ g_nrxcount' >= 32
        /\ Command(pc) # DataMode("DATA_RESET") =>
              /\ call' = IF Command(pc) = RequestNumOfStations THEN "map" ELSE "reply"
              /\ g_nrxcount' >= FullSize
    BY <1>0, WriteMoves
  <1>2. FullSize' = FullSize
    BY RoomStays
  <1>3. ASSUME pc \in AckLabels PROVE AckCall'
    <2>1. Still
      BY <1>0, <1>1, <1>3 DEF Orderly, AckCall
    <2>2. First'
      BY <1>1, <2>1 DEF First, Still
    <2>3. call' \in {"reply", "map"}
      BY <1>1, <1>3, OrderCommands
    <2> QED
      BY <2>2, <2>3 DEF AckCall
  <1>4. Command(pc) = DataMode("DATA_CONTINUOUS") =>
           call' = "reply" /\ Command(pc).cmd = Cont
    <2>1. /\ DataMode("DATA_RESET") # DataMode("DATA_CONTINUOUS")
          /\ DataMode("DATA_CONTINUOUS").cmd = Cont /\ RequestNumOfStations.cmd # Cont
      BY OrderCommands DEF Cont
    <2> QED
      BY <1>1, <2>1
  <1>5. ASSUME pc \in ContLabels PROVE ContCall'
    <2>1. Still
      BY <1>0, <1>1, <1>5 DEF Orderly, ContCall
    <2>2. First'
      BY <1>1, <2>1 DEF First, Still
    <2>3. call' = "reply"
      BY <1>4, <1>5, OrderCommands
    <2> QED
      BY <2>2, <2>3 DEF ContCall
  <1>6. Command(pc) = DataMode("DATA_RESET") => ResetEnds' /\ Owing' = Cont
    <2>1. Command(pc) = DataMode("DATA_RESET") =>
             inbox' = DataMode("DATA_RESET")' /\ Owing' = Cont
      BY <1>1, ResetCommand
    <2>2. Cont # "none"
      BY DEF Cont
    <2> QED
      BY <2>1, <2>2 DEF ResetEnds
  <1>7. Caught /\ Owing' = Cont => Owed(pipe', 1, Owing', Cont)
    BY <1>1 DEF Caught, Owed
  <1>8. ASSUME pc \in ClearLabels PROVE ClearCall'
    <2>1. Caught
      BY <1>0, <1>1, <1>8 DEF Orderly, ClearCall
    <2>2. Command(pc) = DataMode("DATA_RESET")
      BY <1>8, OrderCommands
    <2>3. ResetLast'
      BY <1>6, <1>7, <2>1, <2>2 DEF ResetLast
    <2> QED
      BY <1>1, <1>2, <2>2, <2>3 DEF ClearCall
  <1>9. ASSUME pc = "sv_cont" PROVE LastCall'
    <2>1. Caught
      BY <1>0, <1>1, <1>9 DEF Orderly, LastCall
    <2>2. call' = "reply" /\ Command(pc).cmd = Cont
      BY <1>4, <1>9, OrderCommands
    <2>3. Owed(pipe', 1, Owing', Cont)
      BY <1>1, <1>7, <2>1, <2>2
    <2> QED
      BY <2>2, <2>3 DEF LastCall
  <1>10. ASSUME pc = "cal_reset" PROVE StopCall'
    <2>1. Command(pc) = DataMode("DATA_RESET")
      BY <1>10, OrderCommands
    <2> QED
      BY <1>1, <1>6, <2>1 DEF StopCall
  <1>11. ASSUME pc = "cal_euler" PROVE EulerCall'
    <2>1. ~streaming /\ Closed /\ NotUnits
      BY <1>0, <1>1, <1>11 DEF Orderly, EulerCall, Cleared, ResetEnds
    <2>2. Command(pc).cmd = "UNITS" /\ Command(pc) = DefineDataType("euler")
      BY <1>11, OrderCommands
    <2>3. call' = "reply"
      BY <1>1, <2>2, OrderCommands DEF Cont
    <2>4. CASE pipe = <<>>
      BY <1>1, <2>1, <2>3, <2>4 DEF First, EulerCall
    <2>5. CASE pipe # <<>>
      <3>1. IsAck(pipe'[Len(pipe')]) /\ Len(pipe') \in 1..Len(pipe')
        BY <1>1, <2>1, <2>5 DEF Closed
      <3>2. NotUnits'
        BY <1>1, <2>1 DEF NotUnits
      <3> QED
        BY <2>3, <3>1, <3>2 DEF EulerCall, Spoilt
    <2> QED
      BY <2>4, <2>5
  <1>12. pc \notin WaitLabels \cup StopLabels
    BY <1>1, NotSending
  <1>13. Roomy'
    BY <1>1, <1>2 DEF Roomy
  <1> QED
    BY <1>1, <1>3, <1>5, <1>8, <1>9, <1>10, <1>11, <1>12, <1>13 DEF Orderly

(* A command that sets the units is written only when the stream has       *)
(* stopped, and QUATERNION only when nothing is in the pipe.               *)
LEMMA PipeWrites ==
    ASSUME SoundLink, SInv, WriteMove
    PROVE  Kinds' /\ Paired' /\ Timely' /\ Used' /\ (InLoop' => Mapless')
  <1>0. LInv /\ Orderly /\ Kinds /\ Paired /\ Timely /\ Used /\ (InLoop => Mapless)
    BY DEF SInv
  <1>1. /\ call = "send" /\ pc \in SendLabels
        /\ Owing = "none" /\ inbox' = Command(pc) /\ Owing' = Command(pc).cmd
        /\ UNCHANGED <<pipe, streaming, units, pno, pc>> /\ call' # "done"
    <2>1. call' # "done"
      BY <1>0, WriteMoves
    <2> QED
      BY <1>0, <2>1, WriteMoves
  <1>2. /\ pc \notin UnitsLabels => Command(pc).cmd # "UNITS"
        /\ pc # "su_map" => Command(pc).cmd # "STATION_MAP"
    BY OrderCommands
  <1>3. EffUnits = units /\ EffUnits' = IF Owing' = "UNITS" THEN Command(pc).cfg ELSE units
    BY <1>1 DEF EffUnits, UnitsAfter, Owing
  <1>4. pc \in {"su_quat", "sv_euler", "sv_quat", "cal_quat"} => Still
    BY <1>0, <1>1 DEF Orderly, AckCall, AckLabels
  <1>5. pc = "cal_euler" => ~streaming /\ Closed
    BY <1>0, <1>1 DEF Orderly, EulerCall, Cleared, ResetEnds
  <1>6. Kinds'
    BY <1>0, <1>1 DEF Kinds
  <1>7. Paired'
    <2>1. Owing' = "UNITS" => ~streaming /\ Closed
      BY <1>1, <1>2, <1>4, <1>5 DEF UnitsLabels, Still, Closed
    <2> QED
      BY <1>0, <1>1, <2>1 DEF Paired, Closed
  <1>8. Timely'
    <2>1. CASE pc \in {"su_quat", "sv_euler", "sv_quat", "cal_quat"}
      <3>1. pipe' = <<>>
        BY <1>1, <1>4, <2>1 DEF Still
      <3> QED
        BY <3>1 DEF Timely
    <2>2. CASE pc = "cal_euler"
      <3>1. Command(pc).cmd = "UNITS" /\ Command(pc).cfg = "euler"
        BY <2>2, OrderCommands
      <3> QED
        BY <1>1, <1>3, <3>1 DEF Timely
    <2>3. CASE pc \notin UnitsLabels
      BY <1>0, <1>1, <1>2, <1>3, <2>3 DEF Timely
    <2> QED
      BY <2>1, <2>2, <2>3 DEF UnitsLabels
  <1>9. Used'
    <2>1. Using' => pc = "cal_reset"
      <3>1. "cal_save" \notin SendLabels
        BY NotSending DEF StopLabels
      <3> QED
        BY <1>1, <3>1 DEF Using
    <2>2. pc = "cal_reset" => Using /\ EffUnits' = EffUnits
      BY <1>1, <1>2, <1>3 DEF Using, UnitsLabels
    <2> QED
      BY <1>0, <1>1, <2>1, <2>2 DEF Used
  <1>10. InLoop' => Mapless'
    <2>1. InLoop' => InLoop /\ pc # "su_map"
      BY <1>1 DEF InLoop
    <2> QED
      BY <1>0, <1>1, <1>2, <2>1 DEF Mapless
  <1> QED
    BY <1>6, <1>7, <1>8, <1>9, <1>10

----------------------------------------------------------------------------
(* A read takes the first frame, whatever comes of it, or there is none    *)
(* and the device has nothing to say.                                      *)
ReadMove == ReadStep(Command(pc)) /\ UNCHANGED appVars

Silent == pipe = <<>> /\ Owing = "none" /\ ~streaming /\ pipe' = pipe

LEMMA TailOf ==
    ASSUME NEW p \in Seq(Frames), p # <<>>
    PROVE  /\ Shifted(p, Tail(p)) /\ Head(p) = p[1] /\ p[1] \in Frames
           /\ Len(p) \in Nat /\ Len(p) >= 1
  BY DEF Shifted

LEMMA ReadMoves ==
    ASSUME LInv, ReadMove
    PROVE  /\ UNCHANGED <<inbox, streaming, units, sensors, pc, client, station_id, params, store,
                          layers>>
           /\ Owing' = Owing /\ Command(pc)' = Command(pc)
           /\ Len(pipe) \in Nat /\ Len(pipe') \in Nat
           /\ \/ /\ pipe # <<>> /\ Shifted(pipe, pipe') /\ pipe[1] \in Frames
                 /\ FrameSize(pipe[1]) <= g_nrxcount /\ g_nrxcount' = FrameSize(pipe[1])
                 /\ \/ ReceiveDataFrame(Command(pc), pipe[1]) \/ ReceiveStationMap(pipe[1])
                    \/ ReceivePno(pipe[1]) \/ ClearInput(pipe[1])
              \/ /\ pipe # <<>> /\ Shifted(pipe, pipe') /\ pipe[1] \in Frames
                 /\ FrameSize(pipe[1]) > g_nrxcount
                 /\ ReadFailed
              \/ Silent /\ ReadFailed
  <1>1. UNCHANGED <<inbox, streaming, units, sensors, pc, client, station_id, params, store, layers>>
    BY DEF ReadMove, ReadStep, UnchangedByRead, appVars
  <1>2. Owing' = Owing /\ Command(pc)' = Command(pc)
    BY <1>1, CommandStands DEF Owing
  <1>3. pipe \in Seq(Frames) /\ Len(pipe) \in Nat /\ (inbox = NoCommand => Owing = "none")
    BY OwingNone DEF LInv
  <1>4. CASE /\ DeviceRead
             /\ LET f == Head(pipe)
                IN  \/ ReceiveDataFrame(Command(pc), f) \/ ReceiveStationMap(f)
                    \/ ReceivePno(f) \/ ClearInput(f)
    <2>1. Head(pipe) = pipe[1] /\ pipe[1] \in Frames /\ Shifted(pipe, pipe') /\ pipe # <<>>
      BY <1>3, <1>4, TailOf DEF DeviceRead
    <2>2. FrameSize(pipe[1]) <= g_nrxcount /\ g_nrxcount' = FrameSize(pipe[1])
      BY <1>4, <2>1 DEF DeviceRead
    <2>3. Len(pipe') \in Nat
      BY <1>3, <1>4 DEF DeviceRead
    <2> QED
      BY <1>1, <1>2, <1>3, <1>4, <2>1, <2>2, <2>3
  <1>5. CASE ReadOverflow /\ ReadFailed
    <2>1. Head(pipe) = pipe[1] /\ pipe[1] \in Frames /\ Shifted(pipe, pipe') /\ pipe # <<>>
      BY <1>3, <1>5, TailOf DEF ReadOverflow
    <2>2. FrameSize(pipe[1]) > g_nrxcount
      BY <1>5, <2>1 DEF ReadOverflow
    <2>3. Len(pipe') \in Nat
      BY <1>3, <1>5 DEF ReadOverflow
    <2> QED
      BY <1>1, <1>2, <1>3, <1>5, <2>1, <2>2, <2>3
  <1>6. CASE ReadTimeout /\ ReadFailed
    BY <1>1, <1>2, <1>3, <1>6 DEF ReadTimeout, Silent
  <1> QED
    BY <1>4, <1>5, <1>6 DEF ReadMove, ReadStep

(* Something is outstanding: the read takes a frame.                       *)
LEMMA OwedComes ==
    ASSUME Len(pipe) \in Nat, Owed(pipe, 1, Owing, Cont)
    PROVE  /\ ~Silent
           /\ pipe # <<>> => Whole(pipe[1]) \/ IsAck(pipe[1])
  <1>1. CASE Owing = Cont /\ Run(pipe, 1)
    BY <1>1 DEF Run, Silent, Cont
  <1>2. CASE One(pipe, 1, Cont)
    <2>1. PICK i \in 1..Len(pipe) : (\A j \in 1..(i - 1) : Whole(pipe[j])) /\ AckOf(pipe[i], Cont)
      BY <1>2 DEF One
    <2>2. CASE i = 1
      BY <2>1, <2>2 DEF AckOf, Silent
    <2>3. CASE i > 1
      BY <2>1, <2>3 DEF Silent
    <2> QED
      BY <2>2, <2>3
  <1> QED
    BY <1>1, <1>2 DEF Owed

(* A PNO frame of all stations, or an acknowledgement, never overflows a   *)
(* read that has room for the former.                                      *)
LEMMA Fits ==
    ASSUME SoundLink, NEW f \in Frames, Whole(f) \/ IsAck(f), NEW g \in Nat, g >= FullSize
    PROVE  ~(FrameSize(f) > g)
  <1>1. FullSize \in Nat /\ FullSize > 36 /\ FrameSize(f) \in Nat
    BY Sizes
  <1>2. FrameSize(f) <= FullSize
    BY <1>1, Sizes
  <1> QED
    BY <1>1, <1>2

(* What receive_data_frame makes of the first frame.                       *)
LEMMA ReadReply ==
    ASSUME SoundLink, LInv, ReadMove, call = "reply", Roomy, ~Silent,
           pipe # <<>> => Whole(pipe[1]) \/ IsAck(pipe[1])
    PROVE  /\ pipe # <<>> /\ Shifted(pipe, pipe')
           /\ \/ Whole(pipe[1]) /\ call' = "reply" /\ g_nrxcount' >= FullSize
              \/ Whole(pipe[1]) /\ call' = "done" /\ Failed'
              \/ /\ IsAck(pipe[1]) /\ call' = "done"
                 /\ Failed' <=> pipe[1].cmd # Command(pc).cmd
  <1>0. g_nrxcount \in Nat /\ g_nrxcount >= FullSize
    BY DEF LInv, TInv, TypeOK, LinkTypeOK, Roomy
  <1>1. pipe # <<>> /\ Shifted(pipe, pipe') /\ pipe[1] \in Frames
    BY ReadMoves
  <1>2. Whole(pipe[1]) \/ IsAck(pipe[1])
    BY <1>1
  <1>3. ReceiveDataFrame(Command(pc), pipe[1]) /\ g_nrxcount' = FrameSize(pipe[1])
    BY <1>0, <1>1, <1>2, ReadMoves, Fits DEF ReceiveStationMap, ReceivePno, ClearInput
  <1>4. CASE Whole(pipe[1])
    <2>1. ReplyMissed /\ g_nrxcount' = FullSize /\ FullSize \in Nat
      BY <1>1, <1>3, <1>4, Sizes DEF ReceiveDataFrame, Whole, IsPno, IsCmd
    <2>2. FullSize >= FullSize
      BY <2>1
    <2> QED
      BY <1>1, <1>4, <2>1, <2>2 DEF ReplyMissed, Return, Failed
  <1>5. CASE IsAck(pipe[1])
    <2>1. IsCmd(pipe[1]) /\ FrameCmd(pipe[1]) = pipe[1].cmd
      BY <1>5 DEF IsAck, FrameCmd
    <2>2. call' = "done" /\ return_value' = IF pipe[1].cmd # Command(pc).cmd THEN RETURN_ERROR ELSE 0
      BY <1>3, <1>5, <2>1 DEF ReceiveDataFrame, Return
    <2> QED
      BY <1>1, <1>5, <2>2 DEF Failed, RETURN_ERROR
  <1> QED
    BY <1>2, <1>4, <1>5

(* What is outstanding after a frame is gone.                              *)
LEMMA ShiftedEnds ==
    ASSUME Len(pipe) \in Nat, Len(pipe') \in Nat, pipe' \in Seq(Frames), pipe # <<>>,
           Shifted(pipe, pipe'), UNCHANGED <<inbox, streaming>>
    PROVE  /\ Closed => Closed'
           /\ ResetEnds => ResetEnds'
  <1>1. /\ Owing' = Owing /\ DataMode("DATA_RESET")' = DataMode("DATA_RESET")
        /\ Len(pipe) = Len(pipe') + 1
        /\ Len(pipe') >= 1 => pipe'[Len(pipe')] = pipe[Len(pipe)]
    BY ResetCommand DEF Shifted, Owing
  <1>2. Len(pipe') >= 1 \/ pipe' = <<>>
    BY <1>1
  <1>3. Closed => Closed'
    BY <1>1, <1>2 DEF Closed
  <1> QED
    BY <1>1, <1>3 DEF ResetEnds

LEMMA ShiftedReset ==
    ASSUME Len(pipe) \in Nat, Len(pipe') \in Nat, pipe' \in Seq(Frames), pipe # <<>>,
           Shifted(pipe, pipe'), UNCHANGED <<inbox, streaming>>, ResetLast
    PROVE  \/ Whole(pipe[1]) /\ ResetLast'
           \/ IsAck(pipe[1]) /\ Still'
  <1>1. ResetEnds' /\ Owing' = Owing
    BY ShiftedEnds DEF ResetLast, Owing
  <1>2. \/ Whole(pipe[1]) /\ Owed(pipe', 1, Owing, Cont)
        \/ AckOf(pipe[1], Cont) /\ Owing = "none" /\ Run(pipe', 1)
    BY HeadOfOwed DEF ResetLast
  <1>3. CASE Whole(pipe[1]) /\ Owed(pipe', 1, Owing, Cont)
    BY <1>1, <1>3 DEF ResetLast
  <1>4. CASE AckOf(pipe[1], Cont) /\ Owing = "none" /\ Run(pipe', 1)
    <2>1. ~streaming' /\ Closed'
      BY <1>1, <1>4 DEF ResetEnds
    <2>2. Len(pipe') >= 1 => Whole(pipe'[Len(pipe')])
      BY <1>4 DEF Run
    <2>3. pipe' = <<>>
      BY <2>1, <2>2 DEF Closed, Whole, IsPno, IsAck, IsCmd
    <2> QED
      BY <1>1, <1>4, <2>1, <2>3 DEF Still, AckOf
  <1> QED
    BY <1>2, <1>3, <1>4

LEMMA ShiftedCaught ==
    ASSUME LInv, ReadMove, Caught
    PROVE  Caught'
  <1>1. CASE Shifted(pipe, pipe')
    BY <1>1, ReadMoves, ShiftRun DEF Caught
  <1>2. CASE Silent
    BY <1>2, ReadMoves DEF Caught, Silent
  <1> QED
    BY <1>1, <1>2, ReadMoves

(* What device_clear_input makes of the first frame: it goes on until a    *)
(* frame is larger than the one before it, or none is there.               *)
LEMMA ReadClear ==
    ASSUME LInv, ReadMove, call = "clear"
    PROVE  /\ UNCHANGED <<return_value, pno>>
           /\ \/ /\ call' = "clear" /\ pipe # <<>> /\ Shifted(pipe, pipe') /\ pipe[1] \in Frames
                 /\ g_nrxcount' = FrameSize(pipe[1])
              \/ /\ call' = "done" /\ pipe # <<>> /\ Shifted(pipe, pipe') /\ pipe[1] \in Frames
                 /\ FrameSize(pipe[1]) > g_nrxcount
              \/ call' = "done" /\ Silent
  <1>1. ASSUME ReadFailed PROVE UNCHANGED <<return_value, pno>> /\ call' = "done"
    BY <1>1 DEF ReadFailed
  <1>2. ASSUME \/ ReceiveDataFrame(Command(pc), pipe[1]) \/ ReceiveStationMap(pipe[1])
               \/ ReceivePno(pipe[1]) \/ ClearInput(pipe[1])
        PROVE  UNCHANGED <<return_value, pno>> /\ call' = "clear"
    BY <1>2 DEF ReceiveDataFrame, ReceiveStationMap, ReceivePno, ClearInput
  <1> QED
    BY <1>1, <1>2, ReadMoves

(* A clearing whose answers fit whatever was read before them gives up only*)
(* on a PNO frame, and then no answer to UNITS comes first.                *)
LEMMA ReadStop ==
    ASSUME SoundLink, LInv, Kinds, Paired, Mapless, ReadMove, pipe' \in Seq(Frames),
           call = "clear", ResetEnds, g_nrxcount >= 32
    PROVE  \/ call' = "clear" /\ ResetEnds' /\ g_nrxcount' >= 32
           \/ call' = "done" /\ Cleared'
  <1>1. /\ UNCHANGED <<inbox, streaming>> /\ Owing' = Owing
        /\ Len(pipe) \in Nat /\ Len(pipe') \in Nat
        /\ g_nrxcount \in Nat
    BY ReadMoves DEF LInv, TInv, TypeOK, LinkTypeOK
  <1>2. pipe # <<>> => /\ 1 \in 1..Len(pipe) /\ ~AckOf(pipe[1], "STATION_MAP")
                       /\ Whole(pipe[1]) \/ IsAck(pipe[1])
    BY <1>1 DEF Kinds, Mapless
  <1>3. /\ FullSize \in Nat /\ FullSize > 36
        /\ \A f \in Frames : Whole(f) => FrameSize(f) = FullSize /\ ~IsAck(f)
        /\ \A f \in Frames : IsAck(f) /\ ~AckOf(f, "STATION_MAP") => FrameSize(f) = 32
    BY Sizes
  <1>4. CASE /\ call' = "clear" /\ pipe # <<>> /\ Shifted(pipe, pipe') /\ pipe[1] \in Frames
             /\ g_nrxcount' = FrameSize(pipe[1])
    <2>1. g_nrxcount' >= 32
      BY <1>2, <1>3, <1>4
    <2>2. ResetEnds'
      BY <1>1, <1>4, ShiftedEnds
    <2> QED
      BY <1>4, <2>1, <2>2
  <1>5. CASE /\ call' = "done" /\ pipe # <<>> /\ Shifted(pipe, pipe') /\ pipe[1] \in Frames
             /\ FrameSize(pipe[1]) > g_nrxcount
    <2>1. Whole(pipe[1]) /\ ~IsAck(pipe[1])
      BY <1>1, <1>2, <1>3, <1>5
    <2>2. ResetEnds'
      BY <1>1, <1>5, ShiftedEnds
    <2>3. pipe' # <<>> => 2 \in 2..Len(pipe) /\ pipe'[1] = pipe[2]
      BY <1>1, <1>5 DEF Shifted
    <2>4. NotUnits'
      BY <2>1, <2>3 DEF NotUnits, Paired
    <2> QED
      BY <1>5, <2>2, <2>4 DEF Cleared
  <1>6. CASE call' = "done" /\ Silent
    BY <1>1, <1>6 DEF Silent, Cleared, ResetEnds, Closed, NotUnits
  <1> QED
    BY <1>4, <1>5, <1>6, ReadClear

(* A read of a PNO frame is the last of its call; no other sets pno.       *)
LEMMA ReadPno ==
    ASSUME LInv, ReadMove
    PROVE  /\ call = "pno" => call' = "done"
           /\ pno' # pno \/ (call = "pno" /\ ~Failed') =>
                 pipe # <<>> /\ IsPno(pipe[1]) /\ pno'.units = pipe[1].units /\ call = "pno"
  <1>1. ASSUME ReadFailed PROVE pno' = pno /\ (call = "pno" => call' = "done" /\ Failed')
    BY <1>1 DEF ReadFailed, Return, Failed
  <1>2. ASSUME ReceivePno(pipe[1])
        PROVE  /\ call = "pno" /\ call' = "done"
               /\ ~Failed' \/ pno' # pno => IsPno(pipe[1]) /\ pno'.units = pipe[1].units
    BY <1>2 DEF ReceivePno, Return, Failed
  <1>3. ASSUME \/ ReceiveDataFrame(Command(pc), pipe[1]) \/ ReceiveStationMap(pipe[1])
               \/ ClearInput(pipe[1])
        PROVE  pno' = pno /\ call # "pno"
    BY <1>3 DEF ReceiveDataFrame, ReceiveStationMap, ClearInput
  <1> QED
    BY <1>1, <1>2, <1>3, ReadMoves

(* The answer to the current command is taken, and nothing else is left.   *)
LEMMA ReadFirst ==
    ASSUME SoundLink, LInv, ReadMove, pc \in AckLabels \cup ContLabels \cup {"cal_euler"},
           call \in {"reply", "map"}, First, Roomy
    PROVE  /\ call' = "done" /\ ~Failed' /\ Caught'
           /\ Command(pc).cmd # Cont => Still'
  <1>0. /\ UNCHANGED <<inbox, streaming>> /\ Owing' = Owing
        /\ Len(pipe) \in Nat /\ Len(pipe') \in Nat
        /\ (Shifted(pipe, pipe') /\ pipe # <<>>) \/ Silent
    BY ReadMoves
  <1>1. Command(pc).cmd # "none" /\ (Command(pc) = RequestNumOfStations => pc = "su_map")
    BY OrderCommands DEF Cont
  <1>2. ~Silent /\ pipe # <<>>
    BY <1>0, <1>1 DEF First, Silent, Owing
  <1>3. /\ Owing = "none" /\ AckOf(pipe[1], Command(pc).cmd) /\ Run(pipe, 2)
        /\ Command(pc).cmd # Cont => Len(pipe) = 1 /\ ~streaming
    BY <1>2 DEF First
  <1>4. Caught'
    BY <1>0, <1>2, <1>3, ShiftRun DEF Caught
  <1>5. Command(pc).cmd # Cont => Still'
    <2>1. Len(pipe) = 1 => pipe' = <<>>
      BY <1>0, <1>2 DEF Shifted
    <2> QED
      BY <1>0, <1>3, <2>1 DEF Still
  <1>6. CASE call = "reply"
    BY <1>2, <1>3, <1>4, <1>5, <1>6, ReadReply DEF AckOf, Whole, IsPno, IsAck, IsCmd
  <1>7. CASE call = "map"
    <2>1. g_nrxcount \in Nat /\ g_nrxcount >= FullSize
      BY <1>7 DEF LInv, TInv, TypeOK, LinkTypeOK, Roomy
    <2>2. pipe[1] \in Frames
      BY <1>2, ReadMoves
    <2>3. ReceiveStationMap(pipe[1])
      BY <1>2, <1>3, <1>7, <2>1, <2>2, ReadMoves, Fits
      DEF AckOf, ReceiveDataFrame, ReceivePno, ClearInput
    <2>4. call' = "done" /\ ~Failed'
      BY <2>3 DEF ReceiveStationMap, Return, Failed, RETURN_ERROR
    <2> QED
      BY <1>4, <1>5, <2>4
  <1> QED
    BY <1>6, <1>7

(* An answer of another type comes first: EULER fails, sooner or later.    *)
LEMMA ReadSpoilt ==
    ASSUME SoundLink, LInv, Kinds, Paired, ReadMove, call = "reply", Spoilt, Roomy,
           Command(pc).cmd = "UNITS"
    PROVE  \/ call' = "reply" /\ Spoilt' /\ g_nrxcount' >= FullSize
           \/ call' = "done" /\ Failed'
  <1>1. Len(pipe) \in Nat /\ Len(pipe') \in Nat
    BY ReadMoves
  <1>2. PICK i \in 1..Len(pipe) : IsAck(pipe[i])
    BY DEF Spoilt
  <1>3. pipe # <<>> /\ 1 \in 1..Len(pipe) /\ ~Silent /\ (Whole(pipe[1]) \/ IsAck(pipe[1]))
    BY <1>1, <1>2 DEF Kinds, Silent
  <1>4. /\ Shifted(pipe, pipe')
        /\ \/ Whole(pipe[1]) /\ call' = "reply" /\ g_nrxcount' >= FullSize
           \/ Whole(pipe[1]) /\ call' = "done" /\ Failed'
           \/ /\ IsAck(pipe[1]) /\ call' = "done"
              /\ Failed' <=> pipe[1].cmd # Command(pc).cmd
    BY <1>3, ReadReply
  <1>5. CASE Whole(pipe[1]) /\ call' = "reply" /\ g_nrxcount' >= FullSize
    <2>1. ~IsAck(pipe[1]) /\ i # 1
      BY <1>2, <1>5, Sizes
    <2>2. i - 1 \in 1..Len(pipe') /\ pipe'[i - 1] = pipe[i]
      BY <1>1, <1>2, <1>4, <2>1 DEF Shifted
    <2>3. 2 \in 2..Len(pipe) /\ pipe'[1] = pipe[2]
      BY <1>1, <1>2, <1>4, <2>1 DEF Shifted
    <2>4. NotUnits'
      BY <2>1, <2>3 DEF NotUnits, Paired
    <2> QED
      BY <1>2, <1>5, <2>2, <2>4 DEF Spoilt
  <1>6. CASE IsAck(pipe[1]) /\ call' = "done" /\ (Failed' <=> pipe[1].cmd # Command(pc).cmd)
    BY <1>3, <1>6 DEF Spoilt, NotUnits, AckOf
  <1> QED
    BY <1>4, <1>5, <1>6

LEMMA OrderlyReads ==
    ASSUME SoundLink, SInv, TInv', ReadMove
    PROVE  Orderly'
  <1>0. LInv /\ Orderly /\ Kinds /\ Paired
    BY DEF SInv
  <1>1. /\ UNCHANGED <<inbox, streaming, pc>> /\ Owing' = Owing
        /\ Command(pc)' = Command(pc)
        /\ Len(pipe) \in Nat /\ Len(pipe') \in Nat /\ pipe' \in Seq(Frames)
        /\ (Shifted(pipe, pipe') /\ pipe # <<>>) \/ Silent
    BY <1>0, ReadMoves DEF TInv, TypeOK, DeviceTypeOK
  <1>2. FullSize' = FullSize
    BY RoomStays
  <1>3. call \notin {"send", "done", "idle"}
    BY <1>0, ReadMoves DEF ReceiveDataFrame, ReceiveStationMap, ReceivePno, ClearInput, ReadFailed
  <1>4. pc \in StepLabels => Roomy
    BY <1>0 DEF Orderly
  <1>5. ASSUME pc \in AckLabels PROVE AckCall' /\ call' = "done"
    <2>1. call \in {"reply", "map"} /\ First /\ Roomy
      BY <1>0, <1>3, <1>4, <1>5 DEF Orderly, AckCall, StepLabels
    <2>2. Command(pc).cmd # Cont
      BY <1>5, OrderCommands DEF Cont
    <2> QED
      BY <1>0, <1>5, <2>1, <2>2, ReadFirst DEF AckCall
  <1>6. ASSUME pc \in ContLabels PROVE ContCall' /\ call' = "done"
    <2>1. call = "reply" /\ First /\ Roomy
      BY <1>0, <1>3, <1>4, <1>6 DEF Orderly, ContCall, StepLabels
    <2> QED
      BY <1>0, <1>6, <2>1, ReadFirst DEF ContCall
  <1>7. ASSUME pc \in ClearLabels PROVE ClearCall' /\ call' \in {"clear", "done"}
    <2>1. call = "clear" /\ ~Failed /\ (Still \/ (ResetLast /\ g_nrxcount >= FullSize))
      BY <1>0, <1>3, <1>7 DEF Orderly, ClearCall
    <2>2. ~Failed' /\ call' \in {"clear", "done"}
      BY <1>0, <2>1, ReadClear DEF Failed
    <2>3. CASE Still
      <3>1. call' = "done" /\ Silent
        BY <1>0, <2>1, <2>3, ReadClear DEF Still
      <3> QED
        BY <1>1, <2>2, <3>1 DEF ClearCall, Still, Silent
    <2>4. CASE ResetLast /\ g_nrxcount >= FullSize
      <3>1. ~Silent /\ (Whole(pipe[1]) \/ IsAck(pipe[1])) /\ pipe # <<>> /\ Shifted(pipe, pipe')
        BY <1>1, <2>4, OwedComes DEF ResetLast
      <3>2. g_nrxcount \in Nat /\ pipe[1] \in Frames
        BY <1>0, <2>1, <3>1, ReadClear DEF LInv, TInv, TypeOK, LinkTypeOK
      <3>3. ~(FrameSize(pipe[1]) > g_nrxcount)
        BY <2>4, <3>1, <3>2, Fits
      <3>4. call' = "clear" /\ g_nrxcount' = FrameSize(pipe[1])
        BY <1>0, <2>1, <3>1, <3>3, ReadClear
      <3>5. Whole(pipe[1]) => g_nrxcount' >= FullSize
        BY <3>2, <3>4, Sizes
      <3>6. \/ Whole(pipe[1]) /\ ResetLast'
            \/ IsAck(pipe[1]) /\ Still'
        BY <1>1, <2>4, <3>1, ShiftedReset
      <3> QED
        BY <1>2, <2>2, <3>4, <3>5, <3>6 DEF ClearCall
    <2> QED
      BY <2>1, <2>3, <2>4
  <1>8. ASSUME pc \in WaitLabels PROVE Caught' /\ call' = "done"
    <2>1. call = "pno"
      BY <1>0, <1>3, <1>8, NotSending DEF LInv, Calls, TInv, TypeOK, LinkTypeOK
    <2> QED
      BY <1>0, <1>8, <2>1, ReadPno, ShiftedCaught DEF Orderly
  <1>9. ASSUME pc = "sv_cont" PROVE LastCall' /\ Roomy'
    <2>1. call = "reply" /\ Owed(pipe, 1, Owing, Cont) /\ Roomy
      BY <1>0, <1>3, <1>4, <1>9 DEF Orderly, LastCall, StepLabels
    <2>2. Command(pc).cmd = Cont
      BY <1>9, OrderCommands
    <2>3. ~Silent /\ (pipe # <<>> => Whole(pipe[1]) \/ IsAck(pipe[1]))
      BY <1>1, <2>1, OwedComes
    <2>4. \/ Whole(pipe[1]) /\ Owed(pipe', 1, Owing, Cont)
          \/ AckOf(pipe[1], Cont) /\ Owing = "none" /\ Run(pipe', 1)
      BY <1>1, <2>1, <2>3, HeadOfOwed
    <2>5. \/ Whole(pipe[1]) /\ call' = "reply" /\ g_nrxcount' >= FullSize
          \/ Whole(pipe[1]) /\ call' = "done" /\ Failed'
          \/ /\ IsAck(pipe[1]) /\ call' = "done"
             /\ Failed' <=> pipe[1].cmd # Command(pc).cmd
      BY <1>0, <2>1, <2>3, ReadReply
    <2>6. CASE Whole(pipe[1]) /\ Owed(pipe', 1, Owing, Cont)
      BY <1>1, <1>2, <2>5, <2>6 DEF LastCall, Roomy, Whole, IsPno, IsAck, IsCmd
    <2>7. CASE AckOf(pipe[1], Cont) /\ Owing = "none" /\ Run(pipe', 1)
      BY <1>1, <2>2, <2>5, <2>7 DEF LastCall, Roomy, Caught, Whole, IsPno, IsAck, IsCmd, AckOf
    <2> QED
      BY <2>4, <2>6, <2>7
  <1>10. ASSUME pc = "cal_reset" PROVE StopCall' /\ call' \in {"clear", "done"}
    <2>1. call = "clear" /\ ResetEnds /\ g_nrxcount >= 32
      BY <1>0, <1>3, <1>10 DEF Orderly, StopCall
    <2>2. Mapless
      BY <1>10 DEF SInv, InLoop
    <2> QED
      BY <1>0, <1>1, <2>1, <2>2, ReadStop DEF StopCall
  <1>11. ASSUME pc \in StopLabels PROVE FALSE
    BY <1>0, <1>3, <1>11, NotSending DEF LInv, Calls, TInv, TypeOK, LinkTypeOK
  <1>12. ASSUME pc = "cal_euler" PROVE EulerCall' /\ Roomy'
    <2>1. call = "reply" /\ (First \/ Spoilt) /\ Roomy
      BY <1>0, <1>3, <1>4, <1>12 DEF Orderly, EulerCall, StepLabels
    <2>2. Command(pc).cmd = "UNITS" /\ Command(pc).cmd # Cont
      BY <1>12, OrderCommands DEF Cont
    <2>3. CASE First
      BY <1>0, <1>12, <2>1, <2>2, <2>3, ReadFirst DEF EulerCall, Roomy
    <2>4. CASE Spoilt
      BY <1>0, <1>2, <2>1, <2>2, <2>4, ReadSpoilt DEF EulerCall, Roomy
    <2> QED
      BY <2>1, <2>3, <2>4
  <1>13. pc \in StepLabels => Roomy'
    BY <1>5, <1>6, <1>7, <1>8, <1>9, <1>10, <1>11, <1>12 DEF StepLabels, Roomy
  <1> QED
    BY <1>1, <1>5, <1>6, <1>7, <1>8, <1>9, <1>10, <1>11, <1>12, <1>13 DEF Orderly

LEMMA PipeReads ==
    ASSUME SoundLink, SInv, ReadMove
    PROVE  Kinds' /\ Paired' /\ Timely' /\ Used' /\ (InLoop' => Mapless')
  <1>0. LInv /\ Kinds /\ Paired /\ Timely /\ Used /\ (InLoop => Mapless)
    BY DEF SInv
  <1>1. /\ UNCHANGED <<inbox, streaming, units, pc>> /\ Owing' = Owing
        /\ Len(pipe) \in Nat /\ Len(pipe') \in Nat
    BY <1>0, ReadMoves
  <1>2. /\ EffUnits' = EffUnits /\ (InLoop' <=> InLoop)
    BY <1>1 DEF EffUnits, UnitsAfter, InLoop
  <1>3. ASSUME Silent PROVE Kinds' /\ Paired' /\ Timely' /\ (InLoop' => Mapless')
    BY <1>0, <1>1, <1>2, <1>3 DEF Silent, Kinds, Paired, Timely, Mapless, Closed
  <1>4. ASSUME Shifted(pipe, pipe'), pipe # <<>>
        PROVE  Kinds' /\ Paired' /\ Timely' /\ (InLoop' => Mapless')
    <2>1. \A i \in 1..Len(pipe') : i + 1 \in 1..Len(pipe) /\ pipe'[i] = pipe[i + 1]
      BY <1>1, <1>4 DEF Shifted
    <2>2. \A i \in 2..Len(pipe') :
             /\ i + 1 \in 2..Len(pipe) /\ (i + 1) - 1 = i
             /\ pipe'[i] = pipe[i + 1] /\ pipe'[i - 1] = pipe[i]
      BY <1>1, <1>4 DEF Shifted
    <2>3. Kinds' /\ Timely' /\ (Mapless => Mapless')
      BY <1>0, <1>1, <1>2, <2>1 DEF Kinds, Timely, Mapless
    <2>4. Closed => Closed'
      <3>1. pipe' # <<>> => Len(pipe') \in 1..Len(pipe') /\ Len(pipe) = Len(pipe') + 1
        BY <1>1, <1>4 DEF Shifted
      <3> QED
        BY <1>4, <2>1, <3>1 DEF Closed
    <2>5. Paired'
      BY <1>0, <1>1, <2>2, <2>4 DEF Paired
    <2> QED
      BY <1>0, <1>2, <2>3, <2>5
  <1>5. Used'
    <2>1. pno' # pno => EffUnits = "euler" \/ pno'.units # "euler"
      <3>1. pno' # pno => 1 \in 1..Len(pipe) /\ IsPno(pipe[1]) /\ pno'.units = pipe[1].units
        BY <1>0, <1>1, ReadPno
      <3> QED
        BY <1>0, <3>1 DEF Timely
    <2>2. CASE pc \in {"cal_reset", "cal_save"}
      BY <1>0, <1>1, <1>2, <2>1, <2>2 DEF Used, Using
    <2>3. CASE pc \in {"lp_recv", "cal_first", "cal_wait"} /\ call' = "done" /\ ~Failed'
      <3>1. call = "pno"
        <4>1. call \notin {"send", "done", "idle"}
          BY <1>0, ReadMoves
          DEF ReceiveDataFrame, ReceiveStationMap, ReceivePno, ClearInput, ReadFailed
        <4> QED
          BY <1>0, <2>3, <4>1, NotSending DEF LInv, Calls, TInv, TypeOK, LinkTypeOK
      <3>2. 1 \in 1..Len(pipe) /\ IsPno(pipe[1]) /\ pno'.units = pipe[1].units
        BY <1>0, <1>1, <2>3, <3>1, ReadPno
      <3>3. pno'.units = "euler" => EffUnits = "euler"
        BY <1>0, <3>2 DEF Timely
      <3> QED
        BY <1>2, <3>3 DEF Used
    <2> QED
      BY <1>1, <2>2, <2>3 DEF Used, Using
  <1>6. (Shifted(pipe, pipe') /\ pipe # <<>>) \/ Silent
    BY <1>0, ReadMoves
  <1> QED
    BY <1>3, <1>4, <1>5, <1>6

----------------------------------------------------------------------------
(* The code between two transfers.  What a label asks of what is           *)
(* outstanding when the driver comes to it.                                *)
Ready(l) ==
    /\ l \in AckLabels \cup ContLabels => Still
    /\ l \in ClearLabels \cup WaitLabels \cup {"sv_cont"} => Caught
    /\ l \in StopLabels \cup {"cal_euler"} => Cleared
    /\ l \in {"cal_reset", "cal_save"} => Using

LoopLabels == {"lp_recv", "lp_reset", "lp_cont", "lp_spin", "src_set", "sd_reset",
               "cal_single", "cal_bore", "cal_first", "cal_wait", "cal_reset", "cal_save",
               "cal_dump", "cal_euler", "cal_zero", "cal_quat", "cal_cont"}

LEMMA CaughtMapless == Caught => Mapless
  BY DEF Caught, Mapless, Run, Whole, IsPno, AckOf, IsAck, IsCmd

LEMMA GotoReady ==
    ASSUME SoundLink, SInv, UNCHANGED deviceVars, NEW l \in Labels, Ready(l), Goto(l),
           l \in LoopLabels => Mapless
    PROVE  Orderly' /\ Kinds' /\ Paired' /\ Timely' /\ Used' /\ (InLoop' => Mapless')
  <1>1. /\ UNCHANGED <<inbox, pipe, streaming, units, pno>>
        /\ Owing' = Owing /\ EffUnits' = EffUnits /\ pc' = l
        /\ DataMode("DATA_RESET")' = DataMode("DATA_RESET")
    BY ResetCommand DEF deviceVars, Owing, EffUnits, UnitsAfter, Goto
  <1>2. /\ l \in SendLabels => call' = "send"
        /\ l \in PnoLabels => call' = "pno" /\ g_nrxcount' = VIPER_RX_BUF_SIZE
        /\ call' \in {"send", "pno", "idle"}
    BY LabelSets DEF Goto, StartSend, StartPno, StartIdle
  <1>3. /\ AckLabels \cup ContLabels \cup ClearLabels \cup {"sv_cont", "cal_reset", "cal_euler"}
              \subseteq SendLabels
        /\ WaitLabels \subseteq PnoLabels
    BY DEF AckLabels, ContLabels, ClearLabels, WaitLabels, SendLabels, PnoLabels
  <1>4. /\ Still => Still'
        /\ Caught => Caught'
        /\ Cleared => Cleared'
    BY <1>1 DEF Still, Caught, Cleared, ResetEnds, Closed, NotUnits, Run
  <1>5. Roomy'
    <2>1. VIPER_RX_BUF_SIZE >= FullSize'
      BY Sizes, RoomStays DEF VIPER_RX_BUF_SIZE
    <2>2. call' = "pno" => g_nrxcount' = VIPER_RX_BUF_SIZE
      BY DEF Goto, StartSend, StartPno, StartIdle
    <2> QED
      BY <1>2, <2>1, <2>2 DEF Roomy
  <1>6. Orderly'
    <2>1. l \in AckLabels => AckCall'
      BY <1>2, <1>3, <1>4 DEF Ready, AckCall
    <2>2. l \in ContLabels => ContCall'
      BY <1>2, <1>3, <1>4 DEF Ready, ContCall
    <2>3. l \in ClearLabels => ClearCall'
      BY <1>2, <1>3, <1>4 DEF Ready, ClearCall
    <2>4. l = "sv_cont" => LastCall'
      BY <1>2, <1>3, <1>4 DEF Ready, LastCall
    <2>5. l = "cal_reset" => StopCall'
      BY <1>2, <1>3 DEF StopCall
    <2>6. l = "cal_euler" => EulerCall'
      BY <1>2, <1>3, <1>4 DEF Ready, EulerCall
    <2>7. (l \in WaitLabels => Caught') /\ (l \in StopLabels => Cleared')
      BY <1>4 DEF Ready
    <2> QED
      BY <1>1, <1>5, <2>1, <2>2, <2>3, <2>4, <2>5, <2>6, <2>7 DEF Orderly
  <1>7. Kinds' /\ Paired' /\ Timely'
    BY <1>1 DEF SInv, Kinds, Paired, Timely, Closed
  <1>8. Used'
    <2>1. Using' => Using
      BY <1>1, <1>2 DEF Using, Ready
    <2> QED
      BY <1>1, <2>1 DEF SInv, Used
  <1>9. InLoop' => Mapless'
    <2>1. InLoop' => l \in LoopLabels
      BY <1>1 DEF InLoop, LoopLabels
    <2> QED
      BY <1>1, <2>1 DEF Mapless
  <1> QED
    BY <1>6, <1>7, <1>8, <1>9

LEMMA DoneCalls ==
    ASSUME Orderly, call = "done"
    PROVE  /\ pc \in AckLabels => Still /\ ~Failed
           /\ pc \in ContLabels => Caught /\ ~Failed
           /\ pc \in ClearLabels => Still /\ ~Failed
           /\ pc \in WaitLabels => Caught
           /\ pc = "sv_cont" => Failed \/ Caught
           /\ pc = "cal_reset" => Cleared
           /\ pc = "cal_euler" => Failed \/ Still
  BY DEF Orderly, AckCall, ContCall, ClearCall, LastCall, StopCall, EulerCall

SetUpLabels == {"su_reset", "su_bore", "su_map", "su_quat", "su_hemi", "su_cont",
                "sv_first", "sv_wait", "sv_reset", "sv_euler", "sv_bore", "sv_quat", "sv_cont"}

Goes == \E l \in Labels : Ready(l) /\ Goto(l) /\ (l \in LoopLabels => Mapless)

(* The labels and the sets they are in.                                    *)
LEMMA ReadyLabels ==
    /\ Still => Caught
    /\ Still => \A l \in AckLabels \cup ContLabels \cup {"sv_cont"} : Ready(l)
    /\ Caught => \A l \in WaitLabels \cup ClearLabels \cup {"sv_cont"} : Ready(l)
    /\ Cleared => Ready("cal_dump") /\ Ready("cal_euler")
    /\ Cleared /\ Using => Ready("cal_save")
    /\ Using => Ready("cal_reset")
    /\ \A l \in {"exited", "sv_fail", "lp_recv", "lp_reset", "lp_cont", "lp_spin", "src_set",
                 "sd_reset", "cal_single", "cal_bore", "cal_first", "cal_wait"} : Ready(l)
  <1>1. Still => Caught
    BY DEF Still, Caught, Run
  <1> QED
    BY <1>1 DEF Ready, AckLabels, ContLabels, ClearLabels, WaitLabels, StopLabels

(* Set-up: the calls of main and of send_saved_calibration leave nothing   *)
(* outstanding, so each next one starts in step.                           *)
LEMMA SetUpGoes ==
    ASSUME SInv, pc \in SetUpLabels, MainStep \/ SavedCalibrationStep
    PROVE  Goes
  <1>1. call = "done"
    BY DEF MainStep, SavedCalibrationStep, MainReset, MainBoresight, MainStations, MainQuaternion,
           MainHemisphere, MainContinuous, MainLoopError, MainLoopNoSensors, MainLoopPublish,
           RecoveryReset, RecoveryContinuous, SpinIdle, ShutDown, StartupStep, SavedFirst, SavedWait,
           SavedTimeout, SavedReset, SavedEuler, SavedBoresight, SavedQuaternion, SavedContinuous,
           SavedFailed, SavedStep, AwaitFirst, AwaitMore, Done, SetUpLabels
  <1>2. /\ pc \in AckLabels => Still /\ ~Failed
        /\ pc \in ContLabels => Caught /\ ~Failed
        /\ pc \in ClearLabels => Still /\ ~Failed
        /\ pc \in WaitLabels => Caught
        /\ pc = "sv_cont" => Failed \/ Caught
    BY <1>1, DoneCalls DEF SInv
  <1>3. /\ {"su_bore", "su_map", "su_quat", "su_hemi", "sv_euler", "sv_bore", "sv_quat"} \subseteq AckLabels
        /\ "su_cont" \in ContLabels /\ {"su_reset", "sv_reset"} \subseteq ClearLabels
        /\ {"sv_first", "sv_wait"} \subseteq WaitLabels
        /\ AckLabels \cup ContLabels \cup ClearLabels \cup WaitLabels
              \cup {"sv_cont", "sv_fail", "exited", "lp_recv"} \subseteq Labels
    BY DEF AckLabels, ContLabels, ClearLabels, WaitLabels, Labels, SendLabels, PnoLabels, IdleLabels
  <1>4. /\ Still => Caught
        /\ Still => \A l \in AckLabels \cup ContLabels \cup {"sv_cont"} : Ready(l)
        /\ Caught => \A l \in WaitLabels \cup ClearLabels \cup {"sv_cont"} : Ready(l)
        /\ Ready("exited") /\ Ready("sv_fail") /\ Ready("lp_recv")
    BY ReadyLabels
  <1>5. /\ \A l \in {"su_bore", "su_map", "su_quat", "su_hemi", "su_cont", "sv_first", "sv_wait",
                     "sv_reset", "sv_euler", "sv_bore", "sv_quat", "sv_cont", "sv_fail", "exited"} :
              Ready(l) /\ Goto(l) => Goes
        /\ Caught /\ Goto("lp_recv") => Goes
    <2>1. \A l \in {"su_bore", "su_map", "su_quat", "su_hemi", "su_cont", "sv_first", "sv_wait",
                     "sv_reset", "sv_euler", "sv_bore", "sv_quat", "sv_cont", "sv_fail", "exited"} :
              l \notin LoopLabels /\ l \in Labels
      BY DEF LoopLabels, Labels, SendLabels, PnoLabels, IdleLabels
    <2> QED
      BY <1>3, <1>4, <2>1, CaughtMapless DEF Goes
  <1>6. CASE MainReset \/ MainBoresight \/ MainStations \/ MainQuaternion \/ MainHemisphere
    BY <1>2, <1>3, <1>4, <1>5, <1>6
    DEF MainReset, MainBoresight, MainStations, MainQuaternion, MainHemisphere, StartupStep,
        OnResult, Done
  <1>7. CASE MainContinuous
    BY <1>2, <1>3, <1>4, <1>5, <1>7 DEF MainContinuous, NextStation, Done
  <1>8. CASE SavedFirst \/ SavedWait \/ SavedTimeout
    BY <1>2, <1>3, <1>4, <1>5, <1>8 DEF SavedFirst, SavedWait, SavedTimeout, AwaitFirst, AwaitMore, Done
  <1>9. CASE SavedReset \/ SavedEuler \/ SavedBoresight \/ SavedQuaternion
    BY <1>2, <1>3, <1>4, <1>5, <1>9
    DEF SavedReset, SavedEuler, SavedBoresight, SavedQuaternion, SavedStep, NextStation,
        RetryStation, Done
  <1>10. CASE SavedContinuous
    BY <1>2, <1>4, <1>5, <1>10 DEF SavedContinuous, OnResult, Done
  <1>11. ~(\/ MainLoopError \/ MainLoopNoSensors \/ MainLoopPublish \/ RecoveryReset
           \/ RecoveryContinuous \/ SpinIdle \/ ShutDown \/ SavedFailed)
    BY DEF MainLoopError, MainLoopNoSensors, MainLoopPublish, RecoveryReset, RecoveryContinuous,
           SpinIdle, ShutDown, SavedFailed, Done, SetUpLabels
  <1> QED
    BY <1>6, <1>7, <1>8, <1>9, <1>10, <1>11 DEF MainStep, SavedCalibrationStep

(* The loop and the services ask for nothing, up to calibrate's RESET.     *)
LEMMA LoopGoes ==
    ASSUME SInv, pc \notin SetUpLabels, MainStep \/ SavedCalibrationStep \/ SourceStep
    PROVE  Goes
  <1>1. {"lp_recv", "lp_reset", "lp_cont", "lp_spin", "src_set", "sd_reset", "exited"}
           \subseteq Labels
    BY DEF Labels, SendLabels, PnoLabels, IdleLabels
  <1>2. InLoop => Mapless
    BY DEF SInv
  <1>3. /\ InLoop => \A l \in {"lp_recv", "lp_reset", "lp_cont", "lp_spin", "src_set", "sd_reset"} :
                        Goto(l) => Goes
        /\ Goto("exited") => Goes
    <2>1. "exited" \notin LoopLabels
      BY DEF LoopLabels
    <2> QED
      BY <1>1, <1>2, <2>1, ReadyLabels DEF Goes
  <1>4. CASE SavedFailed \/ ShutDown
    BY <1>3, <1>4 DEF SavedFailed, ShutDown
  <1>5. CASE \/ MainLoopError \/ MainLoopNoSensors \/ MainLoopPublish \/ RecoveryReset
             \/ RecoveryContinuous \/ SpinIdle
    BY <1>3, <1>5
    DEF MainLoopError, MainLoopNoSensors, MainLoopPublish, RecoveryReset, RecoveryContinuous,
        SpinIdle, LoopTop, Done, InLoop
  <1>6. CASE SourceStep
    BY <1>3, <1>6 DEF SourceStep, SourceStart, SourceInvalid, SourceEnd, Done, InLoop
  <1>7. ~(\/ MainReset \/ MainBoresight \/ MainStations \/ MainQuaternion \/ MainHemisphere
           \/ MainContinuous \/ SavedFirst \/ SavedWait \/ SavedTimeout \/ SavedReset \/ SavedEuler
           \/ SavedBoresight \/ SavedQuaternion \/ SavedContinuous)
    BY DEF MainReset, MainBoresight, MainStations, MainQuaternion, MainHemisphere, MainContinuous,
           StartupStep, SavedFirst, SavedWait, SavedTimeout, SavedReset, SavedEuler, SavedBoresight,
           SavedQuaternion, SavedContinuous, SavedStep, AwaitFirst, AwaitMore, Done, SetUpLabels
  <1> QED
    BY <1>4, <1>5, <1>6, <1>7 DEF MainStep, SavedCalibrationStep

(* calibrate: a complete frame leads to its RESET, whatever is outstanding;*)
(* the RESET leaves the link cleared, and from EULER on it is in step.     *)
LEMMA CalibrationGoes ==
    ASSUME SInv, CalibrationStep \/ DumpFails \/ NoShell
    PROVE  Goes
  <1>1. LoopLabels \subseteq Labels
    BY DEF LoopLabels, Labels, SendLabels, PnoLabels, IdleLabels
  <1>2. Mapless
    BY DEF SInv, InLoop, CalibrationStep, CalibrateStart, CalibrateFails, CalibrateSingle,
           CalibrateBore, CalibrateFirst, CalibrateWait, CalibrateReset, CalibrateSave,
           CalibrateDump, CalibrateEuler, CalibrateZero, CalibrateQuat, CalibrateSucceeds,
           CalibrateStep, AwaitFirst, AwaitMore, Done, DumpFails, NoShell
  <1>3. \A l \in LoopLabels : Ready(l) /\ Goto(l) => Goes
    BY <1>1, <1>2 DEF Goes
  <1>4. \A l \in {"lp_spin", "cal_single", "cal_bore", "cal_first", "cal_wait"} : Goto(l) => Goes
    BY <1>3, ReadyLabels DEF LoopLabels
  <1>5. CASE \/ CalibrateStart \/ CalibrateFails \/ CalibrateSingle \/ CalibrateBore
             \/ CalibrateSucceeds \/ NoShell
    BY <1>4, <1>5 DEF CalibrateStart, CalibrateFails, CalibrateSingle, CalibrateBore,
                      CalibrateSucceeds, CalibrateStep, NoShell
  <1>6. CASE CalibrateFirst \/ CalibrateWait
    <2>1. pc \in {"cal_first", "cal_wait"} /\ call = "done"
          /\ IF FrameIncomplete THEN Goto("cal_wait") ELSE Goto("cal_reset")
      BY <1>6 DEF CalibrateFirst, CalibrateWait, AwaitFirst, AwaitMore, Done
    <2>2. ~FrameIncomplete => ~Failed
      BY DEF SInv, LInv, TInv, TypeOK, LinkTypeOK, FrameIncomplete, Failed, RETURN_ERROR
    <2>3. ~FrameIncomplete => Ready("cal_reset")
      BY <2>1, <2>2, ReadyLabels DEF Using
    <2> QED
      BY <1>3, <1>4, <2>1, <2>3 DEF LoopLabels
  <1>7. CASE CalibrateReset
    <2>1. pc = "cal_reset" /\ call = "done" /\ Goto("cal_save")
      BY <1>7 DEF CalibrateReset, CalibrateStep, Done
    <2>2. Cleared /\ Using
      BY <2>1, DoneCalls DEF SInv, Using
    <2> QED
      BY <1>3, <2>1, <2>2, ReadyLabels DEF LoopLabels
  <1>8. CASE CalibrateSave \/ CalibrateDump \/ DumpFails
    <2>1. Cleared
      BY <1>8 DEF CalibrateSave, CalibrateDump, DumpFails, SInv, Orderly, StopLabels
    <2> QED
      BY <1>3, <1>8, <2>1, ReadyLabels DEF CalibrateSave, CalibrateDump, DumpFails, LoopLabels
  <1>9. CASE CalibrateEuler \/ CalibrateZero \/ CalibrateQuat
    <2>1. /\ pc \in {"cal_euler", "cal_zero", "cal_quat"} /\ call = "done" /\ ~Failed
          /\ Goto("cal_zero") \/ Goto("cal_quat") \/ Goto("cal_cont")
      BY <1>9 DEF CalibrateEuler, CalibrateZero, CalibrateQuat, CalibrateStep, Done
    <2>2. Still
      BY <2>1, DoneCalls DEF SInv, AckLabels
    <2>3. {"cal_zero", "cal_quat", "cal_cont"} \subseteq (AckLabels \cup ContLabels) \cap LoopLabels
      BY DEF AckLabels, ContLabels, LoopLabels
    <2> QED
      BY <1>3, <2>1, <2>2, <2>3, ReadyLabels
  <1> QED
    BY <1>5, <1>6, <1>7, <1>8, <1>9 DEF CalibrationStep

(* What is left of the next-state relation: a client, a signal, the clock. *)
Aside ==
    /\ UNCHANGED <<deviceVars, linkVars, pc, station_id, params, store>>
    /\ Pending => client' = client

Control == MainStep \/ SavedCalibrationStep \/ CalibrationStep \/ SourceStep \/ DumpFails \/ NoShell

LEMMA SoundSteps ==
    ASSUME SoundLink, [Next]_vars
    PROVE  Control \/ WriteMove \/ ReadMove \/ DeviceNext \/ Aside
  <1>1. CASE TransferStep
    BY <1>1 DEF TransferStep, Transfer, WriteMove, ReadMove
  <1>2. CASE FaultStep
    BY <1>2 DEF FaultStep, FaultyTransfer, WriteLost, WriteUnreported, ReadFaultStep, ReadFault,
                Fault, SoundLink, Control
  <1>3. CASE Environment
    BY <1>3 DEF Environment, RequestCalibration, RequestSource, ClientCalls, TimerExpires, Sigint,
                Relaunch, Fault, SoundLink, Aside
  <1>4. CASE Ended \/ UNCHANGED vars
    BY <1>4 DEF Ended, vars, appVars, Aside
  <1> QED
    BY <1>1, <1>2, <1>3, <1>4 DEF Next, DriverStep, Control

LEMMA AsideKeeps ==
    ASSUME SInv, Aside
    PROVE  Orderly' /\ Kinds' /\ Paired' /\ Timely' /\ Used' /\ (InLoop' => Mapless')
  <1>1. /\ UNCHANGED <<inbox, pipe, streaming, units, call, g_nrxcount, return_value, pno, pc,
                       station_id>>
        /\ Failed' = Failed /\ Owing' = Owing /\ FullSize' = FullSize /\ EffUnits' = EffUnits
    BY RoomStays DEF Aside, deviceVars, linkVars, Failed, Owing, EffUnits, UnitsAfter
  <1>2. pc = "src_set" => client' = client
    BY DEF Aside, SInv, LInv, TInv, SourceAccepted
  <1>3. Command(pc)' = Command(pc) /\ DataMode("DATA_RESET")' = DataMode("DATA_RESET")
    BY <1>1, <1>2, ResetCommand
    DEF Command, DataMode, ResetBoresight, RequestNumOfStations, DefineDataType, SetHemisphere,
        SetBoresight, SetSource, NoCommand, Fill
  <1>4. /\ Still' = Still /\ Caught' = Caught /\ ResetEnds' = ResetEnds
        /\ Owed(pipe', 1, Owing', Cont) = Owed(pipe, 1, Owing, Cont)
        /\ Cleared' = Cleared /\ Spoilt' = Spoilt
    BY <1>1, <1>3 DEF Still, Caught, ResetEnds, Closed, Cleared, Spoilt, NotUnits
  <1>5. First' = First /\ Roomy' = Roomy /\ ResetLast' = ResetLast
    BY <1>1, <1>3, <1>4 DEF First, Roomy, ResetLast
  <1>6. Orderly'
    BY <1>1, <1>4, <1>5
    DEF SInv, Orderly, AckCall, ContCall, ClearCall, LastCall, StopCall, EulerCall
  <1>7. Kinds' /\ Paired' /\ Timely' /\ Used' /\ (InLoop' => Mapless')
    BY <1>1 DEF SInv, Kinds, Paired, Closed, Timely, Used, Using, InLoop, Mapless
  <1> QED
    BY <1>6, <1>7

LEMMA ControlKeepsDevice ==
    ASSUME Control
    PROVE  UNCHANGED deviceVars
  <1>1. CASE MainStep
    BY <1>1 DEF MainStep, MainReset, MainBoresight, MainStations, MainQuaternion, MainHemisphere,
           MainContinuous, MainLoopError, MainLoopNoSensors, MainLoopPublish, RecoveryReset,
           RecoveryContinuous, SpinIdle, ShutDown, StartupStep, Elsewhere
  <1>2. CASE SavedCalibrationStep
    BY <1>2 DEF SavedCalibrationStep, SavedFirst, SavedWait, SavedTimeout, SavedReset, SavedEuler,
           SavedBoresight, SavedQuaternion, SavedContinuous, SavedFailed, SavedStep, AwaitFirst,
           AwaitMore, Elsewhere
  <1>3. CASE CalibrationStep
    BY <1>3 DEF CalibrationStep, CalibrateStart, CalibrateFails, CalibrateSingle, CalibrateBore,
           CalibrateFirst, CalibrateWait, CalibrateReset, CalibrateSave, CalibrateDump,
           CalibrateEuler, CalibrateZero, CalibrateQuat, CalibrateSucceeds, CalibrateStep,
           AwaitFirst, AwaitMore, Answer, Elsewhere
  <1>4. CASE SourceStep \/ DumpFails \/ NoShell
    BY <1>4 DEF SourceStep, SourceStart, SourceInvalid, SourceEnd, Answer, Elsewhere, DumpFails, NoShell
  <1> QED
    BY <1>1, <1>2, <1>3, <1>4 DEF Control

LEMMA ControlStays ==
    ASSUME Control
    PROVE  /\ pc \notin SetUpLabels => pc' \notin SetUpLabels
           /\ pc \in SetUpLabels => MainStep \/ SavedCalibrationStep
  <1>1. CASE MainStep
    BY <1>1 DEF MainStep, MainReset, MainBoresight, MainStations, MainQuaternion, MainHemisphere,
           MainContinuous, MainLoopError, MainLoopNoSensors, MainLoopPublish, RecoveryReset,
           RecoveryContinuous, SpinIdle, ShutDown, StartupStep, Done, LoopTop, Goto, SetUpLabels
  <1>2. CASE SavedCalibrationStep
    BY <1>2 DEF SavedCalibrationStep, SavedFirst, SavedWait, SavedTimeout, SavedReset, SavedEuler,
           SavedBoresight, SavedQuaternion, SavedContinuous, SavedFailed, SavedStep, AwaitFirst,
           AwaitMore, Done, Goto, SetUpLabels
  <1>3. CASE CalibrationStep
    BY <1>3 DEF CalibrationStep, CalibrateStart, CalibrateFails, CalibrateSingle, CalibrateBore,
           CalibrateFirst, CalibrateWait, CalibrateReset, CalibrateSave, CalibrateDump,
           CalibrateEuler, CalibrateZero, CalibrateQuat, CalibrateSucceeds, CalibrateStep,
           AwaitFirst, AwaitMore, Done, LoopTop, Goto, SetUpLabels
  <1>4. CASE SourceStep \/ DumpFails \/ NoShell
    BY <1>4 DEF SourceStep, SourceStart, SourceInvalid, SourceEnd, Done, LoopTop, Goto,
           DumpFails, NoShell, SetUpLabels
  <1> QED
    BY <1>1, <1>2, <1>3, <1>4 DEF Control

LEMMA LinkTypes ==
    ASSUME SoundLink, LInv, [Next]_vars
    PROVE  LInv'
  <1>1. TInv' /\ Calls' /\ Frame'
    BY FrameKept DEF LInv, FrameInv
  <1>2. sensors' = sensors
    <2>1. CASE WriteMove \/ ReadMove \/ DeviceNext \/ Aside
      BY <2>1, WriteMoves, ReadMoves, DeviceMoves DEF Aside, deviceVars
    <2>2. CASE Control
      BY <2>2, ControlKeepsDevice DEF deviceVars
    <2> QED
      BY <2>1, <2>2, SoundSteps
  <1> QED
    BY <1>1, <1>2 DEF LInv

LEMMA InitialLink == Init => SInv
  <1> SUFFICES ASSUME Init PROVE SInv
    OBVIOUS
  <1>1. /\ FrameInv /\ sensors = Stations
        /\ pc = "su_reset" /\ call = "send" /\ inbox = NoCommand /\ pipe = <<>>
    BY InitialFrame DEF Init, DeviceInit, LinkInit
  <1>2. Caught /\ Owing = "none"
    BY <1>1 DEF Caught, Owing, NoCommand, Run
  <1>3. Orderly
    BY <1>1, <1>2 DEF Orderly, ClearCall, Roomy, AckLabels, ContLabels, WaitLabels, StopLabels
  <1>4. Kinds /\ Paired /\ Timely /\ Used /\ ~InLoop
    BY <1>1, <1>2 DEF Kinds, Paired, Timely, Used, Using, InLoop
  <1> QED
    BY <1>1, <1>3, <1>4 DEF SInv, LInv, FrameInv

LEMMA SInvKept ==
    ASSUME SoundLink, SInv, [Next]_vars
    PROVE  SInv'
  <1>1. LInv'
    BY LinkTypes DEF SInv
  <1>2. CASE WriteMove
    BY <1>1, <1>2, OrderlyWrites, PipeWrites DEF SInv
  <1>3. CASE ReadMove
    BY <1>1, <1>3, OrderlyReads, PipeReads DEF SInv, LInv
  <1>4. CASE DeviceNext
    <2>1. Orderly' /\ Used'
      BY <1>4, OrderlyMoves
    <2>2. Kinds' /\ Paired' /\ Timely' /\ (Mapless => Mapless')
      BY <1>4, MovesKeepPipe DEF SInv
    <2>3. InLoop' => InLoop
      BY <1>4 DEF DeviceNext, appVars, InLoop
    <2> QED
      BY <1>1, <2>1, <2>2, <2>3 DEF SInv
  <1>5. CASE Aside
    BY <1>1, <1>5, AsideKeeps DEF SInv
  <1>6. CASE Control
    <2>1. Goes
      <3>1. CASE pc \in SetUpLabels
        BY <1>6, <3>1, SetUpGoes, CalibrationGoes, ControlStays DEF Control
      <3>2. CASE pc \notin SetUpLabels
        BY <1>6, <3>2, LoopGoes, CalibrationGoes DEF Control
      <3> QED
        BY <3>1, <3>2
    <2>2. UNCHANGED deviceVars
      BY <1>6, ControlKeepsDevice
    <2> QED
      BY <1>1, <2>1, <2>2, GotoReady DEF Goes, SInv
  <1> QED
    BY <1>2, <1>3, <1>4, <1>5, <1>6, SoundSteps

LEMMA SInvHolds == ASSUME SoundLink PROVE Spec => []SInv
  <1>1. SInv /\ [Next]_vars => SInv'
    BY SInvKept
  <1> QED
    BY <1>1, InitialLink, PTL DEF Spec

----------------------------------------------------------------------------
(* The driver publishes and saves the angles of a frame as a quaternion's. *)
(* Over a sound link they are Euler angles only while the device is in     *)
(* Euler units (where a calibration that missed the answer to EULER leaves *)
(* it), for any room in the pipe and any number of calibrations, back to   *)
(* back or not: EULER is sent only once the stream has stopped, and QUAT   *)
(* only when no frame is left.                                             *)
THEOREM EulerOnlyInEuler == ASSUME SoundLink PROVE Spec => EulerOnlyWhileEuler
  <1>1. SInv => ((MainLoopPublish \/ CalibrateSave) /\ pno.units = "euler" => EffUnits = "euler")
    <2> SUFFICES ASSUME SInv, MainLoopPublish \/ CalibrateSave PROVE Used /\ Using
      BY DEF Used
    <2>1. CASE MainLoopPublish
      BY <2>1 DEF MainLoopPublish, Done, Using, Failed, RETURN_ERROR, SInv
    <2>2. CASE CalibrateSave
      BY <2>2 DEF CalibrateSave, Using, SInv
    <2> QED
      BY <2>1, <2>2
  <1> QED
    BY <1>1, SInvHolds, PTL DEF EulerOnlyWhileEuler

(* A request for a calibration is answered with a failure only by          *)
(* calibrate's error returns.                                              *)
LEMMA CalibrationFails ==
    ASSUME SoundLink, SInv, [Next]_vars, Answers("calibrate", "failure")
    PROVE  CalibrateFails \/ NoShell
  <1>1. Pending /\ client.kind = "calibrate" /\ client'.reply = "failure" /\ client' # client
    BY DEF Answers, Pending
  <1>2. ~(WriteMove \/ ReadMove \/ DeviceNext \/ Aside)
    BY <1>1 DEF WriteMove, ReadMove, DeviceNext, Aside, appVars
  <1>3. ~MainStep
    BY <1>1 DEF MainStep, MainReset, MainBoresight, MainStations, MainQuaternion, MainHemisphere,
           MainContinuous, MainLoopError, MainLoopNoSensors, MainLoopPublish, RecoveryReset,
           RecoveryContinuous, SpinIdle, ShutDown, StartupStep, UnchangedApp
  <1>4. ~SavedCalibrationStep
    BY <1>1 DEF SavedCalibrationStep, SavedFirst, SavedWait, SavedTimeout, SavedReset, SavedEuler,
           SavedBoresight, SavedQuaternion, SavedContinuous, SavedFailed, SavedStep, AwaitFirst,
           AwaitMore, UnchangedApp
  <1>5. ~SourceStep
    BY <1>1 DEF SourceStep, SourceStart, SourceInvalid, SourceEnd, Done, UnchangedApp, SInv, LInv,
           TInv, SourceAccepted
  <1>6. ~CalibrateSucceeds
    BY <1>1 DEF CalibrateSucceeds, Answer, SInv, LInv, TInv, TypeOK, AppTypeOK
  <1>7. CalibrationStep => CalibrateFails
    BY <1>1, <1>6 DEF CalibrationStep, CalibrateStart, CalibrateSingle, CalibrateBore, CalibrateFirst,
           CalibrateWait, CalibrateReset, CalibrateSave, CalibrateDump, CalibrateEuler,
           CalibrateZero, CalibrateQuat, CalibrateStep, AwaitFirst, AwaitMore, UnchangedApp
  <1>8. ~DumpFails
    BY <1>1 DEF DumpFails, UnchangedApp
  <1> QED
    BY <1>2, <1>3, <1>4, <1>5, <1>7, <1>8, SoundSteps DEF Control

(* A calibration that has had its EULER acknowledged sets the data type    *)
(* back: over a sound link it does not fail any more, for any room in the  *)
(* pipe and any number of calibrations, because that acknowledgement was   *)
(* the last thing outstanding.                                             *)
THEOREM SetBackOnceEuler == ASSUME SoundLink PROVE Spec => SetsBackPastEuler
  <1>1. ASSUME SInv, [Next]_vars, Answers("calibrate", "failure") PROVE pc \notin PastEuler
    <2>1. CalibrateFails \/ NoShell
      BY <1>1, CalibrationFails
    <2>2. CASE NoShell
      BY <2>2 DEF NoShell, PastEuler
    <2>3. CASE CalibrateFails /\ pc \in PastEuler
      <3>1. call = "done" /\ Failed
        BY <2>3 DEF CalibrateFails, Done, PastEuler
      <3> QED
        BY <1>1, <2>3, <3>1, DoneCalls DEF PastEuler, SInv, AckLabels, ContLabels
    <2> QED
      BY <2>1, <2>2, <2>3
  <1>2. SInv /\ [Next]_vars => [Answers("calibrate", "failure") => pc \notin PastEuler]_vars
    BY <1>1
  <1> QED
    BY <1>2, SInvHolds, PTL DEF Spec, SetsBackPastEuler

----------------------------------------------------------------------------
(* Corrections are added in the order of the stations, from none, which is *)
(* what main's reset of the boresight leaves once it is written, whether   *)
(* or not its answer is the one main reads; nothing sends a second one to  *)
(* a station of the same life.                                             *)
Early == {"su_map", "su_quat", "su_hemi", "su_cont", "sv_first", "sv_wait", "sv_reset"}

BoresightSent == pc \in Early \/ (pc = "su_bore" /\ call # "send")

ZeroFrom(t) == \A s \in Stations : s >= t => EffLayers[s] = 0
ZeroAbove(t) == \A s \in Stations : s > t => EffLayers[s] = 0

Layered ==
    /\ LayeredAtMostOnce
    /\ BoresightSent => ZeroAbove(-1)
    /\ pc \in {"sv_euler", "sv_bore", "sv_quat"} => station_id \in Stations
    /\ pc = "sv_euler" \/ (pc = "sv_bore" /\ call = "send") => ZeroFrom(station_id)
    /\ pc \in {"sv_bore", "sv_quat"} => ZeroAbove(station_id)

LEMMA BoreCommands ==
    Command(pc).cmd = "BORESIGHT" =>
       \/ /\ pc \in {"su_bore", "cal_bore", "cal_zero"}
          /\ Command(pc).cfg # "correction" /\ Command(pc).station = AllStations
       \/ /\ pc = "sv_bore"
          /\ Command(pc).cfg = "correction" /\ Command(pc).station = station_id
  <1>1. CASE pc \in {"su_bore", "cal_bore"}
    BY <1>1 DEF Command, ResetBoresight, Fill
  <1>2. CASE pc = "sv_bore"
    BY <1>2 DEF Command, SetBoresight, Fill
  <1>3. CASE pc = "cal_zero"
    BY <1>3 DEF Command, SetBoresight, Fill
  <1>4. CASE pc \notin {"su_bore", "cal_bore", "sv_bore", "cal_zero"}
    <2>1. /\ DataMode("DATA_RESET").cmd # "BORESIGHT" /\ DataMode("DATA_CONTINUOUS").cmd # "BORESIGHT"
          /\ DataMode("DATA_SINGLE").cmd # "BORESIGHT" /\ RequestNumOfStations.cmd # "BORESIGHT"
          /\ SetHemisphere.cmd # "BORESIGHT" /\ NoCommand.cmd # "BORESIGHT"
          /\ \A u : DefineDataType(u).cmd # "BORESIGHT"
          /\ \A n, s : SetSource(n, s).cmd # "BORESIGHT"
      BY DEF DataMode, RequestNumOfStations, SetHemisphere, NoCommand, DefineDataType, SetSource, Fill
    <2> QED
      BY <1>4, <2>1 DEF Command
  <1> QED
    BY <1>1, <1>2, <1>3, <1>4

LEMMA StationOrder == \A s \in Stations : s \in Int /\ s > -1 /\ s # AllStations
  BY DEF AllStations

LEMMA LayeredWrites ==
    ASSUME SoundLink, LInv, Layered, WriteMove
    PROVE  Layered'
  <1>1. /\ call = "send" /\ call' # "send" /\ pc' = pc /\ station_id' = station_id
        /\ layers' = layers /\ inbox' = Command(pc) /\ inbox = NoCommand
    <2>1. inbox = NoCommand /\ station_id' = station_id
      BY DEF WriteMove, WriteOk, appVars
    <2> QED
      BY <2>1, WriteMoves
  <1>2. \A s \in Stations : EffLayers[s] = layers[s]
    BY <1>1 DEF EffLayers, LayersAfter, NoCommand
  <1>3. \A s \in Stations : layers[s] \in 0..MaxLayers
    BY DEF LInv, TInv, TypeOK, DeviceTypeOK
  <1>4. CASE Command(pc).cmd # "BORESIGHT"
    <2>1. \A s \in Stations : EffLayers'[s] = EffLayers[s]
      BY <1>1, <1>2, <1>4 DEF EffLayers, LayersAfter
    <2>2. pc # "sv_bore" /\ pc # "su_bore"
      BY <1>4 DEF Command, SetBoresight, ResetBoresight, Fill
    <2> QED
      BY <1>1, <2>1, <2>2 DEF Layered, LayeredAtMostOnce, BoresightSent, ZeroFrom, ZeroAbove
  <1>5. CASE /\ pc \in {"su_bore", "cal_bore", "cal_zero"} /\ Command(pc).cmd = "BORESIGHT"
             /\ Command(pc).cfg # "correction" /\ Command(pc).station = AllStations
    <2>1. \A s \in Stations : EffLayers'[s] = 0
      BY <1>1, <1>5 DEF EffLayers, LayersAfter, Addressed
    <2> QED
      BY <1>1, <1>5, <2>1 DEF Layered, LayeredAtMostOnce, ZeroFrom, ZeroAbove
  <1>6. CASE /\ pc = "sv_bore" /\ Command(pc).cmd = "BORESIGHT"
             /\ Command(pc).cfg = "correction" /\ Command(pc).station = station_id
    <2>1. station_id \in Stations /\ \A s \in Stations : s >= station_id => layers[s] = 0
      BY <1>1, <1>2, <1>6 DEF Layered, ZeroFrom
    <2>2. \A s \in Stations : s # station_id => EffLayers'[s] = layers[s]
      BY <1>1, <1>6, <2>1, StationOrder DEF EffLayers, LayersAfter, Addressed
    <2>3. EffLayers'[station_id] = 1
      <3>1. layers[station_id] = 0
        BY <2>1, StationOrder
      <3> QED
        BY <1>1, <1>6, <2>1, <3>1 DEF EffLayers, LayersAfter, Addressed, MaxLayers
    <2>4. LayeredAtMostOnce'
      BY <1>2, <2>2, <2>3 DEF Layered, LayeredAtMostOnce
    <2>5. ZeroAbove(station_id)'
      BY <1>1, <2>1, <2>2, StationOrder DEF ZeroAbove
    <2> QED
      BY <1>1, <1>6, <2>1, <2>4, <2>5 DEF Layered, BoresightSent, Early
  <1> QED
    BY <1>4, <1>5, <1>6, BoreCommands

LEMMA LayeredStands ==
    ASSUME Layered, EffLayers' = EffLayers, UNCHANGED <<pc, station_id>>,
           call' = "send" <=> call = "send"
    PROVE  Layered'
  BY DEF Layered, LayeredAtMostOnce, BoresightSent, ZeroFrom, ZeroAbove

(* From no correction at all, the first station is any.                    *)
LEMMA NextStationLayered ==
    ASSUME LInv, LayeredAtMostOnce, EffLayers' = EffLayers, NEW t \in Int, NextStation(t), ZeroAbove(t)
    PROVE  Layered'
  <1>1. CASE Goto("sv_cont")
    BY <1>1 DEF Goto, Layered, LayeredAtMostOnce, BoresightSent, Early
  <1>2. ASSUME NEW u \in params, IsNext(u, t), station_id' = u, Goto("sv_euler")
        PROVE  Layered'
    <2>1. u \in Stations /\ u > t
      BY <1>2 DEF IsNext, LInv, TInv, TypeOK, LinkTypeOK
    <2>2. ZeroFrom(u)'
      BY <2>1, StationOrder DEF ZeroFrom, ZeroAbove
    <2> QED
      BY <1>2, <2>1, <2>2 DEF Goto, Layered, LayeredAtMostOnce, BoresightSent, Early, ZeroFrom
  <1> QED
    BY <1>1, <1>2 DEF NextStation

LEMMA LayeredGoes ==
    ASSUME SoundLink, SInv, Layered, pc \in SetUpLabels,
           MainStep \/ SavedCalibrationStep
    PROVE  Layered'
  <1>0. LInv
    BY DEF SInv
  <1>1. UNCHANGED deviceVars /\ call = "done"
    <2>1. call = "done"
      BY DEF MainStep, SavedCalibrationStep, MainReset, MainBoresight, MainStations, MainQuaternion,
             MainHemisphere, MainContinuous, MainLoopError, MainLoopNoSensors, MainLoopPublish,
             RecoveryReset, RecoveryContinuous, SpinIdle, ShutDown, StartupStep, SavedFirst, SavedWait,
             SavedTimeout, SavedReset, SavedEuler, SavedBoresight, SavedQuaternion, SavedContinuous,
             SavedFailed, SavedStep, AwaitFirst, AwaitMore, Done, SetUpLabels
    <2> QED
      BY <2>1, ControlKeepsDevice DEF Control
  <1>2. EffLayers' = EffLayers
    BY <1>1, UnchangedKeepsEffects DEF deviceVars, DeviceState
  <1>3. pc \in {"sv_reset", "sv_euler", "sv_bore", "sv_quat"} => ~Failed
    BY <1>1, DoneCalls DEF SInv, AckLabels, ClearLabels
  <1>4. /\ BoresightSent => ZeroAbove(-1)
        /\ pc \in Early \cup {"su_bore"} => BoresightSent
    BY <1>1 DEF Layered, BoresightSent
  <1>5. ASSUME NEW l \in Early \cup {"su_bore", "exited", "sv_fail", "sv_cont", "lp_recv"}, Goto(l),
               l \in Early => BoresightSent
        PROVE  Layered'
    <2>1. pc' = l /\ (l = "su_bore" => call' = "send")
      BY <1>5 DEF Goto, StartSend, SendLabels
    <2> QED
      BY <1>2, <1>4, <1>5, <2>1 DEF Layered, LayeredAtMostOnce, BoresightSent, ZeroAbove, Early
  <1>6. CASE MainReset \/ MainBoresight \/ MainStations \/ MainQuaternion \/ MainHemisphere
    BY <1>4, <1>5, <1>6
    DEF MainReset, MainBoresight, MainStations, MainQuaternion, MainHemisphere, StartupStep,
        OnResult, Done, Early
  <1>7. CASE MainContinuous
    <2>1. ZeroAbove(-1) /\ BoresightSent
      BY <1>4, <1>7 DEF MainContinuous, Done, Early
    <2>2. CASE NextStation(-1)
      BY <1>0, <1>2, <2>1, <2>2, NextStationLayered DEF Layered
    <2>3. CASE Goto("exited") \/ Goto("sv_first")
      BY <1>5, <2>1, <2>3 DEF Early
    <2> QED
      BY <1>7, <2>2, <2>3 DEF MainContinuous
  <1>8. CASE SavedFirst \/ SavedWait \/ SavedTimeout
    BY <1>4, <1>5, <1>8 DEF SavedFirst, SavedWait, SavedTimeout, AwaitFirst, AwaitMore, Done, Early
  <1>9. CASE SavedReset
    <2>1. ZeroAbove(-1) /\ ~Failed
      BY <1>3, <1>4, <1>9 DEF SavedReset, Done, Early
    <2>2. NextStation(-1)
      BY <1>9, <2>1 DEF SavedReset
    <2> QED
      BY <1>0, <1>2, <2>1, <2>2, NextStationLayered DEF Layered
  <1>10. CASE SavedEuler
    <2>1. ZeroFrom(station_id) /\ station_id \in Stations /\ ~Failed
      BY <1>3, <1>10 DEF SavedEuler, SavedStep, Done, Layered
    <2>2. Goto("sv_bore") /\ station_id' = station_id
      BY <1>10, <2>1 DEF SavedEuler, SavedStep
    <2>3. ZeroFrom(station_id)' /\ ZeroAbove(station_id)'
      BY <1>2, <2>1, <2>2, StationOrder DEF ZeroFrom, ZeroAbove
    <2> QED
      BY <1>2, <2>1, <2>2, <2>3 DEF Layered, LayeredAtMostOnce, BoresightSent, Goto, Early
  <1>11. CASE SavedBoresight
    <2>1. ZeroAbove(station_id) /\ station_id \in Stations /\ ~Failed
      BY <1>3, <1>11 DEF SavedBoresight, SavedStep, Done, Layered
    <2>2. Goto("sv_quat") /\ station_id' = station_id
      BY <1>11, <2>1 DEF SavedBoresight, SavedStep
    <2> QED
      BY <1>2, <2>1, <2>2 DEF Layered, LayeredAtMostOnce, BoresightSent, Goto, Early, ZeroAbove
  <1>12. CASE SavedQuaternion
    <2>1. ZeroAbove(station_id) /\ station_id \in Int /\ ~Failed
      BY <1>3, <1>12, StationOrder DEF SavedQuaternion, Done, Layered
    <2>2. NextStation(station_id)
      BY <1>12, <2>1 DEF SavedQuaternion
    <2> QED
      BY <1>0, <1>2, <2>1, <2>2, NextStationLayered DEF Layered
  <1>13. CASE SavedContinuous
    BY <1>5, <1>13 DEF SavedContinuous, OnResult, Early
  <1>14. ~(\/ MainLoopError \/ MainLoopNoSensors \/ MainLoopPublish \/ RecoveryReset
           \/ RecoveryContinuous \/ SpinIdle \/ ShutDown \/ SavedFailed)
    BY DEF MainLoopError, MainLoopNoSensors, MainLoopPublish, RecoveryReset, RecoveryContinuous,
           SpinIdle, ShutDown, SavedFailed, Done, SetUpLabels
  <1> QED
    BY <1>6, <1>7, <1>8, <1>9, <1>10, <1>11, <1>12, <1>13, <1>14 DEF MainStep, SavedCalibrationStep

LEMMA LayeredKept ==
    ASSUME SoundLink, SInv, Layered, [Next]_vars
    PROVE  Layered'
  <1>1. LInv /\ Layered
    BY DEF SInv
  <1>2. CASE WriteMove
    BY <1>1, <1>2, LayeredWrites
  <1>3. CASE ReadMove
    <2>1. UNCHANGED DeviceState /\ pc' = pc /\ station_id' = station_id
      BY <1>3 DEF ReadMove, ReadStep, UnchangedByRead, DeviceState, appVars
    <2>2. call' # "send" /\ call # "send"
      BY <1>3 DEF ReadMove, ReadStep, ReceiveDataFrame, ReceiveStationMap, ReceivePno, ClearInput,
                  ReadFailed, ReplyMissed, Return
    <2> QED
      BY <1>1, <2>1, <2>2, UnchangedKeepsEffects, LayeredStands
  <1>4. CASE DeviceNext
    <2>1. DeviceExecute \/ DeviceStream
      BY <1>4 DEF DeviceNext, DeviceStep, DeviceRefuse, SensorChange, Fault, SoundLink
    <2>2. EffLayers' = EffLayers
      BY <1>1, <2>1, ExecuteKeepsEffects, UnchangedKeepsEffects
      DEF DeviceStream, DeviceState, LInv, TInv, TypeOK
    <2> QED
      BY <1>1, <1>4, <2>2, LayeredStands DEF DeviceNext, linkVars, appVars
  <1>5. CASE Aside
    <2>1. EffLayers' = EffLayers
      BY <1>5, UnchangedKeepsEffects DEF Aside, deviceVars, DeviceState
    <2> QED
      BY <1>1, <1>5, <2>1, LayeredStands DEF Aside, linkVars
  <1>6. CASE /\ pc \notin SetUpLabels
             /\ Control
    <2>1. pc' \notin SetUpLabels
      BY <1>6, ControlStays
    <2>2. EffLayers' = EffLayers
      BY <1>6, ControlKeepsDevice, UnchangedKeepsEffects DEF deviceVars, DeviceState
    <2> QED
      BY <1>1, <2>1, <2>2 DEF Layered, LayeredAtMostOnce, BoresightSent, SetUpLabels, Early
  <1>7. CASE /\ pc \in SetUpLabels
             /\ Control
    BY <1>1, <1>7, ControlStays, LayeredGoes
  <1> QED
    BY <1>2, <1>3, <1>4, <1>5, <1>6, <1>7, SoundSteps

LEMMA InitialLayers == Init => Layered
  <1> SUFFICES ASSUME Init PROVE Layered
    OBVIOUS
  <1>1. \A s \in Stations : EffLayers[s] = 0
    BY DEF Init, DeviceInit, EffLayers, LayersAfter, NoCommand
  <1>2. pc = "su_reset"
    BY DEF Init
  <1> QED
    BY <1>1, <1>2 DEF Layered, LayeredAtMostOnce, BoresightSent, Early

(* No station ever carries two corrections, for any number of stations and *)
(* requests, and any room in the pipe: main has reset the boresight when it*)
(* sends the saved ones, each of them is acknowledged the first time, so it*)
(* sends one to each station, and a calibration leaves none.               *)
THEOREM LayeredOnce == ASSUME SoundLink PROVE Spec => []LayeredAtMostOnce
  <1>1. SInv /\ Layered /\ [Next]_vars => Layered'
    BY LayeredKept
  <1>2. Layered => LayeredAtMostOnce
    BY DEF Layered
  <1> QED
    BY <1>1, <1>2, InitialLayers, SInvHolds, PTL DEF Spec
=============================================================================

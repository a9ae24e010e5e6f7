------------------------ MODULE ViperOutcomeProofs ------------------------
(***************************************************************************)
(* What a success of the driver means for the device, for every value of   *)
(* the constants that lets the device refuse nothing: main's entry into    *)
(* its loop, a calibration and a source selection reported as done.        *)
(*                                                                         *)
(* A reply does not say which command it answers, so the argument is about *)
(* the command in the OUT pipe instead.  Outcome says that a command whose *)
(* write went through has its effect on the device as it will be (the Eff  *)
(* operators), and that later labels keep it: only writes change the Eff   *)
(* operators, because the device takes every command it is sent.  The last *)
(* part shows, from the same invariant, that the driver implements         *)
(* TrackerService.                                                         *)
(***************************************************************************)
EXTENDS ViperTypeProofs

USE StationsAssumption, DeviceAssumption, DriverAssumption

NoRefusals == "nak" \notin Faults

SourceSet == \A s \in Requested : EffSrcmap[s] = SourceMap(client.source)

(* The command of pc has been written and not been found to fail.          *)
Sent == call = "reply" \/ (call = "done" /\ ~Failed)

QuatLabels == {"su_hemi", "su_cont", "sv_first", "sv_wait", "sv_reset", "sv_cont", "cal_cont"}
ZeroLabels == {"cal_quat", "cal_cont"}
CalLabels  == {"cal_single", "cal_bore", "cal_first", "cal_wait", "cal_reset", "cal_save",
               "cal_dump", "cal_euler", "cal_zero", "cal_quat", "cal_cont"}

SentLabels == {"su_quat", "sv_quat", "cal_quat", "sv_cont", "cal_cont", "cal_zero", "src_set"}

Outcome ==
    /\ pc \in SentLabels => call \in {"send", "reply", "done"}
    /\ pc \in QuatLabels => EffUnits = "quat"
    /\ pc \in ZeroLabels => Zero
    /\ pc \in {"su_quat", "sv_quat", "cal_quat"} /\ Sent => EffUnits = "quat"
    /\ pc \in {"sv_cont", "cal_cont"} /\ Sent => EffStreaming
    /\ pc = "cal_zero" /\ Sent => Zero
    /\ pc = "src_set" /\ Sent => SourceSet

(* The procedure that runs is the one the pending request asked for.       *)
Serves == pc \in CalLabels => Pending /\ client.kind = "calibrate"

OInv == TInv /\ Serves /\ Outcome

----------------------------------------------------------------------------
(* Carrying a command out does not change what the Eff operators say.      *)
LEMMA ExecuteKeepsEffects ==
    ASSUME DeviceTypeOK, DeviceExecute
    PROVE  /\ EffUnits' = EffUnits
           /\ EffStreaming => EffStreaming'
           /\ EffZeroed' = EffZeroed
           /\ EffLayers' = EffLayers
           /\ EffSrcmap' = EffSrcmap
  <1>1. inbox' = NoCommand /\ NoCommand.cmd = "none"
    BY DEF DeviceExecute, NoCommand
  <1>2. EffUnits' = EffUnits
    BY <1>1 DEF DeviceExecute, EffUnits, UnitsAfter
  <1>3. EffStreaming => EffStreaming'
    BY <1>1 DEF DeviceExecute, EffStreaming, StreamingAfter
  <1>4. EffZeroed' = EffZeroed
    BY <1>1 DEF DeviceExecute, EffZeroed, ZeroedAfter
  <1>5. EffLayers' = EffLayers
    <2>1. EffLayers' = [s \in Stations |-> layers'[s]]
      BY <1>1 DEF EffLayers, LayersAfter
    <2>2. layers' = EffLayers /\ EffLayers = [s \in Stations |-> EffLayers[s]]
      BY DEF DeviceExecute, EffLayers, LayersAfter
    <2> QED
      BY <2>1, <2>2
  <1>6. EffSrcmap' = EffSrcmap
    <2>1. EffSrcmap' = [s \in Stations |-> srcmap'[s]]
      BY <1>1 DEF EffSrcmap, SrcmapAfter
    <2>2. srcmap' = EffSrcmap /\ EffSrcmap = [s \in Stations |-> EffSrcmap[s]]
      BY DEF DeviceExecute, EffSrcmap, SrcmapAfter
    <2> QED
      BY <2>1, <2>2
  <1> QED
    BY <1>2, <1>3, <1>4, <1>5, <1>6

(* Nor does anything that leaves the command and these parts of the device *)
(* alone.                                                                  *)
DeviceState == <<inbox, streaming, units, layers, zeroed, srcmap>>

LEMMA UnchangedKeepsEffects ==
    ASSUME UNCHANGED DeviceState
    PROVE  /\ EffUnits' = EffUnits
           /\ EffStreaming' = EffStreaming
           /\ EffZeroed' = EffZeroed
           /\ EffLayers' = EffLayers
           /\ EffSrcmap' = EffSrcmap
  BY DEF DeviceState, EffUnits, EffStreaming, EffZeroed, EffLayers, EffSrcmap,
         UnitsAfter, StreamingAfter, ZeroedAfter, LayersAfter, SrcmapAfter, Addressed

(* Therefore Outcome survives both as long as the driver stands still.     *)
LEMMA OutcomeStays ==
    ASSUME OInv, (DeviceTypeOK /\ DeviceExecute) \/ UNCHANGED DeviceState,
           pc' = pc, client' = client,
           pc \in SentLabels => call' \in {"send", "reply", "done"} /\ (Sent' => Sent)
    PROVE  Outcome'
  <1>1. /\ EffUnits' = EffUnits
        /\ EffStreaming => EffStreaming'
        /\ Zero' = Zero
        /\ SourceSet' = SourceSet
    BY ExecuteKeepsEffects, UnchangedKeepsEffects DEF Zero, SourceSet, Requested, Addressed
  <1> QED
    BY <1>1 DEF OInv, Outcome, SentLabels

(* A write that went through sets what its command is about and keeps the  *)
(* rest.                                                                   *)
LEMMA WriteSetsEffects ==
    ASSUME DeviceTypeOK, inbox = NoCommand, NEW c, inbox' = c,
           UNCHANGED <<streaming, units, layers, zeroed, srcmap>>
    PROVE  /\ EffUnits' = IF c.cmd = "UNITS" THEN c.cfg ELSE EffUnits
           /\ c.cmd = "CONTINUOUS_PNO" /\ c.action = "SET" => EffStreaming'
           /\ c.cmd = "BORESIGHT" /\ c.cfg = "zero" /\ c.station = AllStations => Zero'
           /\ c.cmd # "BORESIGHT" => (Zero' <=> Zero)
           /\ c.cmd = "SRC_SELECT" => \A s \in Addressed(c) : EffSrcmap'[s] = c.map
  <1>1. NoCommand.cmd = "none"
    BY DEF NoCommand
  <1>2. EffUnits' = IF c.cmd = "UNITS" THEN c.cfg ELSE EffUnits
    BY <1>1 DEF EffUnits, UnitsAfter
  <1>3. c.cmd = "CONTINUOUS_PNO" /\ c.action = "SET" => EffStreaming'
    BY DEF EffStreaming, StreamingAfter
  <1>4. c.cmd = "BORESIGHT" /\ c.cfg = "zero" /\ c.station = AllStations => Zero'
    BY DEF Zero, EffZeroed, ZeroedAfter, EffLayers, LayersAfter, Addressed
  <1>5. ASSUME c.cmd # "BORESIGHT" PROVE Zero' <=> Zero
    BY <1>1, <1>5 DEF Zero, EffZeroed, ZeroedAfter, EffLayers, LayersAfter
  <1>6. c.cmd = "SRC_SELECT" => \A s \in Addressed(c) : EffSrcmap'[s] = c.map
    BY DEF EffSrcmap, SrcmapAfter, Addressed
  <1> QED
    BY <1>2, <1>3, <1>4, <1>5, <1>6

(* The commands of the labels Outcome speaks of.                           *)
LEMMA LabelCommands ==
    /\ pc \in {"su_quat", "sv_quat", "cal_quat"} =>
          Command(pc).cmd = "UNITS" /\ Command(pc).cfg = "quat"
    /\ pc \in {"sv_cont", "cal_cont"} =>
          Command(pc).cmd = "CONTINUOUS_PNO" /\ Command(pc).action = "SET"
    /\ pc = "cal_zero" => /\ Command(pc).cmd = "BORESIGHT" /\ Command(pc).cfg = "zero"
                          /\ Command(pc).station = AllStations
    /\ pc = "src_set" => /\ Command(pc).cmd = "SRC_SELECT"
                         /\ Command(pc).map = SourceMap(client.source)
                         /\ Addressed(Command(pc)) = Requested
    /\ pc \in QuatLabels => Command(pc).cmd # "UNITS"
    /\ pc \in ZeroLabels => Command(pc).cmd # "BORESIGHT"
  <1> USE DEF Command, Fill
  <1>1. pc \in {"su_quat", "sv_quat", "cal_quat"} =>
          Command(pc).cmd = "UNITS" /\ Command(pc).cfg = "quat"
    BY DEF DefineDataType
  <1>2. pc \in {"sv_cont", "cal_cont"} =>
          Command(pc).cmd = "CONTINUOUS_PNO" /\ Command(pc).action = "SET"
    BY DEF DataMode
  <1>3. pc = "cal_zero" => /\ Command(pc).cmd = "BORESIGHT" /\ Command(pc).cfg = "zero"
                          /\ Command(pc).station = AllStations
    BY DEF SetBoresight
  <1>4. pc = "src_set" => Command(pc) = SetSource(client.source, client.station)
    BY DEF SetSource
  <1>5. pc = "src_set" => /\ Command(pc).cmd = "SRC_SELECT"
                         /\ Command(pc).map = SourceMap(client.source)
                         /\ Addressed(Command(pc)) = Requested
    BY <1>4 DEF SetSource, Requested
  <1>6. pc \in QuatLabels => Command(pc).cmd # "UNITS"
    BY DEF QuatLabels, DataMode, SetHemisphere, NoCommand
  <1>7. pc \in ZeroLabels => Command(pc).cmd # "BORESIGHT"
    BY DEF ZeroLabels, DataMode, DefineDataType
  <1> QED
    BY <1>1, <1>2, <1>3, <1>5, <1>6, <1>7

LEMMA WriteOutcome ==
    ASSUME OInv, UNCHANGED appVars, NEW c, c = Command(pc),
           WriteOk(c) \/ WriteLost(c) \/ WriteUnreported(c)
    PROVE  Outcome'
  <1>1. DeviceTypeOK /\ pc' = pc /\ client' = client
    BY DEF OInv, TInv, TypeOK, appVars
  <1>2. UNCHANGED <<streaming, units, layers, zeroed, srcmap>>
    BY DEF WriteOk, WriteLost, WriteUnreported, UnchangedByWrite
  <1>3. pc \in SentLabels => call' \in {"reply", "done"} /\ (call' = "done" => Failed')
    <2>1. /\ DataMode("DATA_RESET").cmd = "CONTINUOUS_PNO" /\ DataMode("DATA_RESET").action = "RESET"
          /\ RequestNumOfStations.cmd = "STATION_MAP"
      BY DEF DataMode, RequestNumOfStations, Fill
    <2>2. pc \in SentLabels => c # DataMode("DATA_RESET") /\ c # RequestNumOfStations
      BY <2>1, LabelCommands DEF SentLabels
    <2> QED
      BY <2>2 DEF WriteOk, WriteLost, WriteUnreported, AfterWrite, Failed
  <1>4. CASE inbox' = c /\ inbox = NoCommand
    <2>1. /\ EffUnits' = IF c.cmd = "UNITS" THEN c.cfg ELSE EffUnits
          /\ c.cmd = "CONTINUOUS_PNO" /\ c.action = "SET" => EffStreaming'
          /\ c.cmd = "BORESIGHT" /\ c.cfg = "zero" /\ c.station = AllStations => Zero'
          /\ c.cmd # "BORESIGHT" => (Zero' <=> Zero)
          /\ c.cmd = "SRC_SELECT" => \A s \in Addressed(c) : EffSrcmap'[s] = c.map
      BY <1>1, <1>2, <1>4, WriteSetsEffects
    <2>2. pc = "src_set" => SourceSet'
      BY <1>1, <2>1, LabelCommands DEF SourceSet, Requested, Addressed
    <2> QED
      BY <1>1, <1>4, <2>1, <2>2, <1>3, LabelCommands DEF OInv, Outcome
  <1>5. CASE UNCHANGED inbox /\ WriteLost(c)
    <2>1. pc \in SentLabels => ~Sent'
      BY <1>5, <1>3 DEF WriteLost, AfterWrite, Sent, Failed
    <2> QED
      BY <1>1, <1>2, <1>5, <1>3, <2>1, OutcomeStays DEF DeviceState
  <1> QED
    BY <1>4, <1>5 DEF WriteOk, WriteLost, WriteUnreported

(* A read at one of those labels is for the reply to their command: it     *)
(* leaves it sent or finds it failed.                                      *)
LEMMA ReadOutcome ==
    ASSUME OInv, UNCHANGED appVars, NEW c, ReadStep(c) \/ ReadFaultStep
    PROVE  Outcome'
  <1>1. pc' = pc /\ client' = client /\ UNCHANGED DeviceState
    BY DEF ReadStep, ReadFaultStep, UnchangedByRead, DeviceState, appVars
  <1>2. call \in {"reply", "map", "pno", "clear"}
    BY DEF ReadStep, ReadFaultStep, ReadFailed, ReceiveDataFrame, ReceiveStationMap, ReceivePno,
           ClearInput
  <1>3. ASSUME pc \in SentLabels PROVE call' \in {"send", "reply", "done"} /\ (Sent' => Sent)
    <2>1. call = "reply"
      BY <1>2, <1>3 DEF OInv, Outcome
    <2>2. call' \in {"reply", "done"}
      BY <2>1 DEF ReadStep, ReadFaultStep, ReadFailed, ReceiveDataFrame, ReceiveStationMap,
                  ReceivePno, ClearInput, ReplyMissed, Return
    <2> QED
      BY <2>1, <2>2 DEF Sent
  <1> QED
    BY <1>1, <1>3, OutcomeStays

----------------------------------------------------------------------------
(* Going to a label writes nothing, and the next command is not sent yet.  *)
LEMMA GotoOutcome ==
    ASSUME UNCHANGED deviceVars, NEW l \in Labels, Goto(l),
           l \in QuatLabels => EffUnits = "quat",
           l \in ZeroLabels => Zero
    PROVE  Outcome'
  <1>1. pc' = l /\ ~Sent'
    BY DEF Goto, StartSend, StartPno, StartIdle, Sent
  <1>2. l \in SentLabels => call' = "send"
    BY DEF Goto, StartSend, SentLabels, SendLabels
  <1>3. EffUnits' = EffUnits /\ Zero' = Zero
    BY UnchangedKeepsEffects DEF deviceVars, DeviceState, Zero
  <1> QED
    BY <1>1, <1>2, <1>3 DEF Outcome, SentLabels

(* Most labels are beyond Outcome when they are reached.                   *)
Quiet == Labels \ (QuatLabels \cup ZeroLabels \cup CalLabels)

LEMMA GotoQuiet ==
    ASSUME UNCHANGED deviceVars, \E l \in Quiet : Goto(l)
    PROVE  Outcome' /\ Serves'
  <1>1. PICK l \in Quiet : Goto(l)
    OBVIOUS
  <1>2. pc' = l /\ l \in Labels
    BY <1>1 DEF Goto, Quiet
  <1>3. Outcome'
    BY <1>1, GotoOutcome DEF Quiet
  <1> QED
    BY <1>2, <1>3 DEF Serves, Quiet

(* A label after which the units are quaternions.                          *)
LEMMA GotoQuat ==
    ASSUME UNCHANGED deviceVars, EffUnits = "quat",
           \E l \in Labels \ (ZeroLabels \cup CalLabels) : Goto(l)
    PROVE  Outcome' /\ Serves'
  <1>1. PICK l \in Labels \ (ZeroLabels \cup CalLabels) : Goto(l)
    OBVIOUS
  <1>2. pc' = l
    BY <1>1 DEF Goto
  <1>3. Outcome'
    BY <1>1, GotoOutcome
  <1> QED
    BY <1>1, <1>2, <1>3 DEF Serves

LEMMA QuietLabels ==
    /\ {"su_bore", "su_map", "su_quat", "exited", "lp_recv", "lp_reset", "lp_cont", "lp_spin",
        "sd_reset", "sv_euler", "sv_bore", "sv_quat", "sv_fail", "src_set"} \subseteq Quiet
    /\ Quiet \cup {"su_hemi", "su_cont", "sv_first", "sv_wait", "sv_reset", "sv_cont"}
          \subseteq Labels \ (ZeroLabels \cup CalLabels)
    /\ CalLabels \subseteq Labels
  BY DEF Quiet, Labels, SendLabels, PnoLabels, IdleLabels, QuatLabels, ZeroLabels, CalLabels

LEMMA MainOutcome == OInv /\ MainStep => Outcome' /\ Serves'
  <1> SUFFICES ASSUME OInv, MainStep PROVE Outcome' /\ Serves'
    OBVIOUS
  <1>0. UNCHANGED deviceVars
    BY DEF MainStep, MainReset, MainBoresight, MainStations, MainQuaternion, MainHemisphere,
           StartupStep, MainContinuous, MainLoopError, MainLoopNoSensors, MainLoopPublish,
           RecoveryReset, RecoveryContinuous, SpinIdle, ShutDown, Elsewhere
  <1>1. CASE MainReset \/ MainBoresight \/ MainStations
    <2>1. \E l \in {"su_bore", "su_map", "su_quat", "exited"} : Goto(l)
      BY <1>1 DEF MainReset, MainBoresight, MainStations, StartupStep, OnResult
    <2> QED
      BY <1>0, <2>1, QuietLabels, GotoQuiet
  <1>2. CASE MainQuaternion \/ MainHemisphere
    <2>1. Goto("exited") \/ Goto("su_hemi") \/ Goto("su_cont")
      BY <1>2 DEF MainQuaternion, MainHemisphere, StartupStep, OnResult
    <2>2. Goto("exited") \/ EffUnits = "quat"
      BY <1>2 DEF MainQuaternion, MainHemisphere, StartupStep, OnResult, Done, OInv, Outcome,
                  QuatLabels, Sent
    <2> QED
      BY <1>0, <2>1, <2>2, QuietLabels, GotoQuiet, GotoQuat
  <1>3. CASE MainContinuous
    <2>1. EffUnits = "quat"
      BY <1>3 DEF MainContinuous, Done, OInv, Outcome, QuatLabels
    <2>2. \E l \in {"exited", "sv_first", "sv_euler", "sv_cont"} : Goto(l)
      BY <1>3 DEF MainContinuous, NextStation
    <2> QED
      BY <1>0, <2>1, <2>2, QuietLabels, GotoQuat
  <1>4. CASE \/ MainLoopError \/ MainLoopNoSensors \/ MainLoopPublish
             \/ RecoveryReset \/ RecoveryContinuous \/ SpinIdle \/ ShutDown
    <2>1. \E l \in {"lp_recv", "lp_reset", "lp_cont", "lp_spin", "sd_reset", "exited"} : Goto(l)
      BY <1>4 DEF MainLoopError, MainLoopNoSensors, MainLoopPublish, RecoveryReset,
                  RecoveryContinuous, SpinIdle, ShutDown, LoopTop
    <2> QED
      BY <1>0, <2>1, QuietLabels, GotoQuiet
  <1> QED
    BY <1>1, <1>2, <1>3, <1>4 DEF MainStep

LEMMA SavedOutcome == OInv /\ SavedCalibrationStep => Outcome' /\ Serves'
  <1> SUFFICES ASSUME OInv, SavedCalibrationStep PROVE Outcome' /\ Serves'
    OBVIOUS
  <1>0. UNCHANGED deviceVars
    BY DEF SavedCalibrationStep, SavedFirst, AwaitFirst, SavedWait, AwaitMore, SavedTimeout,
           SavedReset, SavedEuler, SavedBoresight, SavedStep, SavedQuaternion, SavedContinuous,
           SavedFailed, Elsewhere
  <1>1. CASE SavedFirst \/ SavedWait \/ SavedReset
    <2>1. EffUnits = "quat"
      BY <1>1 DEF SavedFirst, AwaitFirst, SavedWait, AwaitMore, SavedReset, Done, OInv, Outcome,
                  QuatLabels
    <2>2. \E l \in {"sv_wait", "sv_reset", "sv_fail", "sv_euler", "sv_cont"} : Goto(l)
      BY <1>1 DEF SavedFirst, AwaitFirst, SavedWait, AwaitMore, SavedReset, NextStation
    <2> QED
      BY <1>0, <2>1, <2>2, QuietLabels, GotoQuat
  <1>2. CASE SavedQuaternion
    <2>1. CASE Failed
      <3>1. Goto("sv_euler") \/ Goto("sv_fail")
        BY <1>2, <2>1 DEF SavedQuaternion, RetryStation
      <3> QED
        BY <1>0, <3>1, QuietLabels, GotoQuiet
    <2>2. CASE ~Failed
      <3>1. EffUnits = "quat"
        BY <1>2, <2>2 DEF SavedQuaternion, Done, OInv, Outcome, Sent
      <3>2. Goto("sv_euler") \/ Goto("sv_cont")
        BY <1>2, <2>2 DEF SavedQuaternion, NextStation
      <3> QED
        BY <1>0, <3>1, <3>2, QuietLabels, GotoQuat
    <2> QED
      BY <2>1, <2>2
  <1>3. CASE SavedTimeout \/ SavedEuler \/ SavedBoresight \/ SavedContinuous \/ SavedFailed
    <2>1. \E l \in {"sv_fail", "sv_euler", "sv_bore", "sv_quat", "lp_recv", "exited"} : Goto(l)
      BY <1>3 DEF SavedTimeout, SavedEuler, SavedBoresight, SavedStep, RetryStation,
                  SavedContinuous, OnResult, SavedFailed
    <2> QED
      BY <1>0, <2>1, QuietLabels, GotoQuiet
  <1> QED
    BY <1>1, <1>2, <1>3 DEF SavedCalibrationStep

(* Going on with a calibration.                                            *)
LEMMA GotoCal ==
    ASSUME UNCHANGED <<deviceVars, client>>, Pending, client.kind = "calibrate",
           NEW l \in CalLabels, Goto(l),
           l = "cal_quat" => Zero,
           l = "cal_cont" => Zero /\ EffUnits = "quat"
    PROVE  Outcome' /\ Serves'
  <1>1. /\ l \in QuatLabels => EffUnits = "quat"
        /\ l \in ZeroLabels => Zero
    BY DEF QuatLabels, ZeroLabels, CalLabels
  <1>2. Outcome'
    BY <1>1, QuietLabels, GotoOutcome
  <1> QED
    BY <1>2 DEF Serves, Pending

LEMMA CalibrationOutcome == OInv /\ CalibrationStep => Outcome' /\ Serves'
  <1> SUFFICES ASSUME OInv, CalibrationStep PROVE Outcome' /\ Serves'
    OBVIOUS
  <1>0. UNCHANGED deviceVars
    BY DEF CalibrationStep, CalibrateStart, CalibrateFails, CalibrateSingle, CalibrateBore,
           CalibrateFirst, CalibrateWait, CalibrateReset, CalibrateSave, CalibrateDump,
           CalibrateEuler, CalibrateZero, CalibrateQuat, CalibrateSucceeds, CalibrateStep,
           AwaitFirst, AwaitMore, Answer, Elsewhere
  <1>1. CASE CalibrateFails \/ CalibrateSucceeds
    <2>1. Goto("lp_spin")
      BY <1>1 DEF CalibrateFails, CalibrateSucceeds
    <2> QED
      BY <1>0, <2>1, QuietLabels, GotoQuiet
  <1>2. CASE CalibrateStart
    <2>1. client' = client /\ Pending /\ client.kind = "calibrate" /\ Goto("cal_single")
      BY <1>2 DEF CalibrateStart, UnchangedApp
    <2>2. "cal_single" \in CalLabels
      BY DEF CalLabels
    <2> QED
      BY <1>0, <2>1, <2>2, GotoCal
  <1>3. CASE \/ CalibrateSingle \/ CalibrateBore \/ CalibrateFirst \/ CalibrateWait
             \/ CalibrateReset \/ CalibrateSave \/ CalibrateDump \/ CalibrateEuler
             \/ CalibrateZero \/ CalibrateQuat
    <2>1. client' = client
      BY <1>3 DEF CalibrateSingle, CalibrateBore, CalibrateFirst, CalibrateWait, CalibrateReset,
                  CalibrateSave, CalibrateDump, CalibrateEuler, CalibrateZero, CalibrateQuat,
                  CalibrateStep, AwaitFirst, AwaitMore, UnchangedApp
    <2>2. pc \in CalLabels
      BY <1>3 DEF CalibrateSingle, CalibrateBore, CalibrateFirst, CalibrateWait, CalibrateReset,
                  CalibrateSave, CalibrateDump, CalibrateEuler, CalibrateZero, CalibrateQuat,
                  CalibrateStep, AwaitFirst, AwaitMore, Done, CalLabels
    <2>3. Pending /\ client.kind = "calibrate"
      BY <2>2 DEF OInv, Serves
    <2>4. \/ \E l \in CalLabels \ ZeroLabels : Goto(l)
          \/ Goto("cal_quat") /\ Zero
          \/ Goto("cal_cont") /\ Zero /\ EffUnits = "quat"
      <3>1. CASE \/ CalibrateSingle \/ CalibrateBore \/ CalibrateFirst \/ CalibrateWait
                 \/ CalibrateReset \/ CalibrateSave \/ CalibrateDump \/ CalibrateEuler
        <4>1. \E l \in {"cal_bore", "cal_first", "cal_wait", "cal_reset", "cal_save",
                        "cal_dump", "cal_euler", "cal_zero"} : Goto(l)
          BY <3>1 DEF CalibrateSingle, CalibrateBore, CalibrateFirst, CalibrateWait,
                      CalibrateReset, CalibrateSave, CalibrateDump, CalibrateEuler,
                      CalibrateStep, AwaitFirst, AwaitMore
        <4> QED
          BY <4>1 DEF CalLabels, ZeroLabels
      <3>2. CASE CalibrateZero
        BY <3>2 DEF CalibrateZero, CalibrateStep, Done, Sent, OInv, Outcome
      <3>3. CASE CalibrateQuat
        BY <3>3 DEF CalibrateQuat, CalibrateStep, Done, Sent, OInv, Outcome, ZeroLabels
      <3> QED
        BY <1>3, <3>1, <3>2, <3>3
    <2>5. "cal_quat" \in CalLabels /\ "cal_cont" \in CalLabels
          /\ "cal_quat" \in ZeroLabels /\ "cal_cont" \in ZeroLabels
      BY DEF CalLabels, ZeroLabels
    <2> QED
      BY <1>0, <2>1, <2>3, <2>4, <2>5, GotoCal
  <1> QED
    BY <1>1, <1>2, <1>3 DEF CalibrationStep

LEMMA SourceOutcome == OInv /\ SourceStep => Outcome' /\ Serves'
  <1> SUFFICES ASSUME OInv, SourceStep PROVE Outcome' /\ Serves'
    OBVIOUS
  <1>1. UNCHANGED deviceVars
    BY DEF SourceStep, SourceStart, SourceInvalid, SourceEnd, Answer, Elsewhere
  <1>2. \E l \in {"src_set", "lp_spin"} : Goto(l)
    BY DEF SourceStep, SourceStart, SourceInvalid, SourceEnd
  <1> QED
    BY <1>1, <1>2, QuietLabels, GotoQuiet

(* The shell command of a calibration fails, seen or unseen.               *)
LEMMA DumpOutcome == OInv /\ (DumpFails \/ NoShell) => Outcome' /\ Serves'
  <1> SUFFICES ASSUME OInv, DumpFails \/ NoShell PROVE Outcome' /\ Serves'
    OBVIOUS
  <1>1. UNCHANGED deviceVars
    BY DEF DumpFails, NoShell
  <1>2. CASE DumpFails
    <2>1. pc = "cal_dump" /\ Goto("cal_euler") /\ client' = client
      BY <1>2 DEF DumpFails, UnchangedApp
    <2>2. {"cal_dump", "cal_euler"} \subseteq CalLabels
      BY DEF CalLabels
    <2>3. Pending /\ client.kind = "calibrate"
      BY <2>1, <2>2 DEF OInv, Serves
    <2> QED
      BY <1>1, <2>1, <2>2, <2>3, GotoCal
  <1>3. CASE NoShell
    <2>1. Goto("lp_spin")
      BY <1>3 DEF NoShell
    <2> QED
      BY <1>1, <2>1, QuietLabels, GotoQuiet
  <1> QED
    BY <1>2, <1>3

LEMMA TransferOutcome ==
    OInv /\ UNCHANGED appVars /\ (Transfer(Command(pc)) \/ FaultyTransfer(Command(pc)))
        => Outcome' /\ Serves'
  <1> SUFFICES ASSUME OInv, UNCHANGED appVars,
                      Transfer(Command(pc)) \/ FaultyTransfer(Command(pc))
               PROVE  Outcome' /\ Serves'
    OBVIOUS
  <1>1. Serves'
    BY DEF OInv, Serves, Pending, appVars
  <1>2. Outcome'
    BY WriteOutcome, ReadOutcome DEF Transfer, FaultyTransfer
  <1> QED
    BY <1>1, <1>2

(* A device that refuses nothing.                                          *)
LEMMA DeviceOutcome == NoRefusals /\ OInv /\ DeviceNext => Outcome' /\ Serves'
  <1> SUFFICES ASSUME NoRefusals, OInv, DeviceNext PROVE Outcome' /\ Serves'
    OBVIOUS
  <1>1. pc' = pc /\ client' = client /\ call' = call /\ return_value' = return_value
    BY DEF DeviceNext, appVars, linkVars
  <1>2. Serves'
    BY <1>1 DEF OInv, Serves, Pending
  <1>3. (DeviceTypeOK /\ DeviceExecute) \/ UNCHANGED DeviceState
    BY DEF NoRefusals, DeviceNext, DeviceStep, DeviceRefuse, Fault, DeviceStream, SensorChange,
           DeviceState, OInv, TInv, TypeOK
  <1>4. pc \in SentLabels => call' \in {"send", "reply", "done"} /\ (Sent' => Sent)
    BY <1>1 DEF OInv, Outcome, Sent, Failed
  <1> QED
    BY <1>1, <1>2, <1>3, <1>4, OutcomeStays

(* A client calls while no request is pending, so neither a calibration    *)
(* nor a source selection is under way.                                    *)
LEMMA ClientOutcome == OInv /\ (RequestCalibration \/ RequestSource) => Outcome' /\ Serves'
  <1> SUFFICES ASSUME OInv, RequestCalibration \/ RequestSource PROVE Outcome' /\ Serves'
    OBVIOUS
  <1>1. /\ ~Pending /\ pc' = pc /\ call' = call /\ return_value' = return_value
        /\ UNCHANGED deviceVars
    BY DEF RequestCalibration, RequestSource, ClientCalls, linkVars
  <1>2. pc \notin CalLabels /\ pc # "src_set"
    BY <1>1 DEF OInv, Serves, TInv, SourceAccepted
  <1>3. EffUnits' = EffUnits /\ EffStreaming' = EffStreaming /\ Zero' = Zero
    BY <1>1, UnchangedKeepsEffects DEF deviceVars, DeviceState, Zero
  <1> QED
    BY <1>1, <1>2, <1>3 DEF OInv, Outcome, Serves, Sent, Failed

LEMMA EnvironmentOutcome == OInv /\ Environment => Outcome' /\ Serves'
  <1> SUFFICES ASSUME OInv, Environment PROVE Outcome' /\ Serves'
    OBVIOUS
  <1>1. CASE RequestCalibration \/ RequestSource
    BY <1>1, ClientOutcome
  <1>2. CASE TimerExpires \/ Sigint
    <2>1. /\ pc' = pc /\ client' = client /\ call' = call /\ return_value' = return_value
          /\ UNCHANGED DeviceState
      BY <1>2 DEF TimerExpires, Sigint, deviceVars, linkVars, DeviceState
    <2>2. pc \in SentLabels => call' \in {"send", "reply", "done"} /\ (Sent' => Sent)
      BY <2>1 DEF OInv, Outcome, Sent, Failed
    <2> QED
      BY <2>1, <2>2, OutcomeStays DEF OInv, Serves, Pending
  <1>3. CASE Relaunch
    <2>1. pc' = "su_reset"
      BY <1>3 DEF Relaunch
    <2> QED
      BY <2>1 DEF Outcome, Serves, SentLabels, QuatLabels, ZeroLabels, CalLabels
  <1> QED
    BY <1>1, <1>2, <1>3 DEF Environment

LEMMA OutcomeKept == NoRefusals /\ OInv /\ [Next]_vars => OInv'
  <1> SUFFICES ASSUME NoRefusals, OInv, [Next]_vars PROVE OInv'
    OBVIOUS
  <1>1. TInv'
    BY TypesKept DEF OInv
  <1>2. Outcome' /\ Serves'
    <2>1. CASE MainStep \/ SavedCalibrationStep \/ CalibrationStep \/ SourceStep
      BY <2>1, MainOutcome, SavedOutcome, CalibrationOutcome, SourceOutcome
    <2>2. CASE TransferStep \/ (FaultyTransfer(Command(pc)) /\ UNCHANGED appVars)
      BY <2>2, TransferOutcome DEF TransferStep
    <2>3. CASE DeviceNext
      BY <2>3, DeviceOutcome
    <2>4. CASE DumpFails \/ NoShell
      BY <2>4, DumpOutcome
    <2>5. CASE Environment
      BY <2>5, EnvironmentOutcome
    <2>6. CASE UNCHANGED vars
      <3>1. /\ pc' = pc /\ client' = client /\ call' = call /\ return_value' = return_value
            /\ UNCHANGED DeviceState
        BY <2>6 DEF vars, deviceVars, linkVars, appVars, DeviceState
      <3>2. pc \in SentLabels => call' \in {"send", "reply", "done"} /\ (Sent' => Sent)
        BY <3>1 DEF OInv, Outcome, Sent, Failed
      <3> QED
        BY <3>1, <3>2, OutcomeStays DEF OInv, Serves, Pending
    <2> QED
      BY <2>1, <2>2, <2>3, <2>4, <2>5, <2>6 DEF Next, DriverStep, FaultStep, Ended
  <1> QED
    BY <1>1, <1>2 DEF OInv

LEMMA InitialOutcome == Init => OInv
  <1> SUFFICES ASSUME Init PROVE OInv
    OBVIOUS
  <1>1. TInv
    BY InitialTypes
  <1>2. pc = "su_reset"
    BY DEF Init
  <1>3. Outcome /\ Serves
    BY <1>2 DEF Outcome, Serves, SentLabels, QuatLabels, ZeroLabels, CalLabels
  <1> QED
    BY <1>1, <1>3 DEF OInv
----------------------------------------------------------------------------
(* The steps the properties speak of.                                      *)

(* A step of the driver itself; every other step keeps pc or goes to       *)
(* su_reset, cal_euler or the loop from cal_dump.                          *)
LEMMA EntersByContinuous ==
    ASSUME OInv, Next, EntersLoop
    PROVE  SavedContinuous /\ ~Failed
  <1>1. pc = "sv_cont" /\ pc' = "lp_recv"
    BY DEF EntersLoop
  <1>2. ~MainStep
    BY <1>1 DEF MainStep, MainReset, MainBoresight, MainStations, MainQuaternion,
                MainHemisphere, StartupStep, MainContinuous, MainLoopError, MainLoopNoSensors,
                MainLoopPublish, RecoveryReset, RecoveryContinuous, SpinIdle, ShutDown, Done
  <1>3. ~CalibrationStep
    BY <1>1 DEF CalibrationStep, CalibrateStart, CalibrateFails, CalibrateSingle, CalibrateBore,
                CalibrateFirst, CalibrateWait, CalibrateReset, CalibrateSave, CalibrateDump,
                CalibrateEuler, CalibrateZero, CalibrateQuat, CalibrateSucceeds, CalibrateStep,
                AwaitFirst, AwaitMore, Done
  <1>4. ~SourceStep
    BY <1>1 DEF SourceStep, SourceStart, SourceInvalid, SourceEnd, Done
  <1>5. ~(UNCHANGED appVars) /\ ~TransferStep /\ ~DeviceNext /\ ~Ended
    BY <1>1 DEF TransferStep, DeviceNext, Ended, vars, appVars
  <1>6. ~FaultStep
    BY <1>1, <1>5 DEF FaultStep, DumpFails, NoShell
  <1>7. ~Environment
    BY <1>1 DEF Environment, RequestCalibration, RequestSource, ClientCalls, TimerExpires,
                Sigint, Relaunch
  <1>8. SavedCalibrationStep
    BY <1>2, <1>3, <1>4, <1>5, <1>6, <1>7 DEF Next, DriverStep
  <1>9. SavedContinuous
    BY <1>1, <1>8 DEF SavedCalibrationStep, SavedFirst, AwaitFirst, SavedWait, AwaitMore,
                      SavedTimeout, SavedReset, SavedEuler, SavedBoresight, SavedStep,
                      SavedQuaternion, SavedFailed, Done
  <1> QED
    BY <1>1, <1>9 DEF SavedContinuous, OnResult, Goto

(* A success is given only at the end of a procedure.                      *)
LEMMA SuccessIsAnEnd ==
    ASSUME OInv, Next, Pending, client'.reply = "success"
    PROVE  CalibrateSucceeds \/ (SourceEnd /\ ~Failed)
  <1>1. client' # client
    BY DEF Pending
  <1>2. client.kind # "none" /\ client.reply = "none"
    BY DEF Pending
  <1>3. client \in [kind : {"none", "calibrate", "source"}, source : Sources \cup {1},
                    station : Stations \cup {AllStations},
                    reply : {"none", "success", "failure"}]
    BY DEF OInv, TInv, TypeOK, AppTypeOK
  <1>4. ~MainStep
    BY <1>1 DEF MainStep, MainReset, MainBoresight, MainStations, MainQuaternion,
                MainHemisphere, StartupStep, MainContinuous, MainLoopError, MainLoopNoSensors,
                MainLoopPublish, RecoveryReset, RecoveryContinuous, SpinIdle, ShutDown,
                UnchangedApp
  <1>5. ~SavedCalibrationStep
    BY <1>1 DEF SavedCalibrationStep, SavedFirst, SavedWait, AwaitMore, SavedTimeout,
                SavedReset, SavedEuler, SavedBoresight, SavedStep, SavedQuaternion,
                SavedContinuous, SavedFailed, UnchangedApp
  <1>6. ~TransferStep /\ ~DeviceNext /\ ~Ended /\ ~(UNCHANGED appVars)
    BY <1>1 DEF TransferStep, DeviceNext, Ended, vars, appVars
  <1>7. ~FaultStep
    BY <1>1, <1>3, <1>6 DEF FaultStep, DumpFails, NoShell, UnchangedApp
  <1>8. ~Environment
    BY <1>1, <1>2 DEF Environment, RequestCalibration, RequestSource, ClientCalls, TimerExpires,
                Sigint, Relaunch, NoClient
  <1>9. CASE CalibrationStep
    BY <1>1, <1>3, <1>9 DEF CalibrationStep, CalibrateStart, CalibrateFails, CalibrateSingle,
                CalibrateBore, CalibrateFirst, CalibrateWait, CalibrateReset, CalibrateSave,
                CalibrateDump, CalibrateEuler, CalibrateZero, CalibrateQuat, CalibrateStep,
                AwaitMore, UnchangedApp, Answer
  <1>10. CASE SourceStep
    BY <1>1, <1>3, <1>10 DEF SourceStep, SourceStart, SourceInvalid, SourceEnd, UnchangedApp,
                Answer
  <1> QED
    BY <1>4, <1>5, <1>6, <1>7, <1>8, <1>9, <1>10 DEF Next, DriverStep

(* The driver's own steps leave the device alone.                          *)
LEMMA DriverKeepsEffects ==
    ASSUME Elsewhere
    PROVE  /\ EffUnits' = EffUnits /\ EffStreaming' = EffStreaming
           /\ EffZeroed' = EffZeroed /\ EffLayers' = EffLayers /\ EffSrcmap' = EffSrcmap
  BY UnchangedKeepsEffects DEF Elsewhere, deviceVars, DeviceState

LEMMA ReadyStep ==
    OInv /\ [Next]_vars => (EntersLoop => EffUnits' = "quat" /\ EffStreaming')
  <1> SUFFICES ASSUME OInv, [Next]_vars, EntersLoop PROVE EffUnits' = "quat" /\ EffStreaming'
    OBVIOUS
  <1>1. Next
    BY DEF EntersLoop, vars, appVars
  <1>2. SavedContinuous /\ ~Failed
    BY <1>1, EntersByContinuous
  <1>3. EffUnits = "quat" /\ EffStreaming
    BY <1>2 DEF SavedContinuous, Done, OInv, Outcome, QuatLabels, Sent
  <1> QED
    BY <1>2, <1>3, DriverKeepsEffects DEF SavedContinuous

LEMMA CalibratedStep ==
    OInv /\ [Next]_vars =>
        (Answers("calibrate", "success") =>
            /\ EffUnits' = "quat" /\ EffStreaming'
            /\ EffZeroed' /\ \A s \in Stations : EffLayers'[s] = 0)
  <1> SUFFICES ASSUME OInv, [Next]_vars, Answers("calibrate", "success")
               PROVE  /\ EffUnits' = "quat" /\ EffStreaming'
                      /\ EffZeroed' /\ \A s \in Stations : EffLayers'[s] = 0
    OBVIOUS
  <1>1. Pending /\ client.kind = "calibrate" /\ client'.reply = "success"
    BY DEF Answers
  <1>2. Next
    BY <1>1 DEF Pending, vars, appVars
  <1>3. CalibrateSucceeds
    <2>1. SourceEnd => client.kind = "source"
      BY DEF SourceEnd, Done, OInv, TInv, SourceAccepted
    <2> QED
      BY <1>1, <1>2, <2>1, SuccessIsAnEnd
  <1>4. EffUnits = "quat" /\ EffStreaming /\ Zero
    BY <1>3 DEF CalibrateSucceeds, Done, OInv, Outcome, QuatLabels, ZeroLabels, Sent
  <1> QED
    BY <1>3, <1>4, DriverKeepsEffects DEF CalibrateSucceeds, Answer, Zero

LEMMA SourceSetStep ==
    OInv /\ [Next]_vars =>
        (Answers("source", "success") =>
            \A s \in Requested : EffSrcmap'[s] = SourceMap(client.source))
  <1> SUFFICES ASSUME OInv, [Next]_vars, Answers("source", "success")
               PROVE  \A s \in Requested : EffSrcmap'[s] = SourceMap(client.source)
    OBVIOUS
  <1>1. Pending /\ client.kind = "source" /\ client'.reply = "success"
    BY DEF Answers
  <1>2. Next
    BY <1>1 DEF Pending, vars, appVars
  <1>3. SourceEnd /\ ~Failed
    <2>1. CalibrateSucceeds => client.kind = "calibrate"
      BY DEF CalibrateSucceeds, Done, OInv, Serves, CalLabels
    <2> QED
      BY <1>1, <1>2, <2>1, SuccessIsAnEnd
  <1>4. SourceSet
    BY <1>3 DEF SourceEnd, Done, OInv, Outcome, Sent
  <1> QED
    BY <1>3, <1>4, DriverKeepsEffects DEF SourceEnd, Answer, SourceSet

----------------------------------------------------------------------------
(* main enters its loop with a device in quaternion units and continuous   *)
(* mode, for any stations, any number of lost or unreported writes, failed *)
(* reads, sensor changes and relaunches, as long as nothing is refused.    *)
THEOREM ReadyConfigured == ASSUME NoRefusals PROVE Spec => ReadyMeansConfigured
  <1>1. OInv /\ [Next]_vars => OInv'
    BY OutcomeKept
  <1> QED
    BY <1>1, InitialOutcome, ReadyStep, PTL DEF Spec, ReadyMeansConfigured

(* A calibration answered with success has zeroed every station, restored  *)
(* the quaternion units and resumed continuous mode (same assumption).     *)
THEOREM CalibrationDone == ASSUME NoRefusals PROVE Spec => CalibrationSuccess
  <1>1. OInv /\ [Next]_vars => OInv'
    BY OutcomeKept
  <1> QED
    BY <1>1, InitialOutcome, CalibratedStep, PTL DEF Spec, CalibrationSuccess

(* A source selection answered with success has the source in effect on    *)
(* every station it names (same assumption).                               *)
THEOREM SourceDone == ASSUME NoRefusals PROVE Spec => SourceSuccess
  <1>1. OInv /\ [Next]_vars => OInv'
    BY OutcomeKept
  <1> QED
    BY <1>1, InitialOutcome, SourceSetStep, PTL DEF Spec, SourceSuccess

----------------------------------------------------------------------------
(* ViperDriver implements TrackerService.  The tracker of the service is   *)
(* the device once it has carried out the command in the OUT pipe (the Eff *)
(* operators): a write is the step that changes it, a read is a stutter.   *)

(* What the service sees of the device, and of the whole.                  *)
SameTracker == /\ EffUnits' = EffUnits /\ EffStreaming' = EffStreaming
               /\ Zero' = Zero /\ EffSrcmap' = EffSrcmap

ServiceStep == [Tracker!Next]_(Tracker!vars)

LEMMA DriverKeepsTracker == ASSUME UNCHANGED deviceVars PROVE SameTracker
  BY UnchangedKeepsEffects DEF deviceVars, DeviceState, SameTracker, Zero

LEMMA Stutter ==
    ASSUME SameTracker, UNCHANGED <<Phase, client>> PROVE ServiceStep
  BY DEF ServiceStep, SameTracker, Tracker!vars, Tracker!tracker

LEMMA StutterOrStop ==
    ASSUME SameTracker, client' = client,
           \/ Phase' = Phase
           \/ Phase \in {"starting", "ready"} /\ Phase' = "stopped"
    PROVE  ServiceStep
  <1>1. CASE Phase' = Phase
    BY <1>1, Stutter
  <1>2. CASE Phase \in {"starting", "ready"} /\ Phase' = "stopped"
    BY <1>2 DEF ServiceStep, SameTracker, Tracker!Next, Tracker!Stop, Tracker!tracker
  <1> QED
    BY <1>1, <1>2

LEMMA EffTypes ==
    ASSUME DeviceTypeOK
    PROVE  EffUnits \in OriUnits
  BY DEF DeviceTypeOK, EffUnits, UnitsAfter, Commands, NoCommand, Fill

----------------------------------------------------------------------------
(* The driver's own steps leave the device alone.                          *)

LEMMA MainServes == OInv /\ MainStep => ServiceStep
  <1> SUFFICES ASSUME OInv, MainStep PROVE ServiceStep
    OBVIOUS
  <1>1. UNCHANGED deviceVars /\ client' = client
    BY DEF MainStep, MainReset, MainBoresight, MainStations, MainQuaternion, MainHemisphere,
           StartupStep, MainContinuous, MainLoopError, MainLoopNoSensors, MainLoopPublish,
           RecoveryReset, RecoveryContinuous, SpinIdle, ShutDown, Elsewhere, UnchangedApp
  <1>2. CASE \/ MainReset \/ MainBoresight \/ MainStations \/ MainQuaternion \/ MainHemisphere
             \/ MainContinuous
    <2>1. pc \in {"su_reset", "su_bore", "su_map", "su_quat", "su_hemi", "su_cont"}
      BY <1>2 DEF MainReset, MainBoresight, MainStations, MainQuaternion, MainHemisphere,
                  StartupStep, MainContinuous, Done
    <2>2. pc' \in {"su_bore", "su_map", "su_quat", "su_hemi", "su_cont", "sv_first", "sv_euler",
                   "sv_cont", "exited"}
      BY <1>2 DEF MainReset, MainBoresight, MainStations, MainQuaternion, MainHemisphere,
                  StartupStep, MainContinuous, NextStation, OnResult, Goto
    <2> QED
      BY <1>1, <2>1, <2>2, DriverKeepsTracker, StutterOrStop DEF Phase, InLoop
  <1>3. CASE \/ MainLoopError \/ MainLoopNoSensors \/ MainLoopPublish
             \/ RecoveryReset \/ RecoveryContinuous \/ SpinIdle \/ ShutDown
    <2>1. pc \in {"lp_recv", "lp_reset", "lp_cont", "lp_spin", "sd_reset"}
      BY <1>3 DEF MainLoopError, MainLoopNoSensors, MainLoopPublish, RecoveryReset,
                  RecoveryContinuous, SpinIdle, ShutDown, Done
    <2>2. pc' \in {"lp_recv", "lp_reset", "lp_cont", "lp_spin", "sd_reset", "exited"}
      BY <1>3 DEF MainLoopError, MainLoopNoSensors, MainLoopPublish, RecoveryReset,
                  RecoveryContinuous, SpinIdle, ShutDown, LoopTop, Goto
    <2> QED
      BY <1>1, <2>1, <2>2, DriverKeepsTracker, StutterOrStop DEF Phase, InLoop
  <1> QED
    BY <1>2, <1>3 DEF MainStep

(* The entry into the loop is where the service becomes ready.             *)
LEMMA SavedServes == OInv /\ SavedCalibrationStep => ServiceStep
  <1> SUFFICES ASSUME OInv, SavedCalibrationStep PROVE ServiceStep
    OBVIOUS
  <1>1. UNCHANGED deviceVars /\ client' = client
    BY DEF SavedCalibrationStep, SavedFirst, AwaitFirst, SavedWait, AwaitMore, SavedTimeout,
           SavedReset, SavedEuler, SavedBoresight, SavedStep, SavedQuaternion, SavedContinuous,
           SavedFailed, Elsewhere, UnchangedApp
  <1>2. SameTracker
    BY <1>1, DriverKeepsTracker
  <1>3. CASE SavedContinuous /\ ~Failed
    <2>1. pc = "sv_cont" /\ pc' = "lp_recv"
      BY <1>3 DEF SavedContinuous, Done, OnResult, Goto
    <2>2. EffUnits = "quat" /\ EffStreaming
      BY <1>3 DEF SavedContinuous, Done, OInv, Outcome, QuatLabels, Sent
    <2>3. Phase = "starting" /\ Phase' = "ready"
      BY <2>1 DEF Phase, InLoop
    <2> QED
      BY <1>1, <1>2, <2>2, <2>3
         DEF ServiceStep, SameTracker, Tracker!Next, Tracker!BecomeReady, Tracker!tracker
  <1>4. CASE ~(SavedContinuous /\ ~Failed)
    <2>1. pc \in {"sv_first", "sv_wait", "sv_reset", "sv_euler", "sv_bore", "sv_quat", "sv_cont",
                  "sv_fail"}
      BY DEF SavedCalibrationStep, SavedFirst, AwaitFirst, SavedWait, AwaitMore, SavedTimeout,
             SavedReset, SavedEuler, SavedBoresight, SavedStep, SavedQuaternion, SavedContinuous,
             SavedFailed, Done
    <2>2. pc' \in {"sv_wait", "sv_reset", "sv_euler", "sv_bore", "sv_quat", "sv_cont", "sv_fail",
                   "exited"}
      BY <1>4 DEF SavedCalibrationStep, SavedFirst, AwaitFirst, SavedWait, AwaitMore,
             SavedTimeout, SavedReset, SavedEuler, SavedBoresight, SavedStep, SavedQuaternion,
             SavedContinuous, SavedFailed, RetryStation, NextStation, OnResult, Goto
    <2> QED
      BY <1>1, <1>2, <2>1, <2>2, StutterOrStop DEF Phase, InLoop
  <1> QED
    BY <1>3, <1>4

(* Answers.                                                                *)
LEMMA FailureServes ==
    ASSUME SameTracker, Pending, client.kind \in {"calibrate", "source"},
           client' = [client EXCEPT !.reply = "failure"],
           Phase = "ready", Phase' = "ready"
    PROVE  ServiceStep
  BY DEF ServiceStep, SameTracker, Pending, Tracker!Next, Tracker!Fail, Tracker!Pending,
         Tracker!Respond, Tracker!tracker

LEMMA CalibrationServes == OInv /\ CalibrationStep => ServiceStep
  <1> SUFFICES ASSUME OInv, CalibrationStep PROVE ServiceStep
    OBVIOUS
  <1>1. UNCHANGED deviceVars
    BY DEF CalibrationStep, CalibrateStart, CalibrateFails, CalibrateSingle, CalibrateBore,
           CalibrateFirst, CalibrateWait, CalibrateReset, CalibrateSave, CalibrateDump,
           CalibrateEuler, CalibrateZero, CalibrateQuat, CalibrateSucceeds, CalibrateStep,
           AwaitFirst, AwaitMore, Answer, Elsewhere
  <1>2. SameTracker
    BY <1>1, DriverKeepsTracker
  <1>3. pc \in CalLabels \cup {"lp_spin"}
    BY DEF CalibrationStep, CalibrateStart, CalibrateFails, CalibrateSingle, CalibrateBore,
           CalibrateFirst, CalibrateWait, CalibrateReset, CalibrateSave, CalibrateDump,
           CalibrateEuler, CalibrateZero, CalibrateQuat, CalibrateSucceeds, CalibrateStep,
           AwaitFirst, AwaitMore, Done, CalLabels
  <1>4. pc' \in CalLabels \cup {"lp_spin"}
    BY DEF CalibrationStep, CalibrateStart, CalibrateFails, CalibrateSingle, CalibrateBore,
           CalibrateFirst, CalibrateWait, CalibrateReset, CalibrateSave, CalibrateDump,
           CalibrateEuler, CalibrateZero, CalibrateQuat, CalibrateSucceeds, CalibrateStep,
           AwaitFirst, AwaitMore, Goto, CalLabels
  <1>5. Phase = "ready" /\ Phase' = "ready"
    BY <1>3, <1>4 DEF Phase, InLoop, CalLabels
  <1>6. CASE CalibrateFails
    <2>1. pc \in CalLabels /\ client' = [client EXCEPT !.reply = "failure"]
      BY <1>6 DEF CalibrateFails, Done, CalLabels, Answer
    <2> QED
      BY <1>2, <1>5, <2>1, FailureServes DEF OInv, Serves
  <1>7. CASE CalibrateSucceeds
    <2>1. pc = "cal_cont" /\ ~Failed /\ call = "done"
          /\ client' = [client EXCEPT !.reply = "success"]
      BY <1>7 DEF CalibrateSucceeds, Done, Answer
    <2>2. Pending /\ client.kind = "calibrate"
      BY <2>1 DEF OInv, Serves, CalLabels
    <2>3. EffUnits = "quat" /\ EffStreaming /\ Zero
      BY <2>1 DEF OInv, Outcome, QuatLabels, ZeroLabels, Sent
    <2> QED
      BY <1>2, <1>5, <2>1, <2>2, <2>3
         DEF ServiceStep, SameTracker, Pending, Tracker!Next, Tracker!CalibrateDone,
             Tracker!Pending, Tracker!Respond, Tracker!tracker
  <1>8. CASE ~CalibrateFails /\ ~CalibrateSucceeds
    <2>1. client' = client
      BY <1>8 DEF CalibrationStep, CalibrateStart, CalibrateSingle, CalibrateBore,
             CalibrateFirst, CalibrateWait, CalibrateReset, CalibrateSave, CalibrateDump,
             CalibrateEuler, CalibrateZero, CalibrateQuat, CalibrateStep, AwaitFirst, AwaitMore,
             UnchangedApp
    <2> QED
      BY <1>2, <1>5, <2>1, Stutter
  <1> QED
    BY <1>6, <1>7, <1>8

LEMMA SourceServes == OInv /\ SourceStep => ServiceStep
  <1> SUFFICES ASSUME OInv, SourceStep PROVE ServiceStep
    OBVIOUS
  <1>1. UNCHANGED deviceVars
    BY DEF SourceStep, SourceStart, SourceInvalid, SourceEnd, Answer, Elsewhere
  <1>2. SameTracker
    BY <1>1, DriverKeepsTracker
  <1>3. pc \in {"lp_spin", "src_set"} /\ pc' \in {"src_set", "lp_spin"}
    BY DEF SourceStep, SourceStart, SourceInvalid, SourceEnd, Done, Goto
  <1>4. Phase = "ready" /\ Phase' = "ready"
    BY <1>3 DEF Phase, InLoop
  <1>5. Pending /\ client.kind = "source"
    BY DEF SourceStep, SourceStart, SourceInvalid, SourceEnd, Done, OInv, TInv, SourceAccepted
  <1>6. CASE SourceStart
    BY <1>2, <1>4, <1>6, Stutter DEF SourceStart, UnchangedApp
  <1>7. CASE SourceInvalid \/ (SourceEnd /\ Failed)
    <2>1. client' = [client EXCEPT !.reply = "failure"]
      BY <1>7 DEF SourceInvalid, SourceEnd, Answer
    <2> QED
      BY <1>2, <1>4, <1>5, <2>1, FailureServes
  <1>8. CASE SourceEnd /\ ~Failed
    <2>1. client' = [client EXCEPT !.reply = "success"]
      BY <1>8 DEF SourceEnd, Answer
    <2>2. \A s \in Requested : EffSrcmap[s] = SourceMap(client.source)
      BY <1>8 DEF SourceEnd, Done, OInv, Outcome, Sent, SourceSet
    <2>3. Requested = Tracker!Named
      BY DEF Requested, Addressed, SetSource, Fill, AllStations, Tracker!Named,
             Tracker!AllStations
    <2> QED
      BY <1>2, <1>4, <1>5, <2>1, <2>2, <2>3
         DEF ServiceStep, SameTracker, Pending, Tracker!Next, Tracker!SourceDone,
             Tracker!Pending, Tracker!Respond, Tracker!tracker, SourceMap, Tracker!SourceMap
  <1> QED
    BY <1>6, <1>7, <1>8 DEF SourceStep

LEMMA DumpServes == OInv /\ (DumpFails \/ NoShell) => ServiceStep
  <1> SUFFICES ASSUME OInv, DumpFails \/ NoShell PROVE ServiceStep
    OBVIOUS
  <1>1. SameTracker
    BY DriverKeepsTracker DEF DumpFails, NoShell
  <1>2. pc = "cal_dump" /\ pc' \in {"cal_euler", "lp_spin"}
    BY DEF DumpFails, NoShell, Goto
  <1>3. Phase = "ready" /\ Phase' = "ready"
    BY <1>2 DEF Phase, InLoop
  <1>4. Pending /\ client.kind = "calibrate"
    BY <1>2 DEF OInv, Serves, CalLabels
  <1>5. CASE DumpFails
    BY <1>1, <1>3, <1>5, Stutter DEF DumpFails, UnchangedApp
  <1>6. CASE NoShell
    BY <1>1, <1>3, <1>4, <1>6, FailureServes DEF NoShell
  <1> QED
    BY <1>5, <1>6

----------------------------------------------------------------------------
(* A write is the step that changes the tracker.  What a command leaves    *)
(* alone:                                                                  *)
LEMMA WriteKeepsEffects ==
    ASSUME DeviceTypeOK, inbox = NoCommand, NEW c \in Commands \cup {NoCommand}, inbox' = c,
           UNCHANGED <<streaming, units, layers, zeroed, srcmap>>
    PROVE  /\ EffUnits' \in OriUnits
           /\ c.cmd # "UNITS" => EffUnits' = EffUnits
           /\ c.cmd \notin {"CONTINUOUS_PNO", "SINGLE_PNO"} => EffStreaming' = EffStreaming
           /\ c.cmd # "BORESIGHT" => Zero' = Zero
           /\ c.cmd # "SRC_SELECT" => EffSrcmap' = EffSrcmap
  <1>1. NoCommand.cmd = "none"
    BY DEF NoCommand
  <1>2. EffUnits' \in OriUnits
    BY <1>1 DEF EffUnits, UnitsAfter, DeviceTypeOK, Commands
  <1>3. c.cmd # "UNITS" => EffUnits' = EffUnits
    BY <1>1 DEF EffUnits, UnitsAfter
  <1>4. c.cmd \notin {"CONTINUOUS_PNO", "SINGLE_PNO"} => EffStreaming' = EffStreaming
    BY <1>1 DEF EffStreaming, StreamingAfter
  <1>5. ASSUME c.cmd # "BORESIGHT" PROVE Zero' = Zero
    <2>1. EffZeroed' = EffZeroed
      BY <1>1, <1>5 DEF EffZeroed, ZeroedAfter
    <2>2. EffLayers' = EffLayers
      BY <1>1, <1>5 DEF EffLayers, LayersAfter
    <2> QED
      BY <2>1, <2>2 DEF Zero
  <1>6. c.cmd # "SRC_SELECT" => EffSrcmap' = EffSrcmap
    BY <1>1 DEF EffSrcmap, SrcmapAfter
  <1> QED
    BY <1>2, <1>3, <1>4, <1>5, <1>6

(* Where the driver sends what.                                            *)
StartLabels == {"su_quat", "su_bore", "sv_euler", "sv_bore", "sv_quat"}

LEMMA CommandKinds ==
    /\ Command(pc).cmd \in CmdTypes \cup {"none"}
    /\ Command(pc).cmd \in {"UNITS", "BORESIGHT"} => pc \in StartLabels \cup CalLabels
    /\ Command(pc).cmd = "SRC_SELECT" => pc = "src_set"
  BY DEF Command, Fill, CmdTypes, DataMode, DefineDataType, RequestNumOfStations, SetHemisphere,
         SetBoresight, ResetBoresight, SetSource, NoCommand, StartLabels, CalLabels

LEMMA WriteServes ==
    ASSUME OInv, UNCHANGED appVars,
           WriteOk(Command(pc)) \/ WriteLost(Command(pc)) \/ WriteUnreported(Command(pc))
    PROVE  ServiceStep
  <1> DEFINE c == Command(pc)
  <1>1. Phase' = Phase /\ client' = client /\ DeviceTypeOK
    BY DEF appVars, Phase, InLoop, OInv, TInv, TypeOK
  <1>2. UNCHANGED <<streaming, units, layers, zeroed, srcmap>>
    BY DEF WriteOk, WriteLost, WriteUnreported, UnchangedByWrite
  <1>3. CASE UNCHANGED inbox
    BY <1>1, <1>2, <1>3, Stutter, UnchangedKeepsEffects DEF SameTracker, DeviceState, Zero
  <1>4. CASE inbox = NoCommand /\ inbox' = c
    <2>1. c \in Commands \cup {NoCommand}
      BY CommandType DEF OInv
    <2>2. /\ EffUnits' \in OriUnits
          /\ c.cmd # "UNITS" => EffUnits' = EffUnits
          /\ c.cmd \notin {"CONTINUOUS_PNO", "SINGLE_PNO"} => EffStreaming' = EffStreaming
          /\ c.cmd # "BORESIGHT" => Zero' = Zero
          /\ c.cmd # "SRC_SELECT" => EffSrcmap' = EffSrcmap
      BY <1>1, <1>2, <1>4, <2>1, WriteKeepsEffects
    <2>3. EffStreaming' \in BOOLEAN /\ Zero' \in BOOLEAN
      BY DEF EffStreaming, Zero
    <2>4. EffUnits' \in Tracker!OriUnits
      BY <2>2 DEF OriUnits, Tracker!OriUnits
    <2>5. CASE c.cmd \in {"none", "HEMISPHERE", "STATION_MAP"}
      BY <1>1, <2>2, <2>5, Stutter DEF SameTracker
    <2>6. CASE c.cmd \in {"CONTINUOUS_PNO", "SINGLE_PNO"}
      BY <1>1, <2>2, <2>3, <2>6 DEF ServiceStep, Tracker!Next, Tracker!Stream
    <2>7. CASE c.cmd \in {"UNITS", "BORESIGHT"}
      <3>1. CASE pc \in StartLabels
        <4>1. Phase = "starting"
          BY <3>1 DEF Phase, InLoop, StartLabels
        <4> QED
          BY <1>1, <2>2, <2>3, <2>4, <2>7, <4>1 DEF ServiceStep, Tracker!Next, Tracker!SetUp
      <3>2. CASE pc \in CalLabels
        <4>1. Phase = "ready"
          BY <3>2 DEF Phase, InLoop, CalLabels
        <4>2. Tracker!Pending("calibrate")
          BY <3>2 DEF OInv, Serves, Pending, Tracker!Pending
        <4> QED
          BY <1>1, <2>2, <2>3, <2>4, <2>7, <4>1, <4>2
             DEF ServiceStep, Tracker!Next, Tracker!Calibrate
      <3> QED
        BY <2>7, <3>1, <3>2, CommandKinds
    <2>8. CASE c.cmd = "SRC_SELECT"
      <3>1. pc = "src_set"
        BY <2>8, CommandKinds
      <3>2. Phase = "ready"
        BY <3>1 DEF Phase, InLoop
      <3>3. Tracker!Pending("source") /\ client.source >= 1
        BY <3>1 DEF OInv, TInv, SourceAccepted, Pending, Tracker!Pending
      <3>4. EffSrcmap' = [s \in Stations |-> IF s \in Tracker!Named
                                             THEN Tracker!SourceMap(client.source)
                                             ELSE EffSrcmap[s]]
        <4>1. Addressed(c) = Requested /\ c.map = SourceMap(client.source)
          BY <3>1, LabelCommands
        <4>2. Requested = Tracker!Named
          BY DEF Requested, Addressed, SetSource, Fill, AllStations, Tracker!Named,
                 Tracker!AllStations
        <4>3. EffSrcmap = [s \in Stations |-> srcmap[s]]
          BY <1>4 DEF EffSrcmap, SrcmapAfter, NoCommand
        <4>4. EffSrcmap' = [s \in Stations |-> IF s \in Addressed(c) THEN c.map ELSE srcmap[s]]
          BY <1>2, <1>4, <2>8 DEF EffSrcmap, SrcmapAfter, Addressed
        <4> QED
          BY <4>1, <4>2, <4>3, <4>4 DEF SourceMap, Tracker!SourceMap
      <3> QED
        BY <1>1, <2>2, <2>8, <3>2, <3>3, <3>4
           DEF ServiceStep, Tracker!Next, Tracker!SelectSource
    <2> QED
      BY <2>5, <2>6, <2>7, <2>8, CommandKinds DEF CmdTypes
  <1> QED
    BY <1>3, <1>4 DEF WriteOk, WriteLost, WriteUnreported

LEMMA TransferServes ==
    OInv /\ UNCHANGED appVars /\ (Transfer(Command(pc)) \/ FaultyTransfer(Command(pc)))
        => ServiceStep
  <1> SUFFICES ASSUME OInv, UNCHANGED appVars,
                      Transfer(Command(pc)) \/ FaultyTransfer(Command(pc))
               PROVE  ServiceStep
    OBVIOUS
  <1>1. CASE ReadStep(Command(pc)) \/ ReadFaultStep
    <2>1. UNCHANGED DeviceState
      BY <1>1 DEF ReadStep, ReadFaultStep, UnchangedByRead, DeviceState
    <2>2. SameTracker
      BY <2>1, UnchangedKeepsEffects DEF SameTracker, Zero
    <2> QED
      BY <2>2, Stutter DEF appVars, Phase, InLoop
  <1> QED
    BY <1>1, WriteServes DEF Transfer, FaultyTransfer

----------------------------------------------------------------------------
(* A device that refuses nothing, and everything else around the driver.   *)
LEMMA DeviceServes == NoRefusals /\ OInv /\ DeviceNext => ServiceStep
  <1> SUFFICES ASSUME NoRefusals, OInv, DeviceNext PROVE ServiceStep
    OBVIOUS
  <1>1. Phase' = Phase /\ client' = client
    BY DEF DeviceNext, appVars, Phase, InLoop
  <1>2. CASE UNCHANGED DeviceState
    BY <1>1, <1>2, Stutter, UnchangedKeepsEffects DEF SameTracker, Zero
  <1>3. CASE DeviceExecute
    <2>1. EffUnits' = EffUnits /\ EffSrcmap' = EffSrcmap
          /\ EffZeroed' = EffZeroed /\ EffLayers' = EffLayers
      BY <1>3, ExecuteKeepsEffects DEF OInv, TInv, TypeOK
    <2>2. Zero' = Zero
      BY <2>1 DEF Zero
    <2>3. EffStreaming' \in BOOLEAN
      BY DEF EffStreaming
    <2> QED
      BY <1>1, <2>1, <2>2, <2>3 DEF ServiceStep, Tracker!Next, Tracker!Stream
  <1> QED
    BY <1>2, <1>3 DEF NoRefusals, DeviceNext, DeviceStep, DeviceRefuse, Fault, DeviceStream,
                      SensorChange, DeviceState

LEMMA EnvironmentServes == OInv /\ Environment => ServiceStep
  <1> SUFFICES ASSUME OInv, Environment PROVE ServiceStep
    OBVIOUS
  <1>1. SameTracker
    BY DriverKeepsTracker DEF Environment, RequestCalibration, RequestSource, ClientCalls,
                              TimerExpires, Sigint, Relaunch
  <1>2. CASE RequestCalibration \/ RequestSource
    <2>1. /\ ~Pending /\ pc # "exited" /\ pc' = pc
          /\ client'.kind \in {"calibrate", "source"} /\ client'.reply = "none"
      BY <1>2 DEF RequestCalibration, RequestSource, ClientCalls
    <2>2. Phase' = Phase /\ Phase # "stopped"
      BY <2>1 DEF Phase, InLoop
    <2> QED
      BY <1>1, <2>1, <2>2 DEF ServiceStep, SameTracker, Pending, Tracker!Next, Tracker!Call,
                              Tracker!tracker
  <1>3. CASE TimerExpires \/ Sigint
    <2>1. pc' = pc /\ client' = client
      BY <1>3 DEF TimerExpires, Sigint
    <2> QED
      BY <1>1, <2>1, Stutter DEF Phase, InLoop
  <1>4. CASE Relaunch
    <2>1. Phase' = "starting" /\ client' = Tracker!NoRequest
      BY <1>4 DEF Relaunch, Phase, InLoop, NoClient, AllStations, Tracker!NoRequest,
                  Tracker!AllStations
    <2> QED
      BY <1>1, <2>1 DEF ServiceStep, SameTracker, Tracker!Next, Tracker!Restart, Tracker!tracker
  <1> QED
    BY <1>2, <1>3, <1>4 DEF Environment

LEMMA StepServes == NoRefusals /\ OInv /\ [Next]_vars => ServiceStep
  <1> SUFFICES ASSUME NoRefusals, OInv, [Next]_vars PROVE ServiceStep
    OBVIOUS
  <1>1. CASE MainStep \/ SavedCalibrationStep \/ CalibrationStep \/ SourceStep
    BY <1>1, MainServes, SavedServes, CalibrationServes, SourceServes
  <1>2. CASE TransferStep \/ (FaultyTransfer(Command(pc)) /\ UNCHANGED appVars)
    BY <1>2, TransferServes DEF TransferStep
  <1>3. CASE DeviceNext
    BY <1>3, DeviceServes
  <1>4. CASE DumpFails \/ NoShell
    BY <1>4, DumpServes
  <1>5. CASE Environment
    BY <1>5, EnvironmentServes
  <1>6. CASE UNCHANGED vars
    <2>1. UNCHANGED deviceVars /\ pc' = pc /\ client' = client
      BY <1>6 DEF vars, appVars
    <2> QED
      BY <2>1, DriverKeepsTracker, Stutter DEF Phase, InLoop
  <1> QED
    BY <1>1, <1>2, <1>3, <1>4, <1>5, <1>6 DEF Next, DriverStep, FaultStep, Ended

LEMMA InitialService == Init => Tracker!Init
  <1> SUFFICES ASSUME Init PROVE Tracker!Init
    OBVIOUS
  <1>1. Phase = "starting" /\ client = Tracker!NoRequest
    BY DEF Init, Phase, InLoop, NoClient, AllStations, Tracker!NoRequest, Tracker!AllStations
  <1>2. inbox.cmd = "none"
    BY DEF Init, DeviceInit, NoCommand
  <1>3. EffUnits \in Tracker!OriUnits
    BY <1>2 DEF Init, DeviceInit, EffUnits, UnitsAfter, OriUnits, Tracker!OriUnits
  <1>4. EffStreaming \in BOOLEAN /\ Zero \in BOOLEAN
    BY DEF EffStreaming, Zero
  <1>5. EffSrcmap = [s \in Stations |-> Tracker!SourceMap(1)]
    BY <1>2 DEF Init, DeviceInit, EffSrcmap, SrcmapAfter, SourceMap, Tracker!SourceMap
  <1> QED
    BY <1>1, <1>3, <1>4, <1>5 DEF Tracker!Init

----------------------------------------------------------------------------
(* The driver implements the service: what it announces and answers is     *)
(* true of the tracker, and it changes units, boresight and sources only   *)
(* before it is ready or on behalf of the request it serves, with any      *)
(* number of lost or unreported writes, failed reads, sensors that drop    *)
(* out and relaunches, as long as the device refuses nothing.              *)
THEOREM ServiceImplemented == ASSUME NoRefusals PROVE Spec => ImplementsService
  <1>1. OInv /\ [Next]_vars => OInv'
    BY OutcomeKept
  <1>2. OInv /\ [Next]_vars => [Tracker!Next]_(Tracker!vars)
    BY StepServes DEF ServiceStep
  <1> QED
    BY <1>1, <1>2, InitialOutcome, InitialService, PTL DEF Spec, ImplementsService, Tracker!Spec
=============================================================================

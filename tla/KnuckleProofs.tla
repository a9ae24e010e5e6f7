--------------------------- MODULE KnuckleProofs ---------------------------
(***************************************************************************)
(* For every set of hands, goals and clients: the calibration node reports *)
(* success only for a goal without a result and never for one that was     *)
(* cancelled in time, listens to /tf only while it acquires, and leaves a  *)
(* torn file only behind a fault; with one client at a time it saves what  *)
(* it publishes.                                                           *)
(***************************************************************************)
EXTENDS KnuckleProperties, TLAPS

USE KnuckleAssumption

Serving == ExecLabels \ {"down", "dead", "idle"}

(* Before the loop is left the goal is live; after a break it has a result *)
(* but the preempt flag is still up, because only the acceptance of the    *)
(* next goal lowers it; so the last look at the flag tells the two apart.  *)
(* The goal that waits is not the one that runs: it is not live.           *)
BeforeBreak == {"start", "erased", "bare", "reset", "acquire", "preempt", "feedback", "succeed"}

GoalInv ==
    /\ exec \in Serving => current \in Goals /\ status[current] \in Live \cup Terminal
    /\ exec \in Serving \ {"start", "return"} => Hand \in Hands
    /\ exec \in BeforeBreak => status[current] \in Live
    /\ exec \in {"unregister", "check"} =>
         status[current] \in Live \/ (status[current] = "preempted" /\ preempt_request)
    /\ next # "none" => status[next] \in {"pending", "recalling"}

TfInv == subscribed => exec \in {"acquire", "preempt", "feedback", "unregister"}

KInv == TypeOK /\ GoalInv /\ TfInv /\ FilesWhole

(* The variables of the action server and the hands, and the rest.         *)
ServerTypes ==
    /\ exec \in ExecLabels
    /\ status \in [Goals -> Statuses]
    /\ hand_side \in [Goals -> Sides \cup Hands]
    /\ current \in Goals \cup {"none"} /\ next \in Goals \cup {"none"}
    /\ preempt_request \in BOOLEAN /\ next_preempt \in BOOLEAN
    /\ expired \in BOOLEAN
HandTypes ==
    /\ marker \in [Hands -> {"shown", "erased", "bare"}]
    /\ pose \in [Hands -> Poses]
    /\ points \in SUBSET Hands
    /\ subscribed \in BOOLEAN
OutTypes ==
    /\ current_knuckle_tf \in [Hands -> Poses \cup {NoTf}]
    /\ broadcast \in [Hands -> Poses \cup {NoTf}]
    /\ file \in [Hands -> Poses \cup {Torn}]
    /\ faults \in 0..MaxFaults

LEMMA Types ==
    /\ TypeOK <=> ServerTypes /\ HandTypes /\ OutTypes /\ call \in [Callers -> Frames]
    /\ TypeOK' <=> ServerTypes' /\ HandTypes' /\ OutTypes' /\ call' \in [Callers -> Frames]
  BY DEF TypeOK, ServerTypes, HandTypes, OutTypes

LEMMA HandsNumbered ==
    /\ Len(HandOrder) \in Nat \ {0}
    /\ \A i \in 1..Len(HandOrder) : HandOrder[i] \in Hands
    /\ HandOrder[1] \in Hands
  <1>1. Len(HandOrder) \in Nat \ {0} /\ DOMAIN HandOrder = 1..Len(HandOrder)
    OBVIOUS
  <1> QED
    BY <1>1 DEF Hands

LEMMA NoCallFrame == NoCall \in Frames
  BY HandsNumbered DEF NoCall, Frames, CallLabels, Default, NoTf, Poses

LEMMA Started == Init => KInv
  <1> SUFFICES ASSUME Init PROVE KInv
    OBVIOUS
  <1>1. TypeOK
    <2>1. ServerTypes
      BY HandsNumbered DEF Init, ServerTypes, ExecLabels, Statuses
    <2>2. Default \in Poses
      BY DEF Default, Poses
    <2>3. HandTypes
      BY <2>2 DEF Init, HandTypes
    <2>5. OutTypes
      BY <2>2 DEF Init, OutTypes
    <2>4. call \in [Callers -> Frames]
      BY NoCallFrame DEF Init
    <2> QED
      BY <2>1, <2>3, <2>4, <2>5, Types
  <1>2. GoalInv /\ TfInv
    BY DEF Init, GoalInv, TfInv, Serving, BeforeBreak
  <1>3. FilesWhole
    BY DEF Init, FilesWhole, Torn, Default
  <1> QED
    BY <1>1, <1>2, <1>3 DEF KInv

----------------------------------------------------------------------------
(* Types.                                                                  *)

(* What a step of a call leaves in its frame.                              *)
LEMMA FrameStep ==
    ASSUME TypeOK, NEW c \in Callers
    PROVE  /\ Answers(c) => call' \in [Callers -> Frames]
           /\ \A l \in CallLabels : Goes(c, l) => call' \in [Callers -> Frames]
           /\ AfterHand(c) => call' \in [Callers -> Frames]
           /\ HandOf(c) \in Hands
  <1>1. call[c] \in Frames /\ call \in [Callers -> Frames]
    BY DEF TypeOK
  <1>2. Answers(c) => call' \in [Callers -> Frames]
    BY <1>1, NoCallFrame DEF Answers
  <1>3. ASSUME NEW l \in CallLabels, Goes(c, l) PROVE call' \in [Callers -> Frames]
    <2>1. [call[c] EXCEPT !.at = l] \in Frames
      BY <1>1 DEF Frames
    <2> QED
      BY <1>1, <1>3, <2>1 DEF Goes
  <1>4. HandOf(c) \in Hands
    BY <1>1, HandsNumbered DEF HandOf, Frames
  <1>5. ASSUME AfterHand(c) PROVE call' \in [Callers -> Frames]
    <2>1. CASE call[c].pos < Len(HandOrder)
      <3>1. call[c].pos + 1 \in 1..Len(HandOrder)
        BY <1>1, <2>1, HandsNumbered DEF Frames
      <3> QED
        BY <1>1, <1>5, <2>1, <3>1 DEF AfterHand, Frames, CallLabels
    <2>2. CASE ~(call[c].pos < Len(HandOrder))
      BY <1>1, <1>5, <2>2 DEF AfterHand, Frames, CallLabels
    <2> QED
      BY <2>1, <2>2
  <1> QED
    BY <1>2, <1>3, <1>4, <1>5

(* The steps of the execute thread before and after the acquisition, and   *)
(* of the clients, change the action server's state.                       *)
LEMMA StatusType ==
    ASSUME TypeOK, NEW s \in Statuses, NEW g \in Goals \cup {"none"}, SetStatus(g, s)
    PROVE  status' \in [Goals -> Statuses]
  BY DEF TypeOK, SetStatus

LEMMA ServerSteps ==
    ASSUME KInv,
           \/ \E g \in Goals : GoalArrives(g) \/ CancelArrives(g)
           \/ Accept \/ Return \/ EraseMarkers \/ PreemptCheck \/ SetSucceeded
    PROVE  TypeOK'
  <1> USE DEF KInv
  <1>0. TypeOK /\ ServerTypes /\ HandTypes /\ OutTypes /\ call \in [Callers -> Frames]
    BY Types
  <1>1. ASSUME NEW g \in Goals, GoalArrives(g) PROVE TypeOK'
    <2>1. status' \in [Goals -> Statuses]
      BY <1>0, <1>1 DEF GoalArrives, ServerTypes, Statuses, Terminal
    <2>2. hand_side' \in [Goals -> Sides \cup Hands]
      BY <1>0, <1>1 DEF GoalArrives, ServerTypes
    <2>3. preempt_request' \in BOOLEAN /\ next_preempt' \in BOOLEAN
      BY <1>0, <1>1, Zenon DEF GoalArrives, ServerTypes
    <2>4. next' \in Goals \cup {"none"} /\ UNCHANGED <<exec, current, expired>>
      BY <1>1 DEF GoalArrives
    <2>5. HandTypes' /\ OutTypes' /\ call' \in [Callers -> Frames]
      BY <1>0, <1>1 DEF GoalArrives, HandTypes, OutTypes, handVars, outVars
    <2>6. ServerTypes'
      BY <1>0, <2>1, <2>2, <2>3, <2>4 DEF ServerTypes
    <2> QED
      BY <2>5, <2>6, Types
  <1>2. ASSUME NEW g \in Goals, CancelArrives(g) PROVE TypeOK'
    <2>1. status' \in [Goals -> Statuses]
      BY <1>0, <1>2, StatusType DEF CancelArrives, Statuses, Live
    <2>2. preempt_request' \in BOOLEAN /\ next_preempt' \in BOOLEAN
      BY <1>0, <1>2 DEF CancelArrives, ServerTypes
    <2>3. UNCHANGED <<exec, hand_side, current, next, expired, handVars, call, outVars, faults>>
      BY <1>2 DEF CancelArrives
    <2> QED
      BY <1>0, <2>1, <2>2, <2>3, Types
         DEF ServerTypes, HandTypes, OutTypes, handVars, outVars
  <1>3. CASE Accept
    <2>1. status' \in [Goals -> Statuses]
      BY <1>0, <1>3, StatusType DEF Accept, Statuses, Live, ServerTypes
    <2>2. exec' \in ExecLabels /\ current' \in Goals \cup {"none"} /\ next' \in Goals \cup {"none"}
      BY <1>0, <1>3 DEF Accept, ServerTypes, ExecLabels
    <2> QED
      BY <1>0, <1>3, <2>1, <2>2, Types
         DEF Accept, ServerTypes, HandTypes, OutTypes, handVars, outVars
  <1>4. CASE Return \/ PreemptCheck \/ SetSucceeded
    <2>1. status' \in [Goals -> Statuses]
      BY <1>0, <1>4, StatusType
         DEF Return, PreemptCheck, SetSucceeded, Statuses, Terminal, ServerTypes
    <2>2. exec' \in ExecLabels /\ expired' \in BOOLEAN
      BY <1>0, <1>4 DEF Return, PreemptCheck, SetSucceeded, ExecGoes, ServerTypes, ExecLabels
    <2>3. UNCHANGED <<hand_side, current, next, preempt_request, next_preempt, handVars, call,
                      outVars, faults>>
      BY <1>4 DEF Return, PreemptCheck, SetSucceeded
    <2> QED
      BY <1>0, <2>1, <2>2, <2>3, Types
         DEF ServerTypes, HandTypes, OutTypes, handVars, outVars
  <1>5. CASE EraseMarkers
    <2>1. status' \in [Goals -> Statuses]
      BY <1>0, <1>5, StatusType DEF EraseMarkers, Statuses, Terminal, ServerTypes
    <2>2. exec' \in ExecLabels /\ marker' \in [Hands -> {"shown", "erased", "bare"}]
      BY <1>0, <1>5 DEF EraseMarkers, ExecLabels, HandTypes
    <2> QED
      BY <1>0, <1>5, <2>1, <2>2, Types
         DEF EraseMarkers, ServerTypes, HandTypes, OutTypes, outVars
  <1> QED
    BY <1>1, <1>2, <1>3, <1>4, <1>5

(* The hand that is calibrated is one there is, or nothing of it changes.  *)
LEMMA AcquisitionSteps ==
    ASSUME KInv,
           \/ EmptyFingerData \/ InsertMarkers \/ Subscribe \/ LoopCondition \/ Feedback
           \/ LastFit \/ LastCheck \/ TfArrives \/ TimePasses
    PROVE  TypeOK'
  <1> USE DEF KInv
  <1>0. TypeOK /\ ServerTypes /\ HandTypes /\ OutTypes /\ call \in [Callers -> Frames]
    BY Types
  <1>1. UNCHANGED <<actionVars, call, outVars, faults>>
    BY DEF EmptyFingerData, InsertMarkers, Subscribe, LoopCondition, Feedback, LastFit, LastCheck,
           TfArrives, TimePasses, ExecOnly
  <1>2. exec' \in ExecLabels /\ expired' \in BOOLEAN /\ subscribed' \in BOOLEAN
    BY <1>0 DEF EmptyFingerData, InsertMarkers, Subscribe, LoopCondition, Feedback, LastFit,
                LastCheck, TfArrives, TimePasses, ExecOnly, ExecGoes, ExecLabels, ServerTypes,
                HandTypes, handVars
  <1>3. ServerTypes'
    BY <1>0, <1>1, <1>2 DEF ServerTypes, actionVars
  <1>4. OutTypes' /\ call' \in [Callers -> Frames]
    BY <1>0, <1>1 DEF OutTypes, outVars
  <1>5. CASE UNCHANGED <<marker, pose, points>>
    <2>1. HandTypes'
      BY <1>0, <1>2, <1>5 DEF HandTypes
    <2> QED
      BY <1>3, <1>4, <2>1, Types
  <1>6. CASE EmptyFingerData \/ InsertMarkers \/ Subscribe \/ Feedback \/ LastFit \/ TfArrives
    <2>1. current \in Goals /\ Hand \in Hands
      BY <1>6 DEF EmptyFingerData, InsertMarkers, Subscribe, Feedback, LastFit, TfArrives, ExecGoes,
                  GoalInv, TfInv, Serving, ExecLabels
    <2>2. marker' \in [Hands -> {"shown", "erased", "bare"}]
      BY <1>0, <1>6 DEF EmptyFingerData, InsertMarkers, Subscribe, Feedback, LastFit, TfArrives,
                        HandTypes
    <2>3. \A b \in BOOLEAN : [of |-> current, fitted |-> b] \in Poses
      BY <2>1 DEF Poses
    <2>4. FitSphere => pose' \in [Hands -> Poses]
      <3>1. [of |-> current, fitted |-> Hand \in points] \in Poses
        <4>1. CASE Hand \in points
          <5>1. (Hand \in points) = TRUE
            BY <4>1
          <5> QED
            BY <5>1, <2>3
        <4>2. CASE Hand \notin points
          <5>1. (Hand \in points) = FALSE
            BY <4>2
          <5> QED
            BY <5>1, <2>3
        <4> QED
          BY <4>1, <4>2
      <3> HIDE DEF Hand
      <3> DEFINE fit == [of |-> current, fitted |-> Hand \in points]
      <3>2. FitSphere => pose' = [pose EXCEPT ![Hand] = fit]
        BY DEF FitSphere
      <3> HIDE DEF fit
      <3>3. fit \in Poses
        BY <3>1 DEF fit
      <3> QED
        BY <1>0, <3>2, <3>3 DEF HandTypes
    <2>5. pose' \in [Hands -> Poses]
      BY <1>0, <1>6, <2>3, <2>4
         DEF EmptyFingerData, InsertMarkers, Subscribe, Feedback, LastFit, TfArrives, HandTypes
    <2>6. points' \in SUBSET Hands
      BY <1>0, <1>6, <2>1
         DEF EmptyFingerData, InsertMarkers, Subscribe, Feedback, LastFit, TfArrives, HandTypes
    <2>7. HandTypes'
      BY <1>2, <2>2, <2>5, <2>6 DEF HandTypes
    <2> QED
      BY <1>3, <1>4, <2>7, Types
  <1>7. LoopCondition \/ LastCheck \/ TimePasses => UNCHANGED <<marker, pose, points>>
    BY DEF LoopCondition, LastCheck, TimePasses, ExecOnly, handVars
  <1> QED
    BY <1>5, <1>6, <1>7

LEMMA CallSteps ==
    ASSUME KInv, NEW c \in Callers, PublishArrives(c) \/ Publish(c)
    PROVE  TypeOK'
  <1> USE DEF KInv
  <1>0. TypeOK /\ ServerTypes /\ HandTypes /\ OutTypes /\ call \in [Callers -> Frames]
    BY Types
  <1>1. ServerTypes' /\ HandTypes'
    BY <1>0 DEF PublishArrives, Publish, UpdateTf, CollectTf, OpenFile, DumpFile, SendTransforms,
                NotExec, actionVars, handVars, ServerTypes, HandTypes
  <1>2. call[c] \in Frames
    BY <1>0
  <1>3. ASSUME PublishArrives(c) PROVE TypeOK'
    <2>1. PICK s \in Sides : call' = [call EXCEPT ![c].at = "update", ![c].side = s]
      BY <1>3 DEF PublishArrives
    <2>2. [[call[c] EXCEPT !.at = "update"] EXCEPT !.side = s] \in Frames
      BY <1>2 DEF Frames, CallLabels
    <2>3. call' \in [Callers -> Frames]
      BY <1>0, <2>1, <2>2
    <2>4. OutTypes'
      BY <1>0, <1>3 DEF PublishArrives, OutTypes, outVars
    <2> QED
      BY <1>1, <2>3, <2>4, Types
  <1>4. ASSUME UpdateTf(c) PROVE TypeOK'
    <2>1. call' \in [Callers -> Frames]
      BY <1>4, FrameStep DEF UpdateTf, CallLabels
    <2>2. current_knuckle_tf' \in [Hands -> Poses \cup {NoTf}]
      BY <1>0, <1>4 DEF UpdateTf, OutTypes, HandTypes
    <2>3. OutTypes'
      BY <1>0, <1>4, <2>2 DEF UpdateTf, OutTypes
    <2> QED
      BY <1>1, <2>1, <2>3, Types
  <1>5. ASSUME CollectTf(c) PROVE TypeOK'
    <2>1. CASE marker[HandOf(c)] = "bare"
      BY <1>0, <1>1, <1>5, <2>1, FrameStep, Types DEF CollectTf, OutTypes, outVars
    <2>2. CASE marker[HandOf(c)] # "bare"
      <3>1. call' = [call EXCEPT ![c].at = "save",
                                 ![c].transforms[HandOf(c)] = current_knuckle_tf[HandOf(c)]]
        BY <1>5, <2>2 DEF CollectTf
      <3>2. HandOf(c) \in Hands /\ current_knuckle_tf[HandOf(c)] \in Poses \cup {NoTf}
        BY <1>0, FrameStep DEF OutTypes
      <3>3. [call[c].transforms EXCEPT ![HandOf(c)] = current_knuckle_tf[HandOf(c)]]
              \in [Hands -> Poses \cup {NoTf}]
        BY <1>2, <3>2 DEF Frames
      <3>4. [[call[c] EXCEPT !.at = "save"] EXCEPT !.transforms =
               [call[c].transforms EXCEPT ![HandOf(c)] = current_knuckle_tf[HandOf(c)]]] \in Frames
        BY <1>2, <3>3 DEF Frames, CallLabels
      <3>5. call'[c] = [[call[c] EXCEPT !.at = "save"] EXCEPT !.transforms =
               [call[c].transforms EXCEPT ![HandOf(c)] = current_knuckle_tf[HandOf(c)]]]
        BY <1>0, <1>2, <3>1 DEF Frames
      <3>6. call' \in [Callers -> Frames]
        BY <1>0, <3>1, <3>4, <3>5
      <3> QED
        BY <1>0, <1>1, <1>5, <3>6, Types DEF CollectTf, OutTypes, outVars
    <2> QED
      BY <2>1, <2>2
  <1>6. ASSUME OpenFile(c) PROVE TypeOK'
    <2>1. HandOf(c) \in Hands /\ pose[HandOf(c)] \in Poses
      BY <1>0, FrameStep DEF HandTypes
    <2>2. [[call[c] EXCEPT !.at = "dump"] EXCEPT !.to_save = pose[HandOf(c)]] \in Frames
      BY <1>2, <2>1 DEF Frames, CallLabels
    <2>3. call' \in [Callers -> Frames]
      BY <1>0, <1>6, <2>2, FrameStep DEF OpenFile
    <2>4. file' \in [Hands -> Poses \cup {Torn}]
      BY <1>0, <1>6, <2>1 DEF OpenFile, OutTypes
    <2>5. OutTypes'
      BY <1>0, <1>6, <2>4 DEF OpenFile, OutTypes
    <2> QED
      BY <1>1, <2>3, <2>5, Types
  <1>7. ASSUME DumpFile(c) PROVE TypeOK'
    <2>1. call' \in [Callers -> Frames]
      BY <1>7, FrameStep DEF DumpFile
    <2>2. file' \in [Hands -> Poses \cup {Torn}]
      BY <1>0, <1>2, <1>7 DEF DumpFile, OutTypes, Frames
    <2>3. OutTypes'
      BY <1>0, <1>7, <2>2 DEF DumpFile, OutTypes
    <2> QED
      BY <1>1, <2>1, <2>3, Types
  <1>8. ASSUME SendTransforms(c) PROVE TypeOK'
    <2>1. call' \in [Callers -> Frames]
      BY <1>8, FrameStep DEF SendTransforms
    <2>2. broadcast' \in [Hands -> Poses \cup {NoTf}] /\ faults' \in 0..MaxFaults
      BY <1>0, <1>2, <1>8 DEF SendTransforms, Fault, OutTypes, Frames
    <2>3. OutTypes'
      BY <1>0, <1>8, <2>2 DEF SendTransforms, OutTypes
    <2> QED
      BY <1>1, <2>1, <2>3, Types
  <1> QED
    BY <1>3, <1>4, <1>5, <1>6, <1>7, <1>8 DEF Publish

LEMMA LaunchSteps ==
    ASSUME KInv, Start \/ Crash PROVE TypeOK'
  <1> USE DEF KInv
  <1>0. TypeOK /\ ServerTypes /\ HandTypes /\ OutTypes /\ call \in [Callers -> Frames]
    BY Types
  <1>1. CASE Start
    <2>1. exec' \in ExecLabels /\ UNCHANGED <<actionVars, expired, subscribed, call, file, faults>>
      BY <1>1 DEF Start, ExecLabels
    <2>2. ServerTypes'
      BY <1>0, <2>1 DEF ServerTypes, actionVars
    <2>3. CASE \E h \in Hands : file[h] = Torn
      BY <1>0, <1>1, <2>1, <2>2, <2>3, Types DEF Start, HandTypes, OutTypes
    <2>4. CASE ~\E h \in Hands : file[h] = Torn
      <3>1. file \in [Hands -> Poses]
        BY <1>0, <2>4 DEF OutTypes
      <3>2. HandTypes'
        BY <1>0, <1>1, <2>1, <2>4, <3>1 DEF Start, HandTypes
      <3>3. current_knuckle_tf' = file /\ broadcast' = file
        BY <1>1, <2>4 DEF Start
      <3>4. OutTypes'
        BY <1>0, <2>1, <3>1, <3>3 DEF OutTypes
      <3> QED
        BY <1>0, <2>1, <2>2, <3>2, <3>4, Types
    <2> QED
      BY <2>3, <2>4
  <1>2. CASE Crash
    <2>1. status' \in [Goals -> Statuses]
      BY <1>0, <1>2 DEF Crash, ServerTypes, Statuses, Terminal
    <2>2. ServerTypes'
      BY <1>0, <1>2, <2>1 DEF Crash, ServerTypes, ExecLabels
    <2>3. Default \in Poses
      BY DEF Default, Poses
    <2>4. HandTypes'
      BY <1>2, <2>3 DEF Crash, HandTypes
    <2>5. OutTypes'
      BY <1>0, <1>2 DEF Crash, Fault, OutTypes
    <2>6. call' \in [Callers -> Frames]
      BY <1>2, NoCallFrame DEF Crash
    <2> QED
      BY <2>2, <2>4, <2>5, <2>6, Types
  <1> QED
    BY <1>1, <1>2

LEMMA TypesKept == ASSUME KInv, [Next]_vars PROVE TypeOK'
  <1>1. CASE Ended \/ UNCHANGED vars
    <2>1. UNCHANGED vars
      BY <1>1 DEF Ended
    <2> QED
      BY <2>1 DEF KInv, TypeOK, vars, actionVars, handVars, outVars
  <1>2. CASE Start \/ Crash
    BY <1>2, LaunchSteps
  <1>3. CASE \E c \in Callers : PublishArrives(c) \/ Publish(c)
    BY <1>3, CallSteps
  <1>4. CASE Accept \/ Return \/ \E g \in Goals : GoalArrives(g) \/ CancelArrives(g)
    BY <1>4, ServerSteps
  <1>5. CASE Calibration \/ TfArrives \/ TimePasses
    BY <1>5, ServerSteps, AcquisitionSteps DEF Calibration
  <1> QED
    BY <1>1, <1>2, <1>3, <1>4, <1>5 DEF Next, Clients

----------------------------------------------------------------------------
(* The goal that runs.                                                     *)

LEMMA GoalKept == ASSUME KInv, [Next]_vars PROVE GoalInv'
  <1> USE DEF KInv
  <1>0. TypeOK /\ GoalInv
    OBVIOUS
  <1>1. ServerTypes
    BY Types
  <1>2. CASE UNCHANGED <<exec, actionVars>>
    BY <1>0, <1>2 DEF GoalInv, Hand, actionVars
  <1>3. ASSUME NEW g \in Goals, GoalArrives(g) PROVE GoalInv'
    <2>1. exec \in Serving => current # g /\ current # next
      BY <1>0, <1>3 DEF GoalArrives, GoalInv, Live, Terminal
    <2>2. status'[g] = "pending" /\ next' = g
      BY <1>3 DEF GoalArrives
    <2>3. exec \in Serving => status'[current] = status[current]
      BY <1>0, <1>3, <2>1 DEF GoalArrives, GoalInv
    <2>4. exec \in Serving => hand_side'[current] = hand_side[current]
      BY <1>0, <1>1, <1>3, <2>1 DEF GoalArrives, GoalInv, ServerTypes
    <2>5. preempt_request => preempt_request'
      BY <1>3 DEF GoalArrives
    <2>6. UNCHANGED <<exec, current>>
      BY <1>3 DEF GoalArrives
    <2>7. exec \in BeforeBreak \cup {"unregister", "check"} => exec \in Serving
      BY DEF BeforeBreak, Serving, ExecLabels
    <2> QED
      BY <1>0, <2>2, <2>3, <2>4, <2>5, <2>6, <2>7 DEF GoalInv, Hand
  <1>4. ASSUME NEW g \in Goals, CancelArrives(g) PROVE GoalInv'
    <2>1. UNCHANGED <<exec, hand_side, current, next>>
      BY <1>4 DEF CancelArrives
    <2>2. preempt_request => preempt_request'
      BY <1>4 DEF CancelArrives
    <2>3. \A x \in Goals : /\ status[x] \in Live => status'[x] \in Live
                           /\ status[x] \in Terminal => status'[x] = status[x]
                           /\ status[x] \in {"pending", "recalling"} =>
                                status'[x] \in {"pending", "recalling"}
      BY <1>1, <1>4 DEF CancelArrives, SetStatus, Live, Terminal, ServerTypes
    <2>4. exec \in BeforeBreak \cup {"unregister", "check"} => exec \in Serving
      BY DEF BeforeBreak, Serving, ExecLabels
    <2>5. next # "none" => next \in Goals
      BY <1>1 DEF ServerTypes
    <2> QED
      BY <1>0, <2>1, <2>2, <2>3, <2>4, <2>5 DEF GoalInv, Hand, Terminal
  <1>5. CASE Accept
    <2>1. exec' = "start" /\ current' = next /\ next' = "none" /\ next \in Goals
      BY <1>1, <1>5 DEF Accept, ServerTypes
    <2>2. status'[next] \in Live
      BY <1>1, <1>5, <2>1 DEF Accept, SetStatus, Live, ServerTypes
    <2> QED
      BY <2>1, <2>2 DEF GoalInv, Live, Serving, BeforeBreak, Hand
  <1>6. CASE Return
    <2>1. exec' = "idle" /\ UNCHANGED next
      BY <1>6 DEF Return
    <2>2. next # "none" => next \in Goals /\ status'[next] = status[next]
      BY <1>0, <1>1, <1>6 DEF Return, SetStatus, GoalInv, ServerTypes, Live
    <2> QED
      BY <1>0, <2>1, <2>2 DEF GoalInv, Serving, BeforeBreak
  <1>7. CASE EraseMarkers \/ PreemptCheck \/ SetSucceeded
    <2>1. current \in Goals /\ status[current] \in Live /\ exec \in BeforeBreak
      BY <1>0, <1>7 DEF EraseMarkers, PreemptCheck, SetSucceeded, ExecGoes, GoalInv, BeforeBreak,
                        Serving, ExecLabels
    <2>2. UNCHANGED <<hand_side, current, next, preempt_request>>
      BY <1>7 DEF EraseMarkers, PreemptCheck, SetSucceeded
    <2>3. status'[current] \in Live \cup Terminal
      BY <1>0, <1>1, <1>7, <2>1
         DEF EraseMarkers, PreemptCheck, SetSucceeded, SetStatus, ServerTypes, Live, Terminal
    <2>4. next # "none" => next \in Goals /\ status'[next] = status[next]
      BY <1>0, <1>1, <1>7, <2>1
         DEF EraseMarkers, PreemptCheck, SetSucceeded, SetStatus, GoalInv, ServerTypes, Live
    <2>5. \/ exec' = "return"
          \/ exec' \in {"erased", "feedback"} /\ UNCHANGED status /\ Hand \in Hands
          \/ /\ exec' = "unregister" /\ preempt_request /\ status'[current] = "preempted"
             /\ Hand \in Hands
      BY <1>0, <1>1, <1>7, <2>1
         DEF EraseMarkers, PreemptCheck, SetSucceeded, SetStatus, ExecGoes, GoalInv, Serving,
             ExecLabels, ServerTypes
    <2> QED
      BY <1>0, <2>1, <2>2, <2>3, <2>4, <2>5 DEF GoalInv, BeforeBreak, Hand
  <1>8. CASE \/ EmptyFingerData \/ InsertMarkers \/ Subscribe \/ LoopCondition \/ Feedback
             \/ LastFit \/ LastCheck
    <2>1. UNCHANGED actionVars
      BY <1>8 DEF EmptyFingerData, InsertMarkers, Subscribe, LoopCondition, Feedback, LastFit,
                  LastCheck, ExecOnly
    <2>2. exec \in Serving \ {"start", "return"}
      BY <1>8 DEF EmptyFingerData, InsertMarkers, Subscribe, LoopCondition, Feedback, LastFit,
                  LastCheck, ExecGoes, Serving, ExecLabels
    <2>3. \/ exec \in BeforeBreak /\ exec' \in BeforeBreak \cup {"unregister"}
          \/ exec = "unregister" /\ exec' = "check"
          \/ exec = "check" /\ (exec' = "return" \/ (exec' = "succeed" /\ ~preempt_request))
      BY <1>8 DEF EmptyFingerData, InsertMarkers, Subscribe, LoopCondition, Feedback, LastFit,
                  LastCheck, ExecGoes, BeforeBreak
    <2>4. exec \notin {"unregister", "check"} \/ exec \notin BeforeBreak
      BY DEF BeforeBreak
    <2> QED
      BY <1>0, <2>1, <2>2, <2>3, <2>4 DEF GoalInv, actionVars, Hand, BeforeBreak
  <1>9. CASE Start \/ Crash
    BY <1>0, <1>9 DEF Start, Crash, GoalInv, actionVars, Serving, BeforeBreak
  <1>10. CASE TfArrives \/ TimePasses \/ Ended \/ \E c \in Callers : PublishArrives(c) \/ Publish(c)
    <2>1. UNCHANGED <<exec, actionVars>>
      BY <1>10 DEF TfArrives, TimePasses, Ended, PublishArrives, Publish, UpdateTf, CollectTf,
                   OpenFile, DumpFile, SendTransforms, NotExec, vars
    <2> QED
      BY <1>2, <2>1
  <1>11. CASE UNCHANGED vars
    BY <1>2, <1>11 DEF vars
  <1> QED
    BY <1>3, <1>4, <1>5, <1>6, <1>7, <1>8, <1>9, <1>10, <1>11 DEF Next, Clients, Calibration

(* The subscription.                                                       *)
LEMMA TfKept == ASSUME KInv, [Next]_vars PROVE TfInv'
  <1> USE DEF KInv, TfInv
  <1>1. CASE Start \/ Crash \/ Accept \/ Return
    BY <1>1 DEF Start, Crash, Accept, Return, handVars
  <1>2. CASE EraseMarkers \/ EmptyFingerData \/ InsertMarkers \/ Subscribe
    BY <1>2 DEF EraseMarkers, EmptyFingerData, InsertMarkers, Subscribe, ExecGoes
  <1>3. CASE LoopCondition \/ PreemptCheck \/ Feedback
    BY <1>3 DEF LoopCondition, PreemptCheck, Feedback, ExecGoes, ExecOnly, handVars
  <1>4. CASE LastFit \/ LastCheck \/ SetSucceeded
    BY <1>4 DEF LastFit, LastCheck, SetSucceeded, ExecGoes, ExecOnly, handVars
  <1>5. CASE \/ TfArrives \/ TimePasses \/ Ended
             \/ \E g \in Goals : GoalArrives(g) \/ CancelArrives(g)
             \/ \E c \in Callers : PublishArrives(c) \/ Publish(c)
    <2>1. UNCHANGED <<exec, subscribed>>
      BY <1>5 DEF TfArrives, TimePasses, Ended, GoalArrives, CancelArrives, PublishArrives, Publish,
                  UpdateTf, CollectTf, OpenFile, DumpFile, SendTransforms, NotExec, vars, handVars
    <2> QED
      BY <2>1
  <1>6. CASE UNCHANGED vars
    BY <1>6 DEF vars, handVars
  <1> QED
    BY <1>1, <1>2, <1>3, <1>4, <1>5, <1>6 DEF Next, Clients, Calibration

----------------------------------------------------------------------------
(* The files.                                                              *)

LEMMA FilesKept == ASSUME KInv, [Next]_vars PROVE FilesWhole'
  <1> USE DEF KInv
  <1>0. TypeOK /\ OutTypes /\ FilesWhole
    BY Types
  <1>1. Torn \notin Poses
    BY DEF Torn, Poses
  <1>2. CASE UNCHANGED <<call, file, faults>>
    BY <1>0, <1>2 DEF FilesWhole, At, HandOf
  <1>3. CASE \E kind : Fault(kind)
    <2>1. faults' # MaxFaults
      BY <1>0, <1>3 DEF Fault, OutTypes
    <2> QED
      BY <2>1 DEF FilesWhole
  <1>4. ASSUME NEW c \in Callers, UNCHANGED <<file, faults>>, ~At(c, "dump"),
               \A x \in Callers : x # c => call'[x] = call[x]
        PROVE  FilesWhole'
    BY <1>0, <1>4 DEF FilesWhole, At, HandOf
  <1>5. ASSUME NEW c \in Callers, PublishArrives(c) \/ UpdateTf(c) \/ CollectTf(c)
        PROVE  FilesWhole'
    <2>1. UNCHANGED <<file, faults>> /\ ~At(c, "dump")
      BY <1>5 DEF PublishArrives, UpdateTf, CollectTf, At, outVars
    <2>2. \A x \in Callers : x # c => call'[x] = call[x]
      BY <1>0, <1>5 DEF PublishArrives, UpdateTf, CollectTf, Answers, Goes, TypeOK
    <2> QED
      BY <1>4, <2>1, <2>2
  <1>6. ASSUME NEW c \in Callers, SendTransforms(c) PROVE FilesWhole'
    <2>1. CASE UNCHANGED faults
      <3>1. UNCHANGED <<file, faults>> /\ ~At(c, "dump")
        BY <1>6, <2>1 DEF SendTransforms, At
      <3>2. \A x \in Callers : x # c => call'[x] = call[x]
        BY <1>0, <1>6 DEF SendTransforms, Answers, TypeOK
      <3> QED
        BY <1>4, <3>1, <3>2
    <2> QED
      BY <1>3, <1>6, <2>1 DEF SendTransforms
  <1>7. ASSUME NEW c \in Callers, OpenFile(c) PROVE FilesWhole'
    <2>1. CASE marker[HandOf(c)] = "bare"
      <3>1. UNCHANGED <<file, faults>> /\ ~At(c, "dump")
        BY <1>7, <2>1 DEF OpenFile, At
      <3>2. \A x \in Callers : x # c => call'[x] = call[x]
        BY <1>0, <1>7, <2>1 DEF OpenFile, Answers, TypeOK
      <3> QED
        BY <1>4, <3>1, <3>2
    <2>2. CASE marker[HandOf(c)] # "bare"
      <3>1. call' = [call EXCEPT ![c].at = "dump", ![c].to_save = pose[HandOf(c)]]
            /\ file' = [file EXCEPT ![HandOf(c)] = Torn] /\ UNCHANGED faults /\ call[c].at = "save"
        BY <1>7, <2>2 DEF OpenFile, At
      <3>2. call'[c].at = "dump" /\ call'[c].pos = call[c].pos
        BY <1>0, <3>1 DEF TypeOK, Frames
      <3>3. \A x \in Callers : x # c => call'[x] = call[x]
        BY <1>0, <3>1 DEF TypeOK
      <3>4. \A h \in Hands : h # HandOf(c) => file'[h] = file[h]
        BY <1>0, <3>1 DEF OutTypes
      <3>5. ASSUME faults' = MaxFaults, NEW h \in Hands, file'[h] = Torn
            PROVE  \E x \in Callers : At(x, "dump")' /\ HandOf(x)' = h
        <4>1. CASE h = HandOf(c)
          BY <3>2, <4>1 DEF At, HandOf
        <4>2. CASE h # HandOf(c)
          <5>1. PICK x \in Callers : At(x, "dump") /\ HandOf(x) = h
            BY <1>0, <3>1, <3>4, <3>5, <4>2 DEF FilesWhole
          <5>2. x # c
            BY <3>1, <5>1 DEF At
          <5> QED
            BY <3>3, <5>1, <5>2 DEF At, HandOf
        <4> QED
          BY <4>1, <4>2
      <3> QED
        BY <3>5 DEF FilesWhole
    <2> QED
      BY <2>1, <2>2
  <1>8. ASSUME NEW c \in Callers, DumpFile(c) PROVE FilesWhole'
    <2>1. file' = [file EXCEPT ![HandOf(c)] = call[c].to_save] /\ UNCHANGED faults
      BY <1>8 DEF DumpFile
    <2>2. call[c].to_save \in Poses /\ HandOf(c) \in Hands
      BY <1>0, FrameStep DEF TypeOK, Frames
    <2>3. file'[HandOf(c)] # Torn /\ \A h \in Hands : h # HandOf(c) => file'[h] = file[h]
      BY <1>0, <1>1, <2>1, <2>2 DEF OutTypes
    <2>4. \A x \in Callers : x # c => call'[x] = call[x]
      BY <1>0, <1>8 DEF DumpFile, AfterHand, TypeOK
    <2> QED
      BY <1>0, <2>1, <2>3, <2>4 DEF FilesWhole, At, HandOf
  <1>9. CASE \/ Start \/ Accept \/ Return \/ Calibration \/ TfArrives \/ TimePasses \/ Ended
             \/ \E g \in Goals : GoalArrives(g) \/ CancelArrives(g)
    <2>1. UNCHANGED <<call, file, faults>>
      BY <1>9 DEF Start, Accept, Return, Calibration, EraseMarkers, EmptyFingerData, InsertMarkers,
                  Subscribe, LoopCondition, PreemptCheck, Feedback, LastFit, LastCheck,
                  SetSucceeded, ExecOnly, TfArrives, TimePasses, Ended, GoalArrives, CancelArrives,
                  outVars, vars
    <2> QED
      BY <1>2, <2>1
  <1>10. CASE Crash
    BY <1>3, <1>10 DEF Crash
  <1>11. CASE UNCHANGED vars
    BY <1>2, <1>11 DEF vars, outVars
  <1> QED
    BY <1>5, <1>6, <1>7, <1>8, <1>9, <1>10, <1>11 DEF Next, Clients, Publish

----------------------------------------------------------------------------
(* A goal that was cancelled or overtaken while its data was acquired.  It *)
(* has its result already, or the flag is still up when the loop looks at  *)
(* it next, or it is past the last look and on its way out.                *)
NeverSucceeds(g) ==
    /\ status[g] # "succeeded"
    /\ \/ status[g] \in Terminal
       \/ current = g /\ Acquiring /\ preempt_request
       \/ current = g /\ exec = "return"

LEMMA Doomed ==
    ASSUME KInv, NEW g \in Goals, Acquiring, current = g, preempt_request
    PROVE  NeverSucceeds(g)
  BY DEF KInv, GoalInv, NeverSucceeds, Acquiring, BeforeBreak, Live

LEMMA DoomKept ==
    ASSUME KInv, [Next]_vars, NEW g \in Goals, NeverSucceeds(g)
    PROVE  NeverSucceeds(g)'
  <1> USE DEF KInv
  <1>0. TypeOK /\ GoalInv
    OBVIOUS
  <1>1. ServerTypes /\ g # "none"
    BY Types
  <1>2. Acquiring \/ exec = "return" => exec \in Serving
    BY DEF Acquiring, Serving, ExecLabels
  (* Once it has a result it keeps it.                                     *)
  <1>3. ASSUME status'[g] = status[g], status[g] \in Terminal PROVE NeverSucceeds(g)'
    BY <1>3 DEF NeverSucceeds
  <1>4. CASE UNCHANGED <<exec, actionVars>>
    BY <1>4 DEF NeverSucceeds, Acquiring, actionVars
  <1>5. ASSUME NEW x \in Goals, GoalArrives(x) PROVE NeverSucceeds(g)'
    <2>1. status[x] = "unsent" /\ UNCHANGED <<exec, current>> /\ (preempt_request => preempt_request')
      BY <1>5 DEF GoalArrives
    <2>2. status[g] \in Live \cup Terminal
      BY <1>0, <1>2 DEF NeverSucceeds, GoalInv
    <2>3. status'[g] = status[g]
      BY <1>0, <1>5, <2>1, <2>2 DEF GoalArrives, GoalInv, Live, Terminal
    <2> QED
      BY <2>1, <2>3 DEF NeverSucceeds, Acquiring
  <1>6. ASSUME NEW x \in Goals, CancelArrives(x) PROVE NeverSucceeds(g)'
    <2>1. UNCHANGED <<exec, current>> /\ (preempt_request => preempt_request')
      BY <1>6 DEF CancelArrives
    <2>2. status'[g] = status[g] \/ status'[g] \in {"recalling", "preempting"}
      BY <1>1, <1>6 DEF CancelArrives, SetStatus, ServerTypes
    <2>3. status[g] \in Terminal => status'[g] = status[g]
      BY <1>1, <1>6 DEF CancelArrives, SetStatus, ServerTypes, Terminal
    <2> QED
      BY <2>1, <2>2, <2>3 DEF NeverSucceeds, Acquiring
  <1>7. CASE Accept
    <2>1. status[g] \in Terminal /\ next # g /\ next \in Goals
      BY <1>0, <1>1, <1>7 DEF Accept, NeverSucceeds, Acquiring, GoalInv, ServerTypes, Terminal
    <2>2. status'[g] = status[g]
      BY <1>1, <1>7, <2>1 DEF Accept, SetStatus, ServerTypes
    <2> QED
      BY <1>3, <2>1, <2>2
  <1>8. CASE Return
    <2>1. current \in Goals /\ exec = "return" /\ status[current] \in Live \cup Terminal
      BY <1>0, <1>2, <1>8 DEF Return, GoalInv
    <2>2. CASE current = g
      BY <1>1, <1>3, <1>8, <2>1, <2>2
         DEF Return, SetStatus, ServerTypes, NeverSucceeds, Terminal
    <2>3. CASE current # g
      BY <1>1, <1>3, <1>8, <2>1, <2>3
         DEF Return, SetStatus, ServerTypes, NeverSucceeds, Acquiring
    <2> QED
      BY <2>2, <2>3
  <1>9. CASE EraseMarkers \/ PreemptCheck \/ SetSucceeded
    <2>1. /\ current \in Goals /\ status[current] \in Live
          /\ UNCHANGED <<current, preempt_request>>
      BY <1>0, <1>9 DEF EraseMarkers, PreemptCheck, SetSucceeded, ExecGoes, GoalInv, BeforeBreak,
                        Serving, ExecLabels
    <2>2. CASE status[g] \in Terminal
      <3>1. current # g
        BY <2>1, <2>2 DEF Live, Terminal
      <3>2. status'[g] = status[g]
        BY <1>1, <1>9, <2>1, <3>1 DEF EraseMarkers, PreemptCheck, SetSucceeded, SetStatus, ServerTypes
      <3> QED
        BY <1>3, <2>2, <3>2
    <2>3. CASE status[g] \notin Terminal
      <3>1. current = g /\ exec = "preempt" /\ preempt_request
        BY <1>9, <2>3 DEF NeverSucceeds, Acquiring, EraseMarkers, PreemptCheck, SetSucceeded, ExecGoes
      <3>2. status'[g] = "preempted"
        BY <1>1, <1>9, <3>1 DEF EraseMarkers, PreemptCheck, SetSucceeded, SetStatus, ExecGoes,
                                ServerTypes
      <3> QED
        BY <3>2 DEF NeverSucceeds, Terminal
    <2> QED
      BY <2>2, <2>3
  <1>10. CASE \/ EmptyFingerData \/ InsertMarkers \/ Subscribe \/ LoopCondition \/ Feedback
              \/ LastFit \/ LastCheck
    <2>1. UNCHANGED actionVars
      BY <1>10 DEF EmptyFingerData, InsertMarkers, Subscribe, LoopCondition, Feedback, LastFit,
                   LastCheck, ExecOnly
    <2>2. Acquiring /\ preempt_request =>
            exec' \in {"acquire", "preempt", "feedback", "unregister", "check", "return"}
      BY <1>10 DEF EmptyFingerData, InsertMarkers, Subscribe, LoopCondition, Feedback, LastFit,
                   LastCheck, ExecGoes, Acquiring
    <2>3. exec # "return"
      BY <1>10 DEF EmptyFingerData, InsertMarkers, Subscribe, LoopCondition, Feedback, LastFit,
                   LastCheck, ExecGoes
    <2> QED
      BY <2>1, <2>2, <2>3 DEF NeverSucceeds, Acquiring, actionVars
  <1>11. CASE Start
    BY <1>11 DEF Start, NeverSucceeds, Acquiring, actionVars
  <1>12. CASE Crash
    <2>1. status[g] \in Live \cup Terminal
      BY <1>0, <1>2 DEF NeverSucceeds, GoalInv
    <2>2. status'[g] \in Terminal /\ status'[g] # "succeeded"
      BY <1>12, <2>1 DEF Crash, NeverSucceeds, Terminal
    <2> QED
      BY <2>2 DEF NeverSucceeds
  <1>13. CASE TfArrives \/ TimePasses \/ Ended \/ \E c \in Callers : PublishArrives(c) \/ Publish(c)
    <2>1. UNCHANGED <<exec, actionVars>>
      BY <1>13 DEF TfArrives, TimePasses, Ended, PublishArrives, Publish, UpdateTf, CollectTf,
                   OpenFile, DumpFile, SendTransforms, NotExec, vars
    <2> QED
      BY <1>4, <2>1
  <1>14. CASE UNCHANGED vars
    BY <1>4, <1>14 DEF vars
  <1> QED
    BY <1>5, <1>6, <1>7, <1>8, <1>9, <1>10, <1>11, <1>12, <1>13, <1>14
       DEF Next, Clients, Calibration

----------------------------------------------------------------------------
(* What a call publishes.  The poses of a hand come in an order that never *)
(* turns back: those of a goal follow those of the goals before it, and    *)
(* the fit to points follows the one to none.  So a pose that the call has *)
(* taken is the one of the hand still, or is gone for good.                *)

Past(p) == p.of \in Goals => status[p.of] \in Live \cup Terminal

Fits == {"acquire", "preempt", "feedback", "unregister"}

(* The pose p of hand h has been replaced, and what its goal may still fit *)
(* is another one, since it has points by now.                             *)
Gone(p, h) ==
    /\ pose[h] # p /\ Past(p)
    /\ exec \in Serving /\ p.of = current =>
         \/ exec \in {"check", "succeed", "return"}
         \/ exec \in Fits /\ ~p.fitted /\ h \in points

PosesPast ==
    /\ \A h \in Hands : Past(pose[h]) /\ Past(current_knuckle_tf[h]) /\ Past(file[h])
    /\ \A c \in Callers : Past(call[c].to_save)

(* Until its marker is new, no pose anywhere is the running goal's.        *)
Bare == {"start", "erased", "bare"}

Fresh ==
    exec \in Bare =>
        /\ \A h \in Hands : /\ pose[h].of # current /\ file[h].of # current
                            /\ current_knuckle_tf[h].of # current
        /\ \A c \in Callers : call[c].to_save.of # current

Fitting ==
    /\ exec = "reset" => pose[Hand] = [of |-> current, fitted |-> FALSE]
    /\ exec \in Fits => \/ pose[Hand] = [of |-> current, fitted |-> FALSE]
                        \/ pose[Hand] = [of |-> current, fitted |-> TRUE] /\ Hand \in points

(* A call in progress: the transform it took for its side, the one it will *)
(* send, and what it saves.                                                *)
Side(c)  == call[c].side
Taken(c) == current_knuckle_tf[Side(c)]

Agrees(p, c) == p = Taken(c) \/ Gone(Taken(c), Side(c))

InProgress == {"collect", "save", "dump", "send"}

TakesOf(c) ==
    \A i \in 1..call[c].pos :
        HandOrder[i] = Side(c) /\ (i < call[c].pos \/ ~At(c, "collect")) =>
            call[c].transforms[Side(c)] = Taken(c)

Dumping(c) == At(c, "dump") /\ HandOf(c) = Side(c)

SavesOf(c) ==
    /\ Dumping(c) => Agrees(call[c].to_save, c)
    /\ \A i \in 1..call[c].pos :
         HandOrder[i] = Side(c) /\ (i < call[c].pos \/ At(c, "send")) /\ ~Dumping(c) =>
             Agrees(file[Side(c)], c)

OneCall(c) ==
    /\ ~Up => At(c, "idle")
    /\ call[c].at \in {"idle", "update"} => call[c].pos = 1
    /\ At(c, "send") => call[c].pos = Len(HandOrder)
    /\ call[c].at \in InProgress =>
         Side(c) \in Hands /\ Agrees(pose[Side(c)], c) /\ TakesOf(c) /\ SavesOf(c)

PubInv == PosesPast /\ Fresh /\ Fitting /\ \A c \in Callers : OneCall(c)

SingleCaller == \A c, d \in Callers : c = d

LEMMA StartedPub == Init => PubInv
  <1> SUFFICES ASSUME Init PROVE PubInv
    OBVIOUS
  <1>1. PosesPast
    BY DEF Init, PosesPast, Past, Default, NoTf, NoCall
  <1>2. Fresh /\ Fitting
    BY DEF Init, Fresh, Fitting, Bare, Fits
  <1>3. ASSUME NEW c \in Callers PROVE OneCall(c)
    BY DEF Init, OneCall, NoCall, At, InProgress
  <1> QED
    BY <1>1, <1>2, <1>3 DEF PubInv

(* A goal that was accepted or ended stays so.                             *)
LEMMA PastKept ==
    ASSUME KInv, [Next]_vars
    PROVE  /\ \A g \in Goals : status[g] \in Live \cup Terminal => status'[g] \in Live \cup Terminal
           /\ \A p : Past(p) => Past(p)'
  <1> USE DEF KInv
  <1>0. TypeOK /\ GoalInv /\ ServerTypes
    BY Types
  <1>1. ASSUME NEW g \in Goals, status[g] \in Live \cup Terminal
        PROVE  status'[g] \in Live \cup Terminal
    <2>1. ASSUME NEW x \in Goals, GoalArrives(x) PROVE status'[g] \in Live \cup Terminal
      BY <1>0, <1>1, <2>1 DEF GoalArrives, ServerTypes, Live, Terminal
    <2>2. ASSUME NEW x \in Goals, CancelArrives(x) PROVE status'[g] \in Live \cup Terminal
      BY <1>0, <1>1, <2>2 DEF CancelArrives, SetStatus, ServerTypes, Live, Terminal
    <2>3. CASE Accept \/ Return \/ EraseMarkers \/ PreemptCheck \/ SetSucceeded
      BY <1>0, <1>1, <2>3 DEF Accept, Return, EraseMarkers, PreemptCheck, SetSucceeded, SetStatus,
                              ServerTypes, Live, Terminal
    <2>4. CASE Crash
      BY <1>0, <1>1, <2>4 DEF Crash, Terminal
    <2>5. CASE UNCHANGED status
      BY <1>1, <2>5
    <2>6. CASE \/ Start \/ EmptyFingerData \/ InsertMarkers \/ Subscribe \/ LoopCondition
               \/ Feedback \/ LastFit \/ LastCheck \/ TfArrives \/ TimePasses \/ Ended
               \/ UNCHANGED vars
      BY <2>5, <2>6 DEF Start, EmptyFingerData, InsertMarkers, Subscribe, LoopCondition, Feedback,
                        LastFit, LastCheck, ExecOnly, TfArrives, TimePasses, Ended, vars, actionVars
    <2>7. ASSUME NEW c \in Callers, PublishArrives(c) \/ Publish(c)
          PROVE  status'[g] \in Live \cup Terminal
      BY <2>5, <2>7 DEF PublishArrives, Publish, UpdateTf, CollectTf, OpenFile, DumpFile,
                        SendTransforms, NotExec, actionVars
    <2> QED
      BY <2>1, <2>2, <2>3, <2>4, <2>6, <2>7 DEF Next, Clients, Calibration
  <1>2. ASSUME NEW p, Past(p) PROVE Past(p)'
    BY <1>1, <1>2 DEF Past
  <1> QED
    BY <1>1, <1>2

(* What a step of a call saves next.                                       *)
LEMMA SavedPoses ==
    ASSUME KInv, NEW c \in Callers, PublishArrives(c) \/ Publish(c), NEW x \in Callers
    PROVE  call'[x].to_save \in {call[x].to_save, NoCall.to_save, pose[HandOf(c)]}
  <1>1. call \in [Callers -> Frames] /\ call[c] \in Frames
    BY DEF KInv, TypeOK
  <1>2. CASE PublishArrives(c)
    <2>1. PICK d \in Sides : call' = [call EXCEPT ![c].at = "update", ![c].side = d]
      BY <1>2 DEF PublishArrives
    <2>2. CASE x = c
      BY <1>1, <2>1, <2>2 DEF Frames
    <2>3. CASE x # c
      BY <1>1, <2>1, <2>3
    <2> QED
      BY <2>2, <2>3
  <1>6. CASE UpdateTf(c) \/ SendTransforms(c)
    <2>1. CASE call' = [call EXCEPT ![c].at = "collect"]
      BY <1>1, <2>1 DEF Frames
    <2>2. CASE call' = [call EXCEPT ![c] = NoCall]
      BY <1>1, <2>2
    <2> QED
      BY <1>6, <2>1, <2>2 DEF UpdateTf, SendTransforms, Answers, Goes
  <1>3. CASE CollectTf(c)
    BY <1>1, <1>3 DEF CollectTf, Answers, Frames
  <1>4. CASE OpenFile(c)
    <2>1. CASE call' = [call EXCEPT ![c].at = "dump", ![c].to_save = pose[HandOf(c)]]
      BY <1>1, <2>1 DEF Frames
    <2>2. CASE call' = [call EXCEPT ![c] = NoCall]
      BY <1>1, <2>2 DEF Frames
    <2> QED
      BY <1>4, <2>1, <2>2 DEF OpenFile, Answers
  <1>5. CASE DumpFile(c)
    BY <1>1, <1>5 DEF DumpFile, AfterHand, Frames
  <1> QED
    BY <1>2, <1>3, <1>4, <1>5, <1>6 DEF Publish

LEMMA PosesKept ==
    ASSUME KInv, PosesPast, [Next]_vars PROVE PosesPast'
  <1> USE DEF KInv
  <1>0. TypeOK /\ ServerTypes /\ HandTypes /\ OutTypes /\ call \in [Callers -> Frames]
    BY Types
  <1>1. \A p : Past(p) => Past(p)'
    BY PastKept
  <1>2. Past(Default)' /\ Past(NoTf)' /\ Past(Torn)' /\ Past(NoCall.to_save)'
    BY DEF Past, Default, NoTf, Torn, NoCall
  <1>3. CASE UNCHANGED <<pose, current_knuckle_tf, file, call>>
    BY <1>1, <1>3 DEF PosesPast, Past
  <1>4. CASE Start
    <2>1. UNCHANGED <<file, call>>
      BY <1>4 DEF Start
    <2>2. \/ UNCHANGED <<pose, current_knuckle_tf>>
          \/ pose' = file /\ current_knuckle_tf' = file
      BY <1>4 DEF Start
    <2> QED
      BY <1>1, <2>1, <2>2 DEF PosesPast, Past
  <1>5. CASE Crash
    BY <1>1, <1>2, <1>5 DEF Crash, PosesPast, Past
  <1>6. CASE InsertMarkers \/ Feedback \/ LastFit
    <2>1. current \in Goals /\ status[current] \in Live \cup Terminal /\ Hand \in Hands
      BY <1>6 DEF InsertMarkers, Feedback, LastFit, ExecGoes, GoalInv, Serving, ExecLabels
    <2>2. UNCHANGED <<current_knuckle_tf, file, call>>
      BY <1>6 DEF InsertMarkers, Feedback, LastFit, outVars
    <2>3. \A h \in Hands : pose'[h] = pose[h] \/ pose'[h].of = current
      BY <1>0, <1>6, <2>1 DEF InsertMarkers, Feedback, LastFit, FitSphere, HandTypes
    <2>4. status'[current] \in Live \cup Terminal
      BY <2>1, PastKept
    <2>5. \A h \in Hands : Past(pose[h])'
      BY <1>1, <2>3, <2>4 DEF PosesPast, Past
    <2> QED
      BY <1>1, <2>2, <2>5 DEF PosesPast, Past
  <1>7. ASSUME NEW c \in Callers, PublishArrives(c) \/ Publish(c) PROVE PosesPast'
    <2>0. UNCHANGED pose /\ \A h \in Hands : Past(pose[h])'
      BY <1>1, <1>7 DEF PublishArrives, Publish, UpdateTf, CollectTf, OpenFile, DumpFile,
                        SendTransforms, NotExec, handVars, PosesPast, Past
    <2>1. \A h \in Hands : current_knuckle_tf'[h] \in {current_knuckle_tf[h], pose[h]}
      BY <1>0, <1>7 DEF PublishArrives, Publish, UpdateTf, CollectTf, OpenFile, DumpFile,
                        SendTransforms, outVars, OutTypes
    <2>2. HandOf(c) \in Hands
      BY FrameStep
    <2>3. \A h \in Hands : file'[h] \in {file[h], Torn, call[c].to_save}
      BY <1>0, <1>7, <2>2 DEF PublishArrives, Publish, UpdateTf, CollectTf, OpenFile, DumpFile,
                        SendTransforms, outVars, OutTypes
    <2>4. \A x \in Callers : call'[x].to_save \in {call[x].to_save, NoCall.to_save, pose[HandOf(c)]}
      BY <1>7, SavedPoses
    <2>5. \A h \in Hands : Past(current_knuckle_tf[h])'
      BY <1>1, <2>1 DEF PosesPast, Past
    <2>6. \A h \in Hands : Past(file[h])'
      BY <1>1, <1>2, <2>3 DEF PosesPast, Past
    <2>7. \A x \in Callers : Past(call[x].to_save)'
      BY <1>1, <1>2, <2>2, <2>4 DEF PosesPast, Past
    <2> QED
      BY <2>0, <2>5, <2>6, <2>7 DEF PosesPast
  <1>8. CASE \/ Accept \/ Return \/ EraseMarkers \/ EmptyFingerData \/ Subscribe \/ LoopCondition
             \/ PreemptCheck \/ LastCheck \/ SetSucceeded \/ TfArrives \/ TimePasses \/ Ended
             \/ (\E g \in Goals : GoalArrives(g) \/ CancelArrives(g)) \/ UNCHANGED vars
    BY <1>3, <1>8 DEF Accept, Return, EraseMarkers, EmptyFingerData, Subscribe, LoopCondition,
                      PreemptCheck, LastCheck, SetSucceeded, TfArrives, TimePasses, Ended, ExecOnly,
                      GoalArrives, CancelArrives, vars, outVars, handVars
  <1> QED
    BY <1>4, <1>5, <1>6, <1>7, <1>8 DEF Next, Clients, Calibration

LEMMA FreshKept ==
    ASSUME KInv, PosesPast, Fresh, [Next]_vars PROVE Fresh'
  <1> USE DEF KInv
  <1>0. TypeOK /\ ServerTypes /\ HandTypes /\ OutTypes /\ call \in [Callers -> Frames]
    BY Types
  <1>1. CASE UNCHANGED <<exec, current, pose, file, current_knuckle_tf, call>>
    BY <1>1 DEF Fresh
  <1>2. CASE exec' \notin Bare
    BY <1>2 DEF Fresh
  (* The goal that is accepted was waiting: no pose is of it.              *)
  <1>3. CASE Accept
    <2>1. /\ next \in Goals /\ status[next] \notin Live \cup Terminal /\ current' = next
          /\ UNCHANGED <<pose, file, current_knuckle_tf, call>>
      BY <1>0, <1>3 DEF Accept, GoalInv, ServerTypes, handVars, outVars, Live, Terminal
    <2> QED
      BY <2>1 DEF Fresh, PosesPast, Past
  <1>4. CASE EraseMarkers \/ EmptyFingerData
    <2>1. /\ exec \in Bare
          /\ UNCHANGED <<current, pose, file, current_knuckle_tf, call>>
      BY <1>4 DEF EraseMarkers, EmptyFingerData, ExecGoes, Bare, outVars, actionVars
    <2> QED
      BY <2>1 DEF Fresh
  <1>5. ASSUME NEW c \in Callers, PublishArrives(c) \/ Publish(c), exec \in Bare PROVE Fresh'
    <2>0. current \in Goals /\ current \notin {"none", "default", "torn"}
      BY <1>5 DEF GoalInv, Bare, Serving, ExecLabels
    <2>1. UNCHANGED <<exec, current, pose>>
      BY <1>5 DEF PublishArrives, Publish, UpdateTf, CollectTf, OpenFile, DumpFile,
                  SendTransforms, NotExec, handVars, actionVars
    <2>2. HandOf(c) \in Hands
      BY FrameStep
    <2>3. /\ \A h \in Hands : current_knuckle_tf'[h] \in {current_knuckle_tf[h], pose[h]}
          /\ \A h \in Hands : file'[h] \in {file[h], Torn, call[c].to_save}
      BY <1>0, <1>5, <2>2 DEF PublishArrives, Publish, UpdateTf, CollectTf, OpenFile, DumpFile,
                        SendTransforms, outVars, OutTypes
    <2>4. \A x \in Callers : call'[x].to_save \in {call[x].to_save, NoCall.to_save, pose[HandOf(c)]}
      BY <1>5, SavedPoses
    <2>5. Torn.of # current /\ NoCall.to_save.of # current
      BY <2>0 DEF Torn, NoCall, Default
    <2> QED
      BY <1>5, <2>1, <2>2, <2>3, <2>4, <2>5 DEF Fresh
  <1>6. CASE \/ Return \/ InsertMarkers \/ Subscribe \/ LoopCondition \/ PreemptCheck \/ Feedback
             \/ LastFit \/ LastCheck \/ SetSucceeded \/ Start \/ Crash
    BY <1>2, <1>6 DEF Return, InsertMarkers, Subscribe, LoopCondition, PreemptCheck, Feedback,
             LastFit, LastCheck, SetSucceeded, Start, Crash, ExecGoes, Bare
  <1>7. CASE \/ TfArrives \/ TimePasses \/ Ended \/ UNCHANGED vars
             \/ \E g \in Goals : GoalArrives(g) \/ CancelArrives(g)
    BY <1>1, <1>7 DEF TfArrives, TimePasses, Ended, GoalArrives, CancelArrives, vars, outVars,
                      handVars, actionVars
  <1>8. ASSUME NEW c \in Callers, PublishArrives(c) \/ Publish(c), exec \notin Bare PROVE Fresh'
    BY <1>2, <1>8 DEF PublishArrives, Publish, UpdateTf, CollectTf, OpenFile, DumpFile,
                  SendTransforms, NotExec
  <1> QED
    BY <1>3, <1>4, <1>5, <1>6, <1>7, <1>8 DEF Next, Clients, Calibration

LEMMA FittingKept ==
    ASSUME KInv, Fitting, [Next]_vars PROVE Fitting'
  <1> USE DEF KInv
  <1>0. TypeOK /\ ServerTypes /\ HandTypes
    BY Types
  <1>1. exec \in Fits \cup {"reset", "bare"} => /\ exec \in Serving \ {"start", "return"}
                                              /\ current \in Goals /\ Hand \in Hands
    BY DEF GoalInv, Fits, Serving, ExecLabels
  <1>2. CASE exec' \notin Fits \cup {"reset"}
    BY <1>2 DEF Fitting
  <1>3. ASSUME UNCHANGED <<exec, current, pose>>, points \subseteq points',
               exec \in Fits \cup {"reset"} => Hand' = Hand
        PROVE  Fitting'
    BY <1>3 DEF Fitting
  <1>4. CASE InsertMarkers
    <2>1. exec = "bare" /\ exec' = "reset" /\ UNCHANGED <<current, hand_side>>
          /\ pose' = [pose EXCEPT ![Hand] = [of |-> current, fitted |-> FALSE]]
      BY <1>4 DEF InsertMarkers, ExecGoes, actionVars
    <2>2. Hand' = Hand /\ pose'[Hand] = [of |-> current, fitted |-> FALSE]
      BY <1>0, <1>1, <2>1 DEF Hand, HandTypes
    <2> QED
      BY <2>1, <2>2 DEF Fitting, Fits
  <1>5. CASE Subscribe
    <2>1. exec = "reset" /\ exec' = "acquire" /\ UNCHANGED <<current, pose>> /\ Hand' = Hand
      BY <1>5 DEF Subscribe, ExecGoes, actionVars, Hand
    <2> QED
      BY <2>1 DEF Fitting, Fits
  <1>6. CASE LoopCondition \/ PreemptCheck
    <2>1. /\ exec \in Fits /\ exec' # "reset"
          /\ UNCHANGED <<current, pose, points>> /\ Hand' = Hand
      BY <1>6 DEF LoopCondition, PreemptCheck, ExecOnly, actionVars, handVars, Hand, Fits
    <2> QED
      BY <2>1 DEF Fitting, Fits
  <1>7. CASE Feedback
    <2>1. exec = "feedback" /\ exec' = "acquire" /\ UNCHANGED <<current, points>> /\ Hand' = Hand
      BY <1>7 DEF Feedback, ExecGoes, actionVars, Hand
    <2>2. pose' = pose \/ pose'[Hand] = [of |-> current, fitted |-> Hand \in points]
      BY <1>0, <1>1, <1>7, <2>1 DEF Feedback, FitSphere, HandTypes, Fits
    <2>3. pose' = pose \/ pose'[Hand] = [of |-> current, fitted |-> FALSE]
          \/ (pose'[Hand] = [of |-> current, fitted |-> TRUE] /\ Hand \in points)
      <3>1. (Hand \in points) = TRUE \/ (Hand \in points) = FALSE
        OBVIOUS
      <3> QED
        BY <2>2, <3>1, Zenon
    <2> QED
      BY <2>1, <2>3 DEF Fitting, Fits
  <1>8. ASSUME NEW g \in Goals, GoalArrives(g) PROVE Fitting'
    <2>1. UNCHANGED <<exec, current, pose, points>> /\ status[g] = "unsent"
      BY <1>8 DEF GoalArrives, handVars
    <2>2. exec \in Fits \cup {"reset"} => current # g
      BY <1>1, <2>1 DEF GoalInv, Live, Terminal
    <2>3. exec \in Fits \cup {"reset"} => hand_side'[current] = hand_side[current]
      BY <1>0, <1>1, <1>8, <2>2 DEF GoalArrives, ServerTypes
    <2> QED
      BY <1>3, <2>1, <2>3 DEF Hand
  <1>9. CASE TfArrives
    BY <1>3, <1>9 DEF TfArrives, actionVars, Hand
  <1>10. CASE \/ TimePasses \/ Ended \/ (\E g \in Goals : CancelArrives(g))
              \/ (\E c \in Callers : PublishArrives(c) \/ Publish(c)) \/ UNCHANGED vars
    <2>1. UNCHANGED <<exec, current, hand_side, pose, points>>
      BY <1>10 DEF TimePasses, Ended, CancelArrives, PublishArrives, Publish, UpdateTf, CollectTf,
                   OpenFile, DumpFile, SendTransforms, NotExec, vars, handVars, actionVars
    <2> QED
      BY <1>3, <2>1 DEF Hand
  <1>11. CASE \/ Start \/ Crash \/ Accept \/ Return \/ EraseMarkers \/ EmptyFingerData \/ LastFit
              \/ LastCheck \/ SetSucceeded
    BY <1>2, <1>11 DEF Start, Crash, Accept, Return, EraseMarkers, EmptyFingerData, LastFit,
                       LastCheck, SetSucceeded, ExecGoes, Fits
  <1> QED
    BY <1>4, <1>5, <1>6, <1>7, <1>8, <1>9, <1>10, <1>11 DEF Next, Clients, Calibration

(* While the node is up a pose that is gone stays gone, and one that is    *)
(* replaced is gone.                                                       *)
LEMMA PosesMoveOn ==
    ASSUME KInv, Fitting, [Next]_vars, exec # "down", exec' # "down",
           NEW h \in Hands, NEW p, Past(p), exec \in Bare => p.of # current
    PROVE  /\ Gone(p, h) => Gone(p, h)'
           /\ pose[h] = p => pose'[h] = p \/ Gone(p, h)'
  <1> USE DEF KInv
  <1>0. TypeOK /\ ServerTypes /\ HandTypes
    BY Types
  <1>1. Past(p)'
    BY PastKept
  <1>2. exec \in Fits \cup {"reset", "bare"} => /\ exec \in Serving \ {"start", "return"}
                                              /\ current \in Goals /\ Hand \in Hands
    BY DEF GoalInv, Fits, Serving, ExecLabels
  <1>3. ASSUME UNCHANGED <<exec, current, pose>>, points \subseteq points'
        PROVE  /\ Gone(p, h) => Gone(p, h)'
               /\ pose[h] = p => pose'[h] = p \/ Gone(p, h)'
    BY <1>1, <1>3 DEF Gone
  (* The execute thread goes on to where the running goal fits no more ... *)
  <1>4. ASSUME UNCHANGED pose,
               \/ exec' \notin Serving
               \/ exec' \in {"check", "succeed", "return"}
               \/ p.of # current'
        PROVE  /\ Gone(p, h) => Gone(p, h)'
               /\ pose[h] = p => pose'[h] = p \/ Gone(p, h)'
    BY <1>1, <1>4 DEF Gone
  (* ... or where it still does.                                           *)
  <1>5. ASSUME UNCHANGED <<current, pose, points>>, exec \in Fits, exec' \in Fits
        PROVE  /\ Gone(p, h) => Gone(p, h)'
               /\ pose[h] = p => pose'[h] = p \/ Gone(p, h)'
    BY <1>1, <1>2, <1>5 DEF Gone, Fits
  <1>6. CASE Accept
    <2>1. next \in Goals /\ status[next] \notin Live \cup Terminal /\ current' = next
          /\ UNCHANGED pose
      BY <1>0, <1>6 DEF Accept, GoalInv, ServerTypes, handVars, Live, Terminal
    <2> QED
      BY <1>4, <2>1 DEF Past
  <1>7. CASE Return \/ LastCheck \/ SetSucceeded
    BY <1>4, <1>7 DEF Return, LastCheck, SetSucceeded, ExecGoes, ExecOnly, Serving, handVars
  <1>8. CASE EraseMarkers \/ EmptyFingerData
    BY <1>4, <1>8 DEF EraseMarkers, EmptyFingerData, ExecGoes, Bare, actionVars
  <1>9. CASE InsertMarkers
    <2>1. p.of # current /\ UNCHANGED current /\ exec' = "reset"
          /\ pose' = [pose EXCEPT ![Hand] = [of |-> current, fitted |-> FALSE]]
      BY <1>9 DEF InsertMarkers, ExecGoes, Bare, actionVars
    <2>2. pose'[h] = pose[h] \/ pose'[h].of = current
      BY <1>0, <2>1 DEF HandTypes
    <2> QED
      BY <1>1, <2>1, <2>2 DEF Gone
  <1>10. CASE Subscribe
    <2>1. exec = "reset" /\ UNCHANGED <<current, pose>> /\ exec' = "acquire"
      BY <1>10 DEF Subscribe, ExecGoes, actionVars
    <2>2. Gone(p, h) => p.of # current
      BY <1>2, <2>1 DEF Gone, Fits
    <2> QED
      BY <1>1, <2>1, <2>2 DEF Gone
  <1>11. CASE LoopCondition \/ PreemptCheck
    BY <1>5, <1>11 DEF LoopCondition, PreemptCheck, ExecOnly, Fits, handVars, actionVars
  <1>12. CASE Feedback \/ LastFit
    <2>1. exec \in Fits /\ exec' \in {"acquire", "check"} /\ UNCHANGED <<current, points>>
      BY <1>12 DEF Feedback, LastFit, ExecGoes, Fits, actionVars
    <2>2. pose' = pose \/ pose' = [pose EXCEPT ![Hand] = [of |-> current, fitted |-> Hand \in points]]
      BY <1>12 DEF Feedback, LastFit, FitSphere
    <2>3. CASE pose' = pose
      BY <1>4, <1>5, <2>1, <2>3 DEF Fits
    <2>4. CASE /\ h # Hand
               /\ pose' = [pose EXCEPT ![Hand] = [of |-> current, fitted |-> Hand \in points]]
      <3>1. pose'[h] = pose[h]
        BY <1>0, <2>4 DEF HandTypes
      <3> QED
        BY <1>1, <1>2, <2>1, <3>1 DEF Gone, Fits
    <2>5. CASE /\ h = Hand
               /\ pose' = [pose EXCEPT ![Hand] = [of |-> current, fitted |-> Hand \in points]]
      <3>1. pose'[h] = [of |-> current, fitted |-> h \in points]
        BY <1>0, <2>5 DEF HandTypes
      <3>2. pose'[h].of = current /\ pose'[h].fitted = (h \in points)
        BY <3>1
      <3>3. Gone(p, h) => Gone(p, h)'
        BY <1>1, <1>2, <2>1, <3>2 DEF Gone, Fits
      <3>4. ASSUME pose[h] = p PROVE pose'[h] = p \/ Gone(p, h)'
        <4>1. CASE p = [of |-> current, fitted |-> TRUE] /\ h \in points
          BY <3>1, <4>1
        <4>2. CASE p = [of |-> current, fitted |-> FALSE] /\ h \notin points
          <5>1. (h \in points) = FALSE
            BY <4>2
          <5> QED
            BY <3>1, <4>2, <5>1, Zenon
        <4>3. CASE p = [of |-> current, fitted |-> FALSE] /\ h \in points
          <5>1. p.of = current /\ p.fitted = FALSE
            BY <4>3
          <5>2. pose'[h] # p
            BY <3>2, <4>3, <5>1
          <5> QED
            BY <1>1, <2>1, <4>3, <5>1, <5>2 DEF Gone, Fits
        <4> QED
          BY <2>1, <2>5, <3>4, <4>1, <4>2, <4>3 DEF Fitting
      <3> QED
        BY <3>3, <3>4
    <2> QED
      BY <2>2, <2>3, <2>4, <2>5
  <1>13. CASE \/ TfArrives \/ TimePasses \/ Ended \/ UNCHANGED vars
              \/ (\E g \in Goals : GoalArrives(g) \/ CancelArrives(g))
              \/ \E c \in Callers : PublishArrives(c) \/ Publish(c)
    <2>1. UNCHANGED <<exec, current, pose>> /\ points \subseteq points'
      BY <1>13 DEF TfArrives, TimePasses, Ended, GoalArrives, CancelArrives, PublishArrives, Publish,
                   UpdateTf, CollectTf, OpenFile, DumpFile, SendTransforms, NotExec, vars, handVars,
                   actionVars
    <2> QED
      BY <1>3, <2>1
  <1>14. ~Start /\ ~Crash
    BY DEF Start, Crash
  <1> QED
    BY <1>6, <1>7, <1>8, <1>9, <1>10, <1>11, <1>12, <1>13, <1>14 DEF Next, Clients, Calibration

LEMMA OnlyStartDies ==
    ASSUME [Next]_vars, exec' = "dead", exec # "down" PROVE exec = "dead"
  BY DEF Next, Start, Accept, Return, Calibration, EraseMarkers, EmptyFingerData, InsertMarkers,
         Subscribe, LoopCondition, PreemptCheck, Feedback, LastFit, LastCheck, SetSucceeded,
         ExecGoes, TfArrives, TimePasses, Ended, Crash, Clients, GoalArrives, CancelArrives,
         PublishArrives, Publish, UpdateTf, CollectTf, OpenFile, DumpFile, SendTransforms,
         NotExec, vars

LEMMA CallKept ==
    ASSUME KInv, PubInv, SingleCaller, [Next]_vars, NEW c \in Callers
    PROVE  OneCall(c)'
  <1> USE DEF KInv
  <1>0. /\ TypeOK /\ HandTypes /\ OutTypes /\ call \in [Callers -> Frames] /\ call[c] \in Frames
        /\ OneCall(c)
    BY Types DEF PubInv
  <1>a. call[c].pos \in 1..Len(HandOrder) /\ Len(HandOrder) \in Nat /\ HandOf(c) \in Hands
    BY <1>0, HandsNumbered, FrameStep DEF Frames
  <1>1. ASSUME call'[c].at = "idle", call'[c].pos = 1 PROVE OneCall(c)'
    BY <1>1 DEF OneCall, At, InProgress
  <1>2. Answers(c) => OneCall(c)'
    BY <1>0, <1>1 DEF Answers, NoCall
  (* What the execute thread and the clients do meanwhile.                 *)
  <1>3. ASSUME UNCHANGED <<call, current_knuckle_tf, file>>, exec # "down", exec' # "down"
        PROVE  OneCall(c)'
    <2>1. ~Up' => ~Up
      <3>1. exec' = "dead" => exec = "dead"
        BY <1>3, OnlyStartDies
      <3> QED
        BY <1>3, <3>1 DEF Up
    <2>2. CASE call[c].at \in InProgress
      <3>1. Side(c) \in Hands /\ Past(Taken(c)) /\ (exec \in Bare => Taken(c).of # current)
        BY <1>0, <2>2 DEF OneCall, PubInv, PosesPast, Fresh, Taken
      <3>2. Taken(c)' = Taken(c) /\ Side(c)' = Side(c)
        BY <1>3 DEF Taken, Side
      <3>3. /\ Gone(Taken(c), Side(c)) => Gone(Taken(c), Side(c))'
            /\ pose[Side(c)] = Taken(c) => pose'[Side(c)] = Taken(c) \/ Gone(Taken(c), Side(c))'
        <4>1. PICK p : p = Taken(c)
          OBVIOUS
        <4>2. PICK h \in Hands : h = Side(c)
          BY <3>1
        <4>3. /\ Gone(p, h) => Gone(p, h)'
              /\ pose[h] = p => pose'[h] = p \/ Gone(p, h)'
          BY <1>3, <3>1, <4>1, PosesMoveOn DEF PubInv
        <4>4. Gone(p, h)' = Gone(Taken(c), Side(c))'
          BY <3>2, <4>1, <4>2 DEF Gone, Past
        <4> QED
          BY <4>1, <4>2, <4>3, <4>4
      <3>4. \A q : Agrees(q, c) => Agrees(q, c)'
        BY <3>2, <3>3 DEF Agrees
      <3>5. Agrees(pose[Side(c)], c)'
        BY <1>0, <2>2, <3>2, <3>3 DEF OneCall, Agrees
      <3>6. TakesOf(c)' /\ SavesOf(c)'
        BY <1>0, <1>3, <2>2, <3>2, <3>4 DEF OneCall, TakesOf, SavesOf, Dumping, At, HandOf
      <3> QED
        BY <1>0, <1>3, <2>1, <3>1, <3>2, <3>5, <3>6 DEF OneCall, At
    <2>3. CASE call[c].at \notin InProgress
      BY <1>0, <1>3, <2>1, <2>3 DEF OneCall, At, InProgress
    <2> QED
      BY <2>2, <2>3
  (* The steps of the call itself.                                         *)
  <1>4. ASSUME NotExec PROVE /\ \A p, h : Gone(p, h) => Gone(p, h)'
                             /\ Up' = Up
    BY <1>4 DEF NotExec, Gone, Past, Up, handVars, actionVars
  <1>5. CASE PublishArrives(c)
    <2>1. PICK d \in Sides : call' = [call EXCEPT ![c].at = "update", ![c].side = d]
      BY <1>5 DEF PublishArrives
    <2>2. call'[c].at = "update" /\ call'[c].pos = call[c].pos /\ call[c].at = "idle"
      BY <1>0, <1>5, <2>1 DEF PublishArrives, At, Frames
    <2>3. Up /\ Up' = Up
      BY <1>4, <1>5 DEF PublishArrives
    <2> QED
      BY <1>0, <2>2, <2>3 DEF OneCall, At, InProgress
  <1>6. CASE UpdateTf(c)
    <2>1. CASE Answers(c)
      BY <1>2, <2>1
    <2>2. CASE ~Answers(c)
      <3>1. /\ Side(c) \in Hands /\ call[c].at = "update" /\ NotExec
            /\ current_knuckle_tf' = [current_knuckle_tf EXCEPT ![Side(c)] = pose[Side(c)]]
            /\ call' = [call EXCEPT ![c].at = "collect"]
        BY <1>6, <2>2 DEF UpdateTf, At, Goes, Side
      <3>2. /\ call'[c].at = "collect" /\ call'[c].pos = 1 /\ call'[c].side = call[c].side
        BY <1>0, <3>1 DEF OneCall, Frames
      <3>3. Up /\ Up' = Up
        BY <1>0, <1>4, <3>1 DEF OneCall, At
      <3>4. Taken(c)' = pose'[Side(c)'] /\ Side(c)' = Side(c)
        BY <1>0, <3>1, <3>2 DEF Taken, Side, NotExec, handVars, OutTypes
      <3>5. TakesOf(c)' /\ SavesOf(c)'
        BY <3>2 DEF TakesOf, SavesOf, Dumping, At
      <3> QED
        BY <3>1, <3>2, <3>3, <3>4, <3>5 DEF OneCall, Agrees, At
    <2> QED
      BY <2>1, <2>2
  (* Past the update the transform and the pose stay while the call steps. *)
  <1>7. ASSUME NotExec, UNCHANGED current_knuckle_tf, call'[c].side = call[c].side,
               call[c].at \in InProgress, call'[c].at \in InProgress,
               At(c, "send")' => call'[c].pos = Len(HandOrder),
               TakesOf(c)', SavesOf(c)'
        PROVE  OneCall(c)'
    <2>1. Up /\ Up' = Up
      BY <1>0, <1>4, <1>7 DEF OneCall, At, InProgress
    <2>2. Taken(c)' = Taken(c) /\ Side(c)' = Side(c)
      BY <1>7 DEF Taken, Side
    <2>3. Agrees(pose[Side(c)], c)'
      BY <1>0, <1>4, <1>7, <2>2 DEF OneCall, Agrees, NotExec, handVars
    <2> QED
      BY <1>0, <1>7, <2>1, <2>2, <2>3 DEF OneCall, InProgress
  <1>8. ASSUME NotExec, UNCHANGED current_knuckle_tf, call'[c].side = call[c].side
        PROVE  /\ Taken(c)' = Taken(c) /\ Side(c)' = Side(c)
               /\ \A q : Agrees(q, c) => Agrees(q, c)'
    BY <1>4, <1>8 DEF Taken, Side, Agrees
  <1>9. CASE CollectTf(c)
    <2>1. CASE Answers(c)
      BY <1>2, <2>1
    <2>2. CASE ~Answers(c)
      <3>1. /\ call[c].at = "collect" /\ NotExec /\ UNCHANGED <<current_knuckle_tf, file>>
            /\ call' = [call EXCEPT ![c].at = "save",
                          ![c].transforms[HandOf(c)] = current_knuckle_tf[HandOf(c)]]
        BY <1>9, <2>2 DEF CollectTf, At, outVars
      <3>2. /\ call'[c].at = "save" /\ call'[c].pos = call[c].pos /\ call'[c].side = call[c].side
            /\ call'[c].transforms = [call[c].transforms EXCEPT ![HandOf(c)] = current_knuckle_tf[HandOf(c)]]
        BY <1>0, <3>1 DEF Frames
      <3>3. /\ Side(c) \in Hands /\ TakesOf(c) /\ SavesOf(c)
        BY <1>0, <3>1 DEF OneCall, InProgress
      <3>4. TakesOf(c)'
        <4>1. call[c].transforms \in [Hands -> Poses \cup {NoTf}]
          BY <1>0 DEF Frames
        <4>2. ASSUME NEW i \in 1..call[c].pos, HandOrder[i] = Side(c)
              PROVE  call'[c].transforms[Side(c)] = Taken(c)
          <5>1. CASE HandOf(c) = Side(c)
            BY <3>2, <3>3, <4>1, <5>1 DEF Taken
          <5>2. CASE HandOf(c) # Side(c)
            <6>1. i < call[c].pos
              BY <1>a, <4>2, <5>2 DEF HandOf
            <6> QED
              BY <3>2, <3>3, <4>1, <4>2, <5>2, <6>1 DEF TakesOf
          <5> QED
            BY <5>1, <5>2
        <4> QED
          BY <1>8, <3>1, <3>2, <4>2 DEF TakesOf
      <3>5. SavesOf(c)'
        BY <1>8, <3>1, <3>2, <3>3 DEF SavesOf, Dumping, At
      <3> QED
        BY <1>7, <3>1, <3>2, <3>4, <3>5 DEF InProgress, At
    <2> QED
      BY <2>1, <2>2
  <1>10. CASE OpenFile(c)
    <2>1. CASE Answers(c)
      BY <1>2, <2>1
    <2>2. CASE ~Answers(c)
      <3>1. /\ call[c].at = "save" /\ NotExec /\ UNCHANGED current_knuckle_tf
            /\ call' = [call EXCEPT ![c].at = "dump", ![c].to_save = pose[HandOf(c)]]
            /\ file' = [file EXCEPT ![HandOf(c)] = Torn]
        BY <1>10, <2>2 DEF OpenFile, At
      <3>2. /\ call'[c].at = "dump" /\ call'[c].pos = call[c].pos /\ call'[c].side = call[c].side
            /\ call'[c].transforms = call[c].transforms /\ call'[c].to_save = pose[HandOf(c)]
        BY <1>0, <3>1 DEF Frames
      <3>3. /\ Side(c) \in Hands /\ TakesOf(c) /\ SavesOf(c) /\ Agrees(pose[Side(c)], c)
        BY <1>0, <3>1 DEF OneCall, InProgress
      <3>4. HandOf(c)' = HandOf(c)
        BY <3>2 DEF HandOf
      <3>5. TakesOf(c)'
        BY <1>8, <3>1, <3>2, <3>3 DEF TakesOf, At
      <3>6. SavesOf(c)'
        <4>1. CASE HandOf(c) = Side(c)
          BY <1>8, <3>1, <3>2, <3>3, <3>4, <4>1 DEF SavesOf, Dumping, At
        <4>2. CASE HandOf(c) # Side(c)
          <5>1. file'[Side(c)] = file[Side(c)]
            BY <1>0, <3>1, <3>3, <4>2 DEF OutTypes
          <5> QED
            BY <1>8, <3>1, <3>2, <3>3, <3>4, <4>2, <5>1 DEF SavesOf, Dumping, At
        <4> QED
          BY <4>1, <4>2
      <3> QED
        BY <1>7, <3>1, <3>2, <3>5, <3>6 DEF InProgress, At
    <2> QED
      BY <2>1, <2>2
  <1>11. CASE DumpFile(c)
    <2>1. /\ call[c].at = "dump" /\ NotExec /\ UNCHANGED current_knuckle_tf
          /\ file' = [file EXCEPT ![HandOf(c)] = call[c].to_save]
      BY <1>11 DEF DumpFile, At
    <2>2. /\ call'[c].side = call[c].side /\ call'[c].transforms = call[c].transforms
          /\ \/ call'[c].at = "collect" /\ call'[c].pos = call[c].pos + 1
             \/ call'[c].at = "send" /\ call'[c].pos = call[c].pos /\ call[c].pos = Len(HandOrder)
      BY <1>0, <1>a, <1>11 DEF DumpFile, AfterHand, Frames
    <2>3. /\ Side(c) \in Hands /\ TakesOf(c) /\ SavesOf(c)
      BY <1>0, <2>1 DEF OneCall, InProgress
    <2>4. TakesOf(c)'
      <3>1. \A i \in 1..call[c].pos : HandOrder[i] = Side(c) =>
               call[c].transforms[Side(c)] = Taken(c)
        BY <2>1, <2>3 DEF TakesOf, At
      <3>2. \A i \in 1..call'[c].pos :
              i < call'[c].pos \/ call'[c].at # "collect" => i \in 1..call[c].pos
        BY <1>a, <2>2
      <3> QED
        BY <1>8, <2>1, <2>2, <3>1, <3>2 DEF TakesOf, At
    <2>5. SavesOf(c)'
      <3>1. ASSUME NEW i \in 1..call[c].pos, HandOrder[i] = Side(c)
            PROVE  Agrees(file'[Side(c)], c)
        <4>1. CASE HandOf(c) = Side(c)
          <5>1. file'[Side(c)] = call[c].to_save
            BY <1>0, <2>1, <2>3, <4>1 DEF OutTypes
          <5> QED
            BY <2>1, <2>3, <4>1, <5>1 DEF SavesOf, Dumping, At
        <4>2. CASE HandOf(c) # Side(c)
          <5>1. file'[Side(c)] = file[Side(c)]
            BY <1>0, <2>1, <2>3, <4>2 DEF OutTypes
          <5>2. i < call[c].pos
            BY <1>a, <3>1, <4>2 DEF HandOf
          <5> QED
            BY <2>3, <3>1, <4>2, <5>1, <5>2 DEF SavesOf, Dumping
        <4> QED
          BY <4>1, <4>2
      <3>2. \A i \in 1..call'[c].pos :
              i < call'[c].pos \/ call'[c].at = "send" => i \in 1..call[c].pos
        BY <1>a, <2>2
      <3>3. \A i \in 1..call'[c].pos :
              HandOrder[i] = Side(c)' /\ (i < call'[c].pos \/ call'[c].at = "send") =>
                Agrees(file[Side(c)], c)'
        BY <1>8, <2>1, <2>2, <3>1, <3>2
      <3> QED
        BY <2>2, <3>3 DEF SavesOf, Dumping, At
    <2> QED
      BY <1>7, <2>1, <2>2, <2>4, <2>5 DEF InProgress, At
  <1>12. CASE SendTransforms(c)
    BY <1>2, <1>12 DEF SendTransforms
  <1>13. CASE \E d \in Callers : PublishArrives(d) \/ Publish(d)
    BY <1>5, <1>6, <1>9, <1>10, <1>11, <1>12, <1>13 DEF Publish, SingleCaller
  <1>14. CASE Start \/ Crash
    <2>1. call'[c].at = "idle" /\ call'[c].pos = 1
      BY <1>0, <1>14 DEF Start, Crash, OneCall, At, Up, NoCall
    <2> QED
      BY <1>1, <2>1
  <1>15. CASE \/ Accept \/ Return \/ Calibration \/ TfArrives \/ TimePasses
              \/ \E g \in Goals : GoalArrives(g) \/ CancelArrives(g)
    <2>1. UNCHANGED <<call, current_knuckle_tf, file>>
      BY <1>15 DEF Accept, Return, Calibration, EraseMarkers, EmptyFingerData, InsertMarkers,
                  Subscribe, LoopCondition, PreemptCheck, Feedback, LastFit, LastCheck,
                  SetSucceeded, ExecOnly, TfArrives, TimePasses, GoalArrives, CancelArrives, outVars
    <2>2. exec # "down" /\ exec' # "down"
      BY <1>15 DEF Accept, Return, Calibration, EraseMarkers, EmptyFingerData, InsertMarkers,
                  Subscribe, LoopCondition, PreemptCheck, Feedback, LastFit, LastCheck,
                  SetSucceeded, ExecGoes, ExecOnly, TfArrives, TimePasses, GoalArrives,
                  CancelArrives, Up, TfInv
    <2> QED
      BY <1>3, <2>1, <2>2
  <1>16. CASE Ended \/ UNCHANGED vars
    <2>1. UNCHANGED vars
      BY <1>16 DEF Ended
    <2>2. UNCHANGED <<exec, status, current, pose, points, call, current_knuckle_tf, file>>
      BY <2>1 DEF vars, actionVars, handVars, outVars
    <2> QED
      BY <1>0, <2>2 DEF OneCall, At, Up, InProgress, Side, Agrees, Gone, Past, Taken, TakesOf,
                        SavesOf, Dumping, HandOf
  <1> QED
    BY <1>13, <1>14, <1>15, <1>16 DEF Next, Clients

LEMMA SendStep ==
    ASSUME KInv, PubInv, SingleCaller, [Next]_vars, NEW c \in Callers,
           At(c, "send"), exec' # "down", call[c].at # call'[c].at,
           current_knuckle_tf[call[c].side] = pose[call[c].side]
    PROVE  /\ file'[call[c].side] = pose[call[c].side]
           /\ faults' = faults => broadcast'[call[c].side] = pose[call[c].side]
  <1> USE DEF KInv
  <1>1. /\ TypeOK /\ OutTypes /\ call \in [Callers -> Frames] /\ call[c] \in Frames
        /\ OneCall(c)
    BY Types DEF PubInv
  <1>2. SendTransforms(c)
    <2>1. CASE \E d \in Callers : PublishArrives(d) \/ Publish(d)
      BY <2>1 DEF SingleCaller, Publish, PublishArrives, UpdateTf, CollectTf, OpenFile, DumpFile, At
    <2>2. ~(\E d \in Callers : PublishArrives(d) \/ Publish(d)) => UNCHANGED call
      BY DEF Next, Start, Accept, Return, Calibration, EraseMarkers, EmptyFingerData, InsertMarkers,
             Subscribe, LoopCondition, PreemptCheck, Feedback, LastFit, LastCheck, SetSucceeded,
             ExecOnly, TfArrives, TimePasses, Ended, Crash, Clients, GoalArrives, CancelArrives, vars
    <2> QED
      BY <2>1, <2>2
  <1>3. /\ Side(c) \in Hands /\ TakesOf(c) /\ SavesOf(c) /\ call[c].pos = Len(HandOrder)
        /\ ~Dumping(c)
    BY <1>1 DEF OneCall, InProgress, At, Dumping
  <1>4. PICK i \in 1..Len(HandOrder) : HandOrder[i] = Side(c)
    BY <1>3 DEF Hands
  <1>5. call[c].transforms[Side(c)] = Taken(c) /\ Agrees(file[Side(c)], c)
    BY <1>3, <1>4 DEF TakesOf, SavesOf, At
  <1>6. Taken(c) = pose[Side(c)]
    BY DEF Taken, Side
  <1>7. file[Side(c)] = pose[Side(c)]
    BY <1>5, <1>6 DEF Agrees, Gone
  <1>8. UNCHANGED file /\ (broadcast' = call[c].transforms \/ faults' = faults - 1)
    BY <1>2 DEF SendTransforms, Fault
  <1>9. faults \in Nat
    BY <1>1 DEF OutTypes
  <1> QED
    BY <1>5, <1>6, <1>7, <1>8, <1>9 DEF Side

----------------------------------------------------------------------------
(* KInv is an invariant: types, the goal, the subscription and the files   *)
(* are kept by every step.                                                 *)
THEOREM NodeInvariant == Spec => []KInv
  <1>1. KInv /\ [Next]_vars => KInv'
    BY TypesKept, GoalKept, TfKept, FilesKept DEF KInv
  <1> QED
    BY Started, <1>1, PTL DEF Spec

(* The node's state keeps its types, through crashes and exceptions.       *)
THEOREM TypeCorrect == Spec => []TypeOK
  <1>1. KInv => TypeOK
    BY DEF KInv
  <1> QED
    BY NodeInvariant, <1>1, PTL

(* set_succeeded is only called for a goal without a result, however       *)
(* cancel requests and new goals interleave with the loop and the last     *)
(* look at the flag.                                                       *)
THEOREM SuccessIsForLiveGoal == Spec => []SucceedsLiveGoal
  <1>1. KInv => SucceedsLiveGoal
    BY DEF KInv, GoalInv, SucceedsLiveGoal, BeforeBreak
  <1> QED
    BY NodeInvariant, <1>1, PTL

(* A goal that is cancelled or overtaken before the last look at the flag  *)
(* never ends in success: only the acceptance of the next goal lowers the  *)
(* flag, and by then this one has a result.                                *)
THEOREM PreemptIsHonoured == Spec => PreemptHonoured
  <1> DEFINE Trigger(g) == Acquiring /\ current = g /\ preempt_request
  <1>1. SUFFICES ASSUME NEW g \in Goals
                 PROVE  Spec => [](Trigger(g) => [](status[g] # "succeeded"))
    BY DEF PreemptHonoured
  <1>2. KInv /\ Trigger(g) => NeverSucceeds(g)
    BY Doomed
  <1>3. KInv /\ NeverSucceeds(g) /\ [Next]_vars => NeverSucceeds(g)'
    BY DoomKept
  <1>4. NeverSucceeds(g) => status[g] # "succeeded"
    BY DEF NeverSucceeds
  <1> HIDE DEF Trigger
  <1> QED
    BY NodeInvariant, <1>2, <1>3, <1>4, PTL DEF Spec

(* No way out of _calibration leaves the node subscribed to /tf.           *)
THEOREM NeverStraySubscription == Spec => []NoStraySubscription
  <1>1. KInv => NoStraySubscription
    BY DEF KInv, TfInv, NoStraySubscription
  <1> QED
    BY NodeInvariant, <1>1, PTL

(* With one client at a time, a call that is answered with success has     *)
(* saved what it published, whatever calibration runs beside it.           *)
THEOREM PublishedIsSaved ==
    ASSUME SingleCaller
    PROVE  Spec => SavesWhatItPublishes
  <1>1. KInv /\ PubInv /\ [Next]_vars => PubInv'
    BY PosesKept, FreshKept, FittingKept, CallKept DEF PubInv
  <1>2. KInv /\ PubInv /\ [Next]_vars =>
          \A c \in Callers :
            LET side == call[c].side
            IN  /\ At(c, "send") /\ exec' # "down"
                /\ call[c].at # call'[c].at
                /\ current_knuckle_tf[side] = pose[side]
                => /\ file'[side] = pose[side]
                   /\ faults' = faults => broadcast'[side] = pose[side]
    BY SendStep
  <1> QED
    BY NodeInvariant, StartedPub, <1>1, <1>2, PTL DEF Spec, SavesWhatItPublishes

(* Without a fault a calibration file is empty only between the open and   *)
(* the dump of a call, for any number of concurrent calls.                 *)
THEOREM FilesStayWhole == Spec => []FilesWhole
  <1>1. KInv => FilesWhole
    BY DEF KInv
  <1> QED
    BY NodeInvariant, <1>1, PTL
=============================================================================

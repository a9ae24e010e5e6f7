------------------------ MODULE KnuckleCalibration ------------------------
(***************************************************************************)
(* The knuckle calibration node (knuckle_position_calibration_action_      *)
(* server.py): the execute thread of its action server, the threads of its *)
(* Publish service, the /tf callback, and the calibration file of each     *)
(* hand.  actionlib, rospy, the marker server and the sphere fit are not   *)
(* in the repository, or beyond TLC, and are modelled as the node uses     *)
(* them.  One finger stands for the four.                                  *)
(***************************************************************************)
EXTENDS Integers, Sequences

CONSTANTS HandOrder,    \* the prefixes of the hands served, in order
          Sides,        \* what clients ask for
          Goals,        \* the calibration goals that may be sent
          Callers,      \* the threads of the Publish service
          Faults,       \* subset of {"crash", "send"}
          MaxFaults

Hands == {HandOrder[i] : i \in DOMAIN HandOrder}

ASSUME KnuckleAssumption ==
    /\ HandOrder \in Seq(Hands) /\ HandOrder # <<>>
    /\ {"none", "default", "torn"} \cap Goals = {}
    /\ Faults \subseteq {"crash", "send"}
    /\ MaxFaults \in Nat

VARIABLES
    exec,              \* where the execute thread is
    status,            \* goal status, as actionlib keeps it
    hand_side,         \* goal.hand_side
    current, next,     \* SimpleActionServer's current_goal and next_goal
    preempt_request, next_preempt,
    expired,           \* goal.time has passed
    marker,            \* per hand: its interactive marker and finger_data
    pose,              \* per hand: finger_data["mf"]["center"].pose
    points,            \* the hands with points in finger_data[...]["data"]
    subscribed,        \* whether the node is subscribed to /tf
    current_knuckle_tf,
    call,              \* per caller: the frame of _publish_calibration_cb
    broadcast,         \* the static transform last sent, per hand
    file,              \* default_calibration_*.yaml, per hand
    faults

actionVars  == <<status, hand_side, current, next, preempt_request, next_preempt>>
handVars    == <<marker, pose, points, subscribed>>
outVars     == <<current_knuckle_tf, broadcast, file>>
vars == <<exec, actionVars, expired, handVars, call, outVars, faults>>

ExecLabels == {"down", "dead", "idle", "start", "erased", "bare", "reset",
               "acquire", "preempt", "feedback", "unregister", "check", "succeed",
               "return"}
CallLabels == {"idle", "update", "collect", "save", "dump", "send"}

Live     == {"active", "preempting"}
Terminal == {"recalled", "preempted", "aborted", "succeeded", "lost"}
Statuses == {"unsent", "pending", "recalling"} \cup Live \cup Terminal

(* A knuckle position: where it is from, and whether it was fitted to      *)
(* points or is the origin, at which a new marker is and a fit to no       *)
(* points starts.                                                          *)
Poses   == [of : Goals \cup {"default"}, fitted : BOOLEAN]
Default == [of |-> "default", fitted |-> TRUE]
Torn    == [of |-> "torn", fitted |-> FALSE]       \* an empty file
NoTf    == [of |-> "none", fitted |-> FALSE]

(* at: the next step; pos: the hand in turn, transforms: transform_list,   *)
(* both of _publish_calibration; to_save: of _save_calibration.            *)
Frames == [at : CallLabels, side : Sides \cup Hands, pos : 1..Len(HandOrder),
           transforms : [Hands -> Poses \cup {NoTf}], to_save : Poses]
NoCall == [at |-> "idle", side |-> HandOrder[1], pos |-> 1,
           transforms |-> [h \in Hands |-> NoTf], to_save |-> Default]

TypeOK ==
    /\ exec \in ExecLabels
    /\ status \in [Goals -> Statuses]
    /\ hand_side \in [Goals -> Sides \cup Hands]
    /\ current \in Goals \cup {"none"} /\ next \in Goals \cup {"none"}
    /\ preempt_request \in BOOLEAN /\ next_preempt \in BOOLEAN
    /\ expired \in BOOLEAN
    /\ marker \in [Hands -> {"shown", "erased", "bare"}]
    /\ pose \in [Hands -> Poses]
    /\ points \in SUBSET Hands
    /\ subscribed \in BOOLEAN
    /\ current_knuckle_tf \in [Hands -> Poses \cup {NoTf}]
    /\ call \in [Callers -> Frames]
    /\ broadcast \in [Hands -> Poses \cup {NoTf}]
    /\ file \in [Hands -> Poses \cup {Torn}]
    /\ faults \in 0..MaxFaults

Init ==
    /\ exec = "down"
    /\ status = [g \in Goals |-> "unsent"]
    /\ hand_side = [g \in Goals |-> HandOrder[1]]
    /\ current = "none" /\ next = "none"
    /\ preempt_request = FALSE /\ next_preempt = FALSE /\ expired = FALSE
    /\ marker = [h \in Hands |-> "shown"]
    /\ pose = [h \in Hands |-> Default]
    /\ points = {} /\ subscribed = FALSE
    /\ current_knuckle_tf = [h \in Hands |-> NoTf]
    /\ call = [c \in Callers |-> NoCall]
    /\ broadcast = [h \in Hands |-> NoTf]
    /\ file = [h \in Hands |-> Default]
    /\ faults = MaxFaults

Fault(kind) == kind \in Faults /\ faults > 0 /\ faults' = faults - 1

Up == exec \notin {"down", "dead"}

StartLenient ==                \* mutant: an empty file passes for a calibration
    /\ exec = "down" /\ exec' = "idle"
    /\ marker' = [h \in Hands |-> "shown"]
    /\ pose' = file /\ points' = {}
    /\ current_knuckle_tf' = pose' /\ broadcast' = current_knuckle_tf'
    /\ UNCHANGED <<actionVars, expired, subscribed, call, file, faults>>

(* SrGloveCalibration.__init__: the files are loaded, the transforms set   *)
(* and published; the service and the action server exist only after that. *)
(* An empty file is no dictionary, and looking for a key in it raises.     *)
Start ==
    /\ exec = "down"
    /\ IF \E h \in Hands : file[h] = Torn
       THEN exec' = "dead" /\ UNCHANGED <<marker, pose, points, current_knuckle_tf, broadcast>>
       ELSE /\ exec' = "idle"
            /\ marker' = [h \in Hands |-> "shown"]
            /\ pose' = file /\ points' = {}
            /\ current_knuckle_tf' = pose' /\ broadcast' = current_knuckle_tf'
    /\ UNCHANGED <<actionVars, expired, subscribed, call, file, faults>>

----------------------------------------------------------------------------
(* The action server: goals and cancel requests arrive in its own thread.  *)

SetStatus(g, s) == status' = [status EXCEPT ![g] = s]

(* A new goal preempts the one that runs and recalls the one that waits.   *)
GoalArrives(g) ==
    /\ Up /\ status[g] = "unsent"
    /\ status' = [x \in Goals |-> IF x = g THEN "pending"
                                  ELSE IF x = next THEN "recalled" ELSE status[x]]
    /\ \E s \in Sides : hand_side' = [hand_side EXCEPT ![g] = s]
    /\ next' = g /\ next_preempt' = FALSE
    /\ preempt_request' = (preempt_request \/ (current # "none" /\ status[current] \in Live))
    /\ UNCHANGED <<exec, current, expired, handVars, call, outVars, faults>>

CancelArrives(g) ==
    /\ Up
    /\ \/ /\ status[g] = "pending" /\ SetStatus(g, "recalling")
          /\ next_preempt' = TRUE /\ UNCHANGED preempt_request
       \/ /\ status[g] = "active" /\ SetStatus(g, "preempting")
          /\ preempt_request' = TRUE /\ UNCHANGED next_preempt
    /\ UNCHANGED <<exec, hand_side, current, next, expired, handVars, call, outVars, faults>>

(* executeLoop takes the goal that waits ...                               *)
Accept ==
    /\ exec = "idle" /\ next # "none"
    /\ exec' = "start"
    /\ current' = next /\ next' = "none"
    /\ SetStatus(next, IF status[next] = "pending" THEN "active" ELSE "preempting")
    /\ preempt_request' = next_preempt /\ next_preempt' = FALSE
    /\ UNCHANGED <<hand_side, expired, handVars, call, outVars, faults>>

(* ... and aborts it if _calibration returns without a result.             *)
Return ==
    /\ exec = "return" /\ exec' = "idle" /\ expired' = FALSE
    /\ IF status[current] \in Live THEN SetStatus(current, "aborted") ELSE UNCHANGED status
    /\ UNCHANGED <<hand_side, current, next, preempt_request, next_preempt, handVars, call,
                   outVars, faults>>

----------------------------------------------------------------------------
(* _calibration, in the execute thread.                                    *)

Hand == hand_side[current]

ExecGoes(from, to) == exec = from /\ exec' = to

ExecOnly == UNCHANGED <<actionVars, expired, handVars, call, outVars, faults>>

EraseMarkers ==
    /\ exec = "start"
    /\ IF Hand \notin Hands
       THEN exec' = "return" /\ SetStatus(current, "aborted") /\ UNCHANGED marker
       ELSE exec' = "erased" /\ marker' = [marker EXCEPT ![Hand] = "erased"] /\ UNCHANGED status
    /\ UNCHANGED <<hand_side, current, next, preempt_request, next_preempt, expired, pose, points,
                   subscribed, call, outVars, faults>>

(* _initialize_finger_data: the dictionary is emptied first, the marker    *)
(* comes last.                                                             *)
EmptyFingerData ==
    /\ ExecGoes("erased", "bare")
    /\ marker' = [marker EXCEPT ![Hand] = "bare"]
    /\ UNCHANGED <<actionVars, expired, pose, points, subscribed, call, outVars, faults>>

InsertMarkers ==
    /\ ExecGoes("bare", "reset")
    /\ marker' = [marker EXCEPT ![Hand] = "shown"]
    /\ pose' = [pose EXCEPT ![Hand] = [of |-> current, fitted |-> FALSE]]
    /\ UNCHANGED <<actionVars, expired, points, subscribed, call, outVars, faults>>

(* _reset_data, the clock and the subscription.                            *)
Subscribe ==
    /\ ExecGoes("reset", "acquire")
    /\ points' = points \ {Hand}
    /\ subscribed' = TRUE /\ expired' = FALSE
    /\ UNCHANGED <<actionVars, marker, pose, call, outVars, faults>>

LoopConditionForever == ExecGoes("acquire", "preempt") /\ ExecOnly  \* mutant: no clock

LoopCondition ==
    /\ exec = "acquire" /\ exec' = IF expired THEN "unregister" ELSE "preempt"
    /\ ExecOnly

PreemptCheckReturns ==         \* mutant: "return" instead of "break"
    /\ exec = "preempt"
    /\ IF preempt_request THEN exec' = "return" /\ SetStatus(current, "preempted")
                          ELSE exec' = "feedback" /\ UNCHANGED status
    /\ UNCHANGED <<hand_side, current, next, preempt_request, next_preempt, expired, handVars,
                   call, outVars, faults>>

PreemptCheck ==
    /\ exec = "preempt"
    /\ IF preempt_request THEN exec' = "unregister" /\ SetStatus(current, "preempted")
                          ELSE exec' = "feedback" /\ UNCHANGED status
    /\ UNCHANGED <<hand_side, current, next, preempt_request, next_preempt, expired, handVars,
                   call, outVars, faults>>

(* _get_knuckle_positions.                                                 *)
FitSphere == pose' = [pose EXCEPT ![Hand] = [of |-> current, fitted |-> Hand \in points]]

(* The fit is tried at every quarter of the time.                          *)
Feedback ==
    /\ ExecGoes("feedback", "acquire")
    /\ FitSphere \/ UNCHANGED pose
    /\ UNCHANGED <<actionVars, expired, marker, points, subscribed, call, outVars, faults>>

(* sub.unregister() and the last fit.                                      *)
LastFit ==
    /\ ExecGoes("unregister", "check")
    /\ subscribed' = FALSE /\ FitSphere
    /\ UNCHANGED <<actionVars, expired, marker, points, call, outVars, faults>>

LastCheckSkipped == ExecGoes("check", "succeed") /\ ExecOnly    \* mutant: not looked at again

LastCheck ==
    /\ exec = "check" /\ exec' = IF preempt_request THEN "return" ELSE "succeed"
    /\ ExecOnly

(* set_succeeded; actionlib refuses it for a goal that is not live.        *)
SetSucceeded ==
    /\ ExecGoes("succeed", "return")
    /\ IF status[current] \in Live THEN SetStatus(current, "succeeded") ELSE UNCHANGED status
    /\ UNCHANGED <<hand_side, current, next, preempt_request, next_preempt, expired, handVars,
                   call, outVars, faults>>

Calibration == \/ EraseMarkers \/ EmptyFingerData \/ InsertMarkers \/ Subscribe
               \/ LoopCondition \/ PreemptCheck \/ Feedback \/ LastFit \/ LastCheck
               \/ SetSucceeded

(* _load_tf_callback.  The data of the other hands is emptied before their *)
(* next fit.                                                               *)
TfArrives ==
    /\ subscribed
    /\ points' = points \cup {Hand}
    /\ UNCHANGED <<exec, actionVars, expired, marker, pose, subscribed, call, outVars, faults>>

----------------------------------------------------------------------------
(* _publish_calibration_cb, in a thread of the service.                    *)

At(c, label) == call[c].at = label

Goes(c, label) == call' = [call EXCEPT ![c].at = label]

Answers(c) == call' = [call EXCEPT ![c] = NoCall]

NotExec == UNCHANGED <<exec, actionVars, expired, handVars>>

PublishArrives(c) ==
    /\ Up /\ At(c, "idle")
    /\ \E s \in Sides : call' = [call EXCEPT ![c].at = "update", ![c].side = s]
    /\ NotExec /\ UNCHANGED <<outVars, faults>>

(* _update_current_knuckle_tf; an erased marker is None and raises.        *)
UpdateTf(c) ==
    /\ At(c, "update")
    /\ LET side == call[c].side
       IN  \/ /\ side \notin Hands                                \* False
              /\ Answers(c) /\ UNCHANGED current_knuckle_tf
           \/ /\ side \in Hands /\ marker[side] # "shown"          \* an exception
              /\ Answers(c) /\ UNCHANGED current_knuckle_tf
           \/ /\ side \in Hands /\ marker[side] = "shown"
              /\ current_knuckle_tf' = [current_knuckle_tf EXCEPT ![side] = pose[side]]
              /\ Goes(c, "collect")
    /\ NotExec /\ UNCHANGED <<broadcast, file, faults>>

(* _publish_calibration, for every hand in turn: its transform is taken    *)
(* and its scaling sent; finger data without its keys raises.              *)
HandOf(c) == HandOrder[call[c].pos]

CollectTf(c) ==
    /\ At(c, "collect")
    /\ IF marker[HandOf(c)] = "bare" THEN Answers(c)
       ELSE call' = [call EXCEPT ![c].at = "save",
                                 ![c].transforms[HandOf(c)] = current_knuckle_tf[HandOf(c)]]
    /\ NotExec /\ UNCHANGED <<outVars, faults>>

AfterHand(c) ==
    call' = IF call[c].pos < Len(HandOrder)
            THEN [call EXCEPT ![c].at = "collect", ![c].pos = @ + 1]
            ELSE [call EXCEPT ![c].at = "send"]

SaveNothing(c) ==              \* mutant: _publish_calibration(save=False)
    /\ At(c, "save") /\ AfterHand(c)
    /\ NotExec /\ UNCHANGED <<outVars, faults>>

OpenFileFirst(c) ==            \* mutant: the pose is looked up with the file open
    /\ At(c, "save")
    /\ LET h == HandOf(c)
       IN  /\ IF marker[h] = "bare" THEN Answers(c)
              ELSE call' = [call EXCEPT ![c].at = "dump", ![c].to_save = pose[h]]
           /\ file' = [file EXCEPT ![h] = Torn]
    /\ NotExec /\ UNCHANGED <<current_knuckle_tf, broadcast, faults>>

(* _save_calibration: opening the file empties it.                         *)
OpenFile(c) ==
    /\ At(c, "save")
    /\ LET h == HandOf(c)
       IN  IF marker[h] = "bare" THEN Answers(c) /\ UNCHANGED file
           ELSE /\ call' = [call EXCEPT ![c].at = "dump", ![c].to_save = pose[h]]
                /\ file' = [file EXCEPT ![h] = Torn]
    /\ NotExec /\ UNCHANGED <<current_knuckle_tf, broadcast, faults>>

DumpFile(c) ==
    /\ At(c, "dump") /\ AfterHand(c)
    /\ file' = [file EXCEPT ![HandOf(c)] = call[c].to_save]
    /\ NotExec /\ UNCHANGED <<current_knuckle_tf, broadcast, faults>>

(* sendTransform; what it raises is caught and logged.  True either way.   *)
SendTransforms(c) ==
    /\ At(c, "send") /\ Answers(c)
    /\ \/ broadcast' = call[c].transforms /\ UNCHANGED faults
       \/ Fault("send") /\ UNCHANGED broadcast
    /\ NotExec /\ UNCHANGED <<current_knuckle_tf, file>>

Publish(c) == UpdateTf(c) \/ CollectTf(c) \/ OpenFile(c) \/ DumpFile(c) \/ SendTransforms(c)

----------------------------------------------------------------------------
TimePasses ==
    /\ exec \notin {"down", "dead", "idle"} /\ ~expired /\ expired' = TRUE
    /\ UNCHANGED <<exec, actionVars, handVars, call, outVars, faults>>

(* The node dies and is launched again: its clients see their goals lost   *)
(* and their calls fail, the files stay as they are.                       *)
Crash ==
    /\ Up /\ Fault("crash")
    /\ exec' = "down"
    /\ status' = [g \in Goals |-> IF status[g] \in {"pending", "recalling"} \cup Live
                                  THEN "lost" ELSE status[g]]
    /\ current' = "none" /\ next' = "none"
    /\ preempt_request' = FALSE /\ next_preempt' = FALSE
    /\ subscribed' = FALSE /\ expired' = FALSE
    /\ call' = [c \in Callers |-> NoCall]
    /\ marker' = [h \in Hands |-> "shown"] /\ pose' = [h \in Hands |-> Default] /\ points' = {}
    /\ current_knuckle_tf' = [h \in Hands |-> NoTf] /\ broadcast' = [h \in Hands |-> NoTf]
    /\ UNCHANGED <<hand_side, file>>

(* A node that could not start stays so.                                   *)
Ended == exec = "dead" /\ UNCHANGED vars

Clients == \/ \E g \in Goals : GoalArrives(g) \/ CancelArrives(g)
           \/ \E c \in Callers : PublishArrives(c)

Next == \/ Start \/ Accept \/ Return \/ Calibration \/ TfArrives \/ Clients
        \/ \E c \in Callers : Publish(c)
        \/ TimePasses \/ Crash \/ Ended

(* The execute thread is scheduled and time passes; clients, messages and  *)
(* crashes may stay away.                                                  *)
Fairness == /\ WF_vars(Start)
            /\ WF_vars(Accept \/ Return \/ Calibration)
            /\ WF_vars(TimePasses)

Spec     == Init /\ [][Next]_vars
FairSpec == Spec /\ Fairness
=============================================================================

------------------------- MODULE KnuckleProperties -------------------------
(***************************************************************************)
(* What the calibration node promises to the clients of its action and of  *)
(* its service.                                                            *)
(***************************************************************************)
EXTENDS KnuckleCalibration

(* _calibration reports success only for a goal that has no result yet: a  *)
(* goal that was set preempted in the loop is not reported again, whatever *)
(* cancel requests and new goals arrive between the two looks at the flag. *)
SucceedsLiveGoal == exec = "succeed" => status[current] \in Live

(* A goal that is cancelled, or overtaken by a new one, before the last    *)
(* look at the flag never ends in success.                                 *)
Acquiring == exec \in {"acquire", "preempt", "feedback", "unregister", "check"}

PreemptHonoured ==
    \A g \in Goals : [](Acquiring /\ current = g /\ preempt_request => [](status[g] # "succeeded"))

(* The node listens to /tf only for the goal it runs: no way out of the    *)
(* loop leaves a subscription that feeds the next goal's data.             *)
NoStraySubscription == exec \in {"idle", "start", "return"} => ~subscribed

(* With one client at a time, a call that is answered with success has     *)
(* saved the pose of its side, and broadcast it unless sending it raised:  *)
(* a restart brings back the pose that was published.  A calibration of    *)
(* that side may have moved it meanwhile.                                  *)
SavesWhatItPublishes ==
    [][\A c \in Callers :
          LET side == call[c].side
          IN  /\ At(c, "send") /\ exec' # "down"
              /\ call[c].at # call'[c].at
              /\ current_knuckle_tf[side] = pose[side]
              => /\ file'[side] = pose[side]
                 /\ faults' = faults => broadcast'[side] = pose[side]]_vars

(* The files are whole whenever no call is in progress and no crash has    *)
(* interrupted one, so the node starts again from them.                    *)
FilesWhole ==
    faults = MaxFaults =>
        \A h \in Hands : file[h] = Torn =>
            \E c \in Callers : At(c, "dump") /\ HandOf(c) = h

(* Every goal that is sent ends, cancelled or overtaken at any time,       *)
(* whether or not any /tf message arrives.                                 *)
GoalsEnd == \A g \in Goals : (status[g] # "unsent") ~> (status[g] \in Terminal)
=============================================================================

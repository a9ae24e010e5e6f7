--------------------------- MODULE TrackerService ---------------------------
(***************************************************************************)
(* What the driver promises to whoever uses a Viper through it, without    *)
(* packets, acknowledgements and procedures: what it says of itself and of *)
(* a request is true of the tracker, and it changes the tracker's set-up   *)
(* only before it is ready and on behalf of the request it serves.         *)
(* ViperDriver implements it if the device refuses nothing.                *)
(***************************************************************************)
EXTENDS ViperProtocol

VARIABLES phase,       \* "starting", "ready" or "stopped"
          request,     \* the last request and what it was answered
          units,       \* the tracker: orientation units,
          streaming,   \* continuous mode,
          zero,        \* every station boresighted at zero, no correction,
          srcmap       \* and the source of each station

tracker == <<units, streaming, zero, srcmap>>
vars    == <<phase, request, tracker>>

NoRequest == [kind |-> "none", source |-> 1, station |-> AllStations, reply |-> "none"]

Init ==
    /\ phase = "starting"
    /\ request = NoRequest
    /\ units \in OriUnits /\ streaming \in BOOLEAN /\ zero \in BOOLEAN
    /\ srcmap = [s \in Stations |-> SourceMap(1)]

Pending(kind) == request.kind = kind /\ request.reply = "none"

Named == {s \in Stations : request.station \in {AllStations, s}}

----------------------------------------------------------------------------
(* The phases: nothing is said to be ready that is not.                    *)

SetUp ==
    /\ phase = "starting"
    /\ units' \in OriUnits /\ streaming' \in BOOLEAN /\ zero' \in BOOLEAN
    /\ UNCHANGED <<phase, request, srcmap>>

BecomeReady ==
    /\ phase = "starting" /\ phase' = "ready"
    /\ units = "quat" /\ streaming
    /\ UNCHANGED <<request, tracker>>

Stop ==
    /\ phase \in {"starting", "ready"} /\ phase' = "stopped"
    /\ UNCHANGED <<request, tracker>>

Restart ==
    /\ phase' = "starting" /\ request' = NoRequest
    /\ UNCHANGED tracker

(* The stream alone may stop and start at any time.                        *)
Stream ==
    /\ streaming' \in BOOLEAN
    /\ UNCHANGED <<phase, request, units, zero, srcmap>>

----------------------------------------------------------------------------
(* The requests.                                                           *)

Call ==
    /\ phase # "stopped"
    /\ ~(request.kind # "none" /\ request.reply = "none")
    /\ request'.kind \in {"calibrate", "source"} /\ request'.reply = "none"
    /\ UNCHANGED <<phase, tracker>>

Calibrate ==
    /\ phase = "ready" /\ Pending("calibrate")
    /\ units' \in OriUnits /\ zero' \in BOOLEAN
    /\ UNCHANGED <<phase, request, streaming, srcmap>>

(* All the stations the request names get its source at once, and no other *)
(* station does.                                                           *)
SelectSource ==
    /\ phase = "ready" /\ Pending("source") /\ request.source >= 1
    /\ srcmap' = [s \in Stations |-> IF s \in Named THEN SourceMap(request.source)
                                     ELSE srcmap[s]]
    /\ UNCHANGED <<phase, request, units, streaming, zero>>

Respond(res) ==
    /\ phase = "ready"
    /\ request' = [request EXCEPT !.reply = res]
    /\ UNCHANGED <<phase, tracker>>

Fail == (Pending("calibrate") \/ Pending("source")) /\ Respond("failure")

CalibrateDone ==
    /\ Pending("calibrate")
    /\ units = "quat" /\ streaming /\ zero
    /\ Respond("success")

SourceDone ==
    /\ Pending("source")
    /\ \A s \in Named : srcmap[s] = SourceMap(request.source)
    /\ Respond("success")

----------------------------------------------------------------------------
Next == \/ SetUp \/ BecomeReady \/ Stop \/ Restart \/ Stream \/ Call
        \/ Calibrate \/ SelectSource \/ Fail \/ CalibrateDone \/ SourceDone

Spec == Init /\ [][Next]_vars
=============================================================================

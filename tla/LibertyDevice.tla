--------------------------- MODULE LibertyDevice ---------------------------
(***************************************************************************)
(* The Liberty tracker and the USB pipes to it, as liberty.cpp relies on   *)
(* them (the firmware is not in the repository).  Commands are text and    *)
(* are not acknowledged; the device answers only a request for data        *)
(* (README.md, "Communication protocols").  A frame holds one record per   *)
(* station that has a sensor, in ascending order.                          *)
(***************************************************************************)
EXTENDS Integers, Sequences, FiniteSets

CONSTANTS Stations,        \* the numbers of the stations, from 1
          PipeRoom,        \* records are dropped when this many frames wait
          Faults,          \* the kinds of fault that may happen
          MaxFaults        \* and how many of them in one behaviour

FaultKinds == {"write_lost", "write_unreported", "read", "sensor", "crash", "dump"}

ASSUME DeviceAssumption == /\ IsFiniteSet(Stations) /\ Stations \subseteq 1..16
                           /\ PipeRoom \in Nat \ {0}
                           /\ Faults \subseteq FaultKinds
                           /\ MaxFaults \in Nat

VARIABLES inbox,           \* the command in the OUT pipe, or NoCommand
          pipe,            \* the frames in the IN pipe
          binary,          \* binary or ASCII output
          streaming,       \* continuous output ("c")
          units,           \* orientation format of its records ("O*,...")
          bore,            \* what each station's boresight is made of
          sensors,         \* the stations whose sensor is present
          faults           \* the faults that may still happen

deviceVars == <<inbox, pipe, binary, streaming, units, bore, sensors>>

OriUnits    == {"quat", "euler"}
AllStations == -1
Boresights  == {"none", "zero", "corrected", "layered"}

(* The commands: p (one frame, ends continuous output), c (continuous), f1 *)
(* (binary), O (output format), ^u (station state), h (hemisphere), b      *)
(* (boresight) and ^b (reset boresight).                                   *)
Cmds == {"p", "c", "f1", "O", "^u", "h", "b", "^b"}

Commands == {c \in [cmd : Cmds, station : Stations \cup {AllStations},
                    arg : OriUnits \cup {"zero", "correction", "none"}] :
                c.cmd = "O" => c.arg \in OriUnits}

Cmd(c)           == [cmd |-> c, station |-> AllStations, arg |-> "none"]
OutputFormat(u)  == [cmd |-> "O", station |-> AllStations, arg |-> u]
Boresight(s, a)  == [cmd |-> "b", station |-> s, arg |-> a]
NoCommand        == [cmd |-> "none", station |-> AllStations, arg |-> "none"]

(* A frame by its initiating command (head.init_cmd): "C" for continuous   *)
(* and "P" for single output, "state" for the answer to ^u; in ASCII mode  *)
(* the byte at that place is none of these.  raw: the stations whose       *)
(* rotation is measured without any boresight.                             *)
Frames == [head : {"C", "P", "state", "ascii"}, units : OriUnits,
           sensors : SUBSET Stations, raw : SUBSET Stations]

Raw == {s \in sensors : bore[s] = "none"}

Frame(head) == [head |-> IF binary THEN head ELSE "ascii", units |-> units,
                sensors |-> sensors, raw |-> Raw]

(* sizeof(liberty_pno_frame_t), liberty_euler_pno_frame_t and              *)
(* active_station_state_response_t; a line of text is longer than any.     *)
PnoSize   == 48
EulerSize == 44
StateSize == 12
AsciiSize == 100

FrameSize(f) ==
    IF f.head = "ascii" THEN AsciiSize
    ELSE IF f.head = "state" THEN StateSize
    ELSE Cardinality(f.sensors) * (IF f.units = "quat" THEN PnoSize ELSE EulerSize)

DeviceTypeOK ==
    /\ inbox \in Commands \cup {NoCommand}
    /\ pipe \in Seq(Frames)
    /\ binary \in BOOLEAN
    /\ streaming \in BOOLEAN
    /\ units \in OriUnits
    /\ bore \in [Stations -> Boresights]
    /\ sensors \in SUBSET Stations
    /\ faults \in 0..MaxFaults

(* Powered up, or left behind by an earlier run of some program.           *)
DeviceInit ==
    /\ inbox = NoCommand
    /\ pipe = <<>>
    /\ binary \in BOOLEAN
    /\ streaming \in BOOLEAN
    /\ units \in OriUnits
    /\ bore \in [Stations -> {"none", "corrected"}]
    /\ sensors = Stations
    /\ faults = MaxFaults

Fault(kind) == kind \in Faults /\ faults > 0 /\ faults' = faults - 1

Addressed(c) == {s \in Stations : c.station \in {AllStations, s}}

(* A boresight of zeros takes the present pose for zero; any other one is  *)
(* added to what is there ("accumulative if anything other than 0",        *)
(* README.md:60).                                                          *)
BoreAfter(c) ==
    [s \in Stations |->
        IF s \notin Addressed(c) THEN bore[s]
        ELSE IF c.cmd = "^b" THEN "none"
        ELSE IF c.cmd = "b" /\ c.arg = "zero" THEN "zero"
        ELSE IF c.cmd = "b" THEN (IF bore[s] = "none" THEN "corrected" ELSE "layered")
        ELSE bore[s]]

StreamingAfter(c) == IF c.cmd \in {"c", "p"} THEN c.cmd = "c" ELSE streaming
UnitsAfter(c)     == IF c.cmd = "O" THEN c.arg ELSE units
BinaryAfter(c)    == binary \/ c.cmd = "f1"

Answer(c) == IF c.cmd = "p" /\ sensors # {} THEN <<Frame("P")>>
             ELSE IF c.cmd = "^u" THEN <<Frame("state")>> ELSE <<>>

DeviceExecute ==
    /\ inbox # NoCommand
    /\ inbox' = NoCommand
    /\ binary' = BinaryAfter(inbox)
    /\ streaming' = StreamingAfter(inbox)
    /\ units' = UnitsAfter(inbox)
    /\ bore' = BoreAfter(inbox)
    /\ pipe' = pipe \o Answer(inbox)
    /\ UNCHANGED <<sensors, faults>>

DeviceStream ==
    /\ streaming /\ sensors # {}
    /\ Len(pipe) < PipeRoom
    /\ pipe' = Append(pipe, Frame("C"))
    /\ UNCHANGED <<inbox, binary, streaming, units, bore, sensors, faults>>

(* A sensor drops out or comes back.                                       *)
SensorChange ==
    /\ Fault("sensor")
    /\ \E s \in Stations :
          sensors' = IF s \in sensors THEN sensors \ {s} ELSE sensors \cup {s}
    /\ UNCHANGED <<inbox, pipe, binary, streaming, units, bore>>

(* The device once it has carried out the command in the OUT pipe.         *)
EffUnits     == UnitsAfter(inbox)
EffStreaming == StreamingAfter(inbox)
EffBore      == BoreAfter(inbox)
=============================================================================

---------------------------- MODULE ViperDevice ----------------------------
(***************************************************************************)
(* The Viper tracker and the USB pipes to it, as the driver's code relies  *)
(* on them (the firmware is not in the repository).  The OUT pipe holds at *)
(* most one command the device has not taken; the IN pipe is a queue of    *)
(* frames.  Every command is answered in order; in continuous mode PNO     *)
(* frames arrive between the answers as long as the device has room for    *)
(* them (PipeRoom).                                                        *)
(***************************************************************************)
EXTENDS ViperProtocol

CONSTANTS PipeRoom,        \* PNO frames are dropped when this many frames wait
          Faults,          \* the kinds of fault that may happen
          MaxFaults        \* and how many of them in one behaviour

FaultKinds == {"write_lost", "write_unreported", "read", "nak", "sensor", "crash", "dump"}

ASSUME DeviceAssumption == /\ PipeRoom \in Nat \ {0}
                           /\ Faults \subseteq FaultKinds
                           /\ MaxFaults \in Nat

VARIABLES inbox,           \* the command in the OUT pipe, or NoCommand
          pipe,            \* the frames in the IN pipe
          streaming,       \* continuous mode
          units,           \* orientation units of the frames it builds
          layers,          \* boresight corrections each station has accumulated
          zeroed,          \* the stations were boresighted with all zeros
          srcmap,          \* the source each station is measured against
          sensors,         \* the stations whose sensor is present
          faults           \* the faults that may still happen

deviceVars == <<inbox, pipe, streaming, units, layers, zeroed, srcmap, sensors>>

MaxLayers == 2             \* "more than one" is all the properties tell apart

DeviceTypeOK ==
    /\ inbox \in Commands \cup {NoCommand}
    /\ pipe \in Seq(Frames)
    /\ streaming \in BOOLEAN
    /\ units \in OriUnits
    /\ layers \in [Stations -> 0..MaxLayers]
    /\ zeroed \in BOOLEAN
    /\ srcmap \in [Stations -> SUBSET Nat]
    /\ sensors \in SUBSET Stations
    /\ faults \in 0..MaxFaults

(* Powered up: perhaps already streaming, in whichever units.              *)
DeviceInit ==
    /\ inbox = NoCommand
    /\ pipe = <<>>
    /\ streaming \in BOOLEAN
    /\ units \in OriUnits
    /\ layers = [s \in Stations |-> 0]
    /\ zeroed = FALSE
    /\ srcmap = [s \in Stations |-> SourceMap(1)]
    /\ sensors = Stations
    /\ faults = MaxFaults

Fault(kind) == kind \in Faults /\ faults > 0 /\ faults' = faults - 1

(* The stations a command is addressed to.                                 *)
Addressed(c) == {s \in Stations : c.station \in {AllStations, s}}

(* A boresight of zeros replaces what was there, any other one adds to it  *)
(* ("accumulative if anything other than 0", README.md:60).                *)
LayersAfter(c) ==
    [s \in Stations |->
        IF c.cmd # "BORESIGHT" \/ s \notin Addressed(c) THEN layers[s]
        ELSE IF c.cfg = "correction" /\ layers[s] < MaxLayers THEN layers[s] + 1
        ELSE IF c.cfg = "correction" THEN MaxLayers ELSE 0]

(* What continuous mode may be after a command: a single-frame request is  *)
(* answered with one frame, and may or may not end continuous mode.        *)
StreamingAfter(c) ==
    IF c.cmd = "CONTINUOUS_PNO" THEN {c.action = "SET"}
    ELSE IF c.cmd = "SINGLE_PNO" THEN {streaming, FALSE}
    ELSE {streaming}

UnitsAfter(c)  == IF c.cmd = "UNITS" THEN c.cfg ELSE units
ZeroedAfter(c) == IF c.cmd = "BORESIGHT" THEN c.cfg = "zero" ELSE zeroed

SrcmapAfter(c) ==
    [s \in Stations |-> IF c.cmd = "SRC_SELECT" /\ s \in Addressed(c) THEN c.map
                        ELSE srcmap[s]]

(* The device takes the command, carries it out and acknowledges it.       *)
DeviceExecute ==
    /\ inbox # NoCommand
    /\ streaming' \in StreamingAfter(inbox)
    /\ units'  = UnitsAfter(inbox)
    /\ layers' = LayersAfter(inbox)
    /\ zeroed' = ZeroedAfter(inbox)
    /\ srcmap' = SrcmapAfter(inbox)
    /\ pipe' = pipe \o <<Reply(inbox, "ACK", sensors)>>
                    \o (IF inbox.cmd = "SINGLE_PNO" THEN <<PnoFrame(units, sensors)>> ELSE <<>>)
    /\ inbox' = NoCommand
    /\ UNCHANGED <<sensors, faults>>

(* It refuses the command and says so.                                     *)
DeviceRefuse ==
    /\ inbox # NoCommand
    /\ Fault("nak")
    /\ pipe' = Append(pipe, Reply(inbox, "NAK", sensors))
    /\ inbox' = NoCommand
    /\ UNCHANGED <<streaming, units, layers, zeroed, srcmap, sensors>>

(* Continuous mode: one more frame.                                        *)
DeviceStream ==
    /\ streaming
    /\ Len(pipe) < PipeRoom
    /\ pipe' = Append(pipe, PnoFrame(units, sensors))
    /\ UNCHANGED <<inbox, streaming, units, layers, zeroed, srcmap, sensors, faults>>

(* A sensor drops out or comes back.                                       *)
SensorChange ==
    /\ Fault("sensor")
    /\ \E s \in Stations :
          sensors' = IF s \in sensors THEN sensors \ {s} ELSE sensors \cup {s}
    /\ UNCHANGED <<inbox, pipe, streaming, units, layers, zeroed, srcmap>>

DeviceStep == DeviceExecute \/ DeviceStream

(* What will hold once the command in the OUT pipe has been carried out.   *)
EffUnits     == UnitsAfter(inbox)
EffStreaming == StreamingAfter(inbox) = {TRUE}
EffLayers    == LayersAfter(inbox)
EffZeroed    == ZeroedAfter(inbox)
EffSrcmap    == SrcmapAfter(inbox)
=============================================================================

--------------------------- MODULE ViperProtocol ---------------------------
(***************************************************************************)
(* The Viper wire protocol (viper_protocol.h): the commands the driver     *)
(* builds, the frames the device sends, and how CFrameInfo classifies a    *)
(* received frame.  A payload keeps only what the driver's behaviour tells *)
(* apart: the orientation units of a UNITS command, whether a BORESIGHT    *)
(* sets the current pose to zero or adds a correction, the source bitmap.  *)
(***************************************************************************)
EXTENDS Integers, Sequences, FiniteSets

CONSTANT Stations          \* the station numbers (bfSnum) a sensor may have

ASSUME StationsAssumption == IsFiniteSet(Stations) /\ Stations \subseteq 0..15

AllStations == -1          \* "all stations" in a command's first argument
NoMap       == {}

OriUnits == {"quat", "euler"}
CmdTypes == {"HEMISPHERE", "BORESIGHT", "UNITS", "STATION_MAP", "SINGLE_PNO",
             "CONTINUOUS_PNO", "SRC_SELECT"}

(* A command frame: type, action, station argument and configuration.      *)
Commands ==
    {c \in [cmd     : CmdTypes,
            action  : {"SET", "GET", "RESET"},
            station : Stations \cup {AllStations},
            cfg     : OriUnits \cup {"zero", "correction", "none"},
            map     : SUBSET Nat] : c.cmd = "UNITS" => c.cfg \in OriUnits}

(* CVPcmd::Fill: only a SET carries a configuration.                       *)
Fill(cmd, act, station, cfg, map) ==
    [cmd |-> cmd, action |-> act, station |-> station,
     cfg |-> IF act = "SET" THEN cfg ELSE "none",
     map |-> IF act = "SET" THEN map ELSE NoMap]

NoCommand == [cmd |-> "none", action |-> "none", station |-> AllStations,
              cfg |-> "none", map |-> NoMap]

DataMode(mode) ==
    CASE mode = "DATA_CONTINUOUS" -> Fill("CONTINUOUS_PNO", "SET", AllStations, "none", NoMap)
      [] mode = "DATA_SINGLE"     -> Fill("SINGLE_PNO", "GET", AllStations, "none", NoMap)
      [] mode = "DATA_RESET"      -> Fill("CONTINUOUS_PNO", "RESET", AllStations, "none", NoMap)

DefineDataType(u)     == Fill("UNITS", "SET", AllStations, u, NoMap)
RequestNumOfStations  == Fill("STATION_MAP", "GET", AllStations, "none", NoMap)
SetHemisphere         == Fill("HEMISPHERE", "SET", AllStations, "none", NoMap)
SetBoresight(s, cfg)  == Fill("BORESIGHT", "SET", s, cfg, NoMap)
ResetBoresight        == Fill("BORESIGHT", "RESET", AllStations, "none", NoMap)

(* set_source: the 1-based source number becomes a map with that one bit   *)
(* (1 << source - 1), here the set of the bits that are set.               *)
SourceMap(source)     == {source - 1}
SetSource(source, s)  == Fill("SRC_SELECT", "SET", s, "none", SourceMap(source))

----------------------------------------------------------------------------
(* Frames: the reply to a command, or a position-and-orientation frame.    *)

Frames == [pre     : {"CMD", "PNO"},
           cmd     : CmdTypes \cup {"none"},
           action  : {"ACK", "NAK", "none"},
           units   : OriUnits \cup {"none"},
           sensors : SUBSET Stations]

Reply(c, act, detected) ==
    [pre |-> "CMD", cmd |-> c.cmd, action |-> act, units |-> "none",
     sensors |-> IF c.cmd = "STATION_MAP" /\ act = "ACK" THEN detected ELSE {}]

PnoFrame(u, detected) ==
    [pre |-> "PNO", cmd |-> "none", action |-> "none", units |-> u, sensors |-> detected]

(* Bytes on the wire: 8 of frame header, then 20 of command header or 16   *)
(* of PNO header, a 4-byte map or 32 bytes per sensor, and a 4-byte CRC.   *)
FrameSize(f) ==
    IF f.pre = "PNO" THEN 28 + 32 * Cardinality(f.sensors)
    ELSE IF f.cmd = "STATION_MAP" /\ f.action = "ACK" THEN 36 ELSE 32

(* CFrameInfo::cmd, action, IsAck: -1 ("none" here) for a PNO frame.       *)
IsCmd(f)       == f.pre = "CMD"
IsPno(f)       == f.pre = "PNO"
FrameCmd(f)    == IF IsCmd(f) THEN f.cmd ELSE "none"
FrameAction(f) == IF IsCmd(f) THEN f.action ELSE "none"
IsAck(f)       == IsCmd(f) /\ f.action = "ACK"
=============================================================================

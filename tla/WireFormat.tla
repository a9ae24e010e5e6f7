----------------------------- MODULE WireFormat -----------------------------
(***************************************************************************)
(* The numbers behind ViperProtocol: how a Viper command is sized and      *)
(* check-summed (CVPcmd of viper_protocol.h), and how stations are kept in *)
(* bitmaps and counted (CVPSeuPno, CStationMap, count_bits).  A behaviour  *)
(* does one job: it prepares a command, runs the checksum over the bytes of*)
(* one, or reads and counts the stations of a frame.  A word is the set of *)
(* the positions of its 1 bits: a station map is the set of its stations.  *)
(***************************************************************************)
EXTENDS Integers, FiniteSets, FiniteSetsExt

Bits(n) == 0..(n - 1)

CONSTANTS Bytes,           \* the bytes a command may hold ...
          MaxBytes,        \* ... and how many of them are looked at
          StationNumbers,  \* bfSnum of the records of a frame
          Payloads         \* sizes of the configurations sent with a command

ASSUME WireAssumption == /\ Bytes \subseteq SUBSET Bits(8) /\ MaxBytes \in Nat
                         /\ StationNumbers \subseteq Bits(16)
                         /\ Payloads \subseteq Nat

VARIABLES job,             \* what the behaviour does
          read, crc,       \* CalcCRC_Bytes: bytes so far, checksum of them,
          serial,          \* and the same computed bit by bit
          sensor_count, sensor_map,
          v, c,            \* count_bits: what is left, how many so far
          size, szpay, txbytes

crcVars     == <<read, crc, serial>>
frameVars   == <<sensor_count, sensor_map, v, c>>
commandVars == <<size, szpay, txbytes>>
vars == <<job, crcVars, frameVars, commandVars>>

SENSORS_PER_SEU == 16
CRC_BYTES       == 4
FrameHeader     == 8       \* sizeof(viper_frame_header_t)
CommandHeader   == 20      \* sizeof(viper_header_t)
FullHeader      == FrameHeader + CommandHeader

(* The operators of uint32_t: shifts lose the bits that leave the word.    *)
Right(w, n) == {i \in Bits(32) : i + n \in w}
Left(w, n)  == {i \in Bits(32) : i - n \in w}
Xor(w, x)   == SymDiff(w, x)

TypeOK ==
    /\ job \in {"checksum", "frame", "count", "counted", "fill", "prepare", "prepared"}
    /\ read \in 0..MaxBytes /\ crc \subseteq Bits(16) /\ serial \subseteq Bits(16)
    /\ sensor_count \in 0..SENSORS_PER_SEU /\ sensor_map \subseteq Bits(16)
    /\ v \subseteq Bits(16) /\ c \in 0..SENSORS_PER_SEU
    /\ size \in Nat /\ szpay \in Nat /\ txbytes \in Nat

Init ==
    /\ job \in {"checksum", "frame", "fill"}
    /\ read = 0 /\ crc = {} /\ serial = {}
    /\ sensor_count = 0 /\ sensor_map = {} /\ v = {} /\ c = 0
    /\ size = CommandHeader + CRC_BYTES /\ szpay = 0 /\ txbytes = 0

----------------------------------------------------------------------------
(* The checksum, a byte at a time: op has the nibbles whose entry in the   *)
(* table of parities is 1.                                                 *)
op == {{0}, {1}, {2}, {0, 1, 2}, {3}, {0, 1, 3}, {0, 2, 3}, {1, 2, 3}}

crc16LowNibble(w, byte) ==     \* mutant: the parity of the low four bits alone
    LET data    == Xor(byte, w) \cap Bits(8)
        shifted == IF data \cap Bits(4) \in op THEN Xor(Right(w, 8), {0, 14, 15}) ELSE Right(w, 8)
    IN  Xor(Xor(shifted, Left(data, 6)), Left(data, 7))

crc16(w, byte) ==
    LET data    == Xor(byte, w) \cap Bits(8)
        even    == data \cap Bits(4) \in op <=> Right(data, 4) \in op
        shifted == IF even THEN Right(w, 8) ELSE Xor(Right(w, 8), {0, 14, 15})   \* 0xc001
    IN  Xor(Xor(shifted, Left(data, 6)), Left(data, 7))

(* And by its definition: the remainder modulo x^16 + x^15 + x^2 + 1, bits *)
(* in the order they are sent, least significant first.                    *)
Divide(w, byte, bit) ==
    IF bit \in byte <=> 0 \in w THEN Right(w, 1)
                                ELSE Xor(Right(w, 1), {0, 13, 15})              \* 0xa001

DivideByte(w, byte) ==
    LET D(r, bit) == Divide(r, byte, bit)
    IN  D(D(D(D(D(D(D(D(w, 0), 1), 2), 3), 4), 5), 6), 7)

CalcCRC_Bytes ==
    /\ job = "checksum" /\ read < MaxBytes
    /\ \E byte \in Bytes :
          /\ crc' = crc16(crc, byte)
          /\ serial' = DivideByte(serial, byte)
    /\ read' = read + 1
    /\ UNCHANGED <<job, frameVars, commandVars>>

TrailerBigEndian(w) == <<{}, {}, Right(w, 8), w \cap Bits(8)>>   \* mutant: the other byte order

(* Prepare stores the checksum as a little-endian 32-bit word.             *)
Trailer(w) == <<w \cap Bits(8), Right(w, 8), {}, {}>>

----------------------------------------------------------------------------
(* Stations: SensorMap's loop over the records of a frame, whose stations  *)
(* are distinct, and the two counts of the stations in a map.              *)
AddRecordAgain ==              \* mutant: the same record again and again
    /\ job = "frame"
    /\ \E s \in StationNumbers : sensor_map' = sensor_map \cup Left({0}, s)
    /\ sensor_count' = sensor_count + 1
    /\ UNCHANGED <<job, v, c, crcVars, commandVars>>

AddRecord ==
    /\ job = "frame"
    /\ \E s \in StationNumbers :
          /\ sensor_map \cap Left({0}, s) = {}
          /\ sensor_map' = sensor_map \cup Left({0}, s)
    /\ sensor_count' = sensor_count + 1
    /\ UNCHANGED <<job, v, c, crcVars, commandVars>>

SnsDetectedCountFrom1(map) ==  \* mutant: stations are numbered from 1
    Cardinality({i \in Bits(SENSORS_PER_SEU) \ {0} : Left({0}, i) \cap map # {}})

SnsDetectedCount(map) ==
    Cardinality({i \in Bits(SENSORS_PER_SEU) : Left({0}, i) \cap map # {}})

(* count_bits: v &= v - 1 until nothing is left.  The decrement borrows    *)
(* from the lowest bit that is set.                                        *)
Decrement(w) == (w \ {Min(w)}) \cup Bits(Min(w))

StartCount ==
    /\ job = "frame" /\ job' = "count"
    /\ v' = sensor_map /\ c' = 0
    /\ UNCHANGED <<sensor_count, sensor_map, crcVars, commandVars>>

CountBit ==
    /\ job = "count" /\ v # {}
    /\ v' = v \cap Decrement(v) /\ c' = c + 1
    /\ UNCHANGED <<job, sensor_count, sensor_map, crcVars, commandVars>>

CountEnds ==
    /\ job = "count" /\ v = {} /\ job' = "counted"
    /\ UNCHANGED <<crcVars, frameVars, commandVars>>

----------------------------------------------------------------------------
(* A command: only a SET takes its configuration along.                    *)
FillAlwaysSizes(act, szp) ==   \* mutant: any configuration is counted
    /\ job = "fill" /\ job' = "prepare"
    /\ size' = size + szp
    /\ szpay' = IF act = "SET" THEN szp ELSE 0
    /\ UNCHANGED <<txbytes, crcVars, frameVars>>

Fill(act, szp) ==
    /\ job = "fill" /\ job' = "prepare"
    /\ IF act = "SET" THEN szpay' = szp /\ size' = size + szp
                      ELSE szpay' = 0 /\ UNCHANGED size
    /\ UNCHANGED <<txbytes, crcVars, frameVars>>

Prepare ==
    /\ job = "prepare" /\ job' = "prepared"
    /\ txbytes' = FullHeader + szpay + CRC_BYTES
    /\ UNCHANGED <<size, szpay, crcVars, frameVars>>

Next == \/ CalcCRC_Bytes \/ Prepare
        \/ AddRecord \/ StartCount \/ CountBit \/ CountEnds
        \/ \E act \in {"SET", "GET", "RESET"}, szp \in Payloads : Fill(act, szp)

Spec == Init /\ [][Next]_vars

----------------------------------------------------------------------------
(* The table-driven checksum is the CRC-16 it stands for, on every state   *)
(* of the 16-bit register the bytes can reach.                             *)
ChecksumIsCrc == crc = serial

(* The trailer makes the checksum of the whole frame zero: whoever runs it *)
(* over header, configuration and trailer alike can tell a whole frame.    *)
TrailerChecks ==
    LET t == Trailer(crc)
    IN  crc16(crc16(crc16(crc16(crc, t[1]), t[2]), t[3]), t[4]) = {}

(* The size in the header is that of the rest of what is sent, so the      *)
(* device looks for the next command where this one ends.                  *)
SizeEndsFrame == job = "prepared" => FrameHeader + size = txbytes

(* However the stations of a frame are counted - by its records, by        *)
(* count_bits, or from the map as the station map reports them - the       *)
(* number is the same: all three set station_count (IndexesFrame).         *)
CountsAgree == /\ job = "counted" => c = sensor_count
               /\ SnsDetectedCount(sensor_map) = sensor_count
=============================================================================

----------------------------- MODULE ViperLink -----------------------------
(***************************************************************************)
(* How the driver talks to the device: device_write, device_read and       *)
(* device_clear_input of polhemus.cpp, and the four ways viper.cpp reads   *)
(* after them (receive_data_frame, the station map, receive_pno_data_frame *)
(* and the clearing of the input).  One action is one USB transfer with    *)
(* the code that runs until the next one.                                  *)
(*                                                                         *)
(* call is where the current call stands: "send" before the write of a     *)
(* command, then "reply", "map" or "clear" by what is read after it; "pno" *)
(* before the read of a PNO frame; "done" when return_value is its result, *)
(* "idle" when no call is running.                                         *)
(***************************************************************************)
EXTENDS ViperDevice

VARIABLES call,
          attempt,         \* receive_data_frame's loop counter
          g_nrxcount,      \* the size the next read asks for (device_read's &size)
          return_value,
          pno,             \* the last PNO frame extracted: its units and sensors
          station_count

linkVars == <<call, attempt, g_nrxcount, return_value, pno, station_count>>

RETURN_ERROR == -1
VIPER_RX_BUF_SIZE == 1024
attempts == 3
MaxStations == Cardinality(Stations)

LinkTypeOK ==
    /\ call \in {"idle", "send", "reply", "map", "clear", "pno", "done"}
    /\ attempt \in 0..(attempts - 1)
    /\ g_nrxcount \in Nat
    /\ return_value \in {RETURN_ERROR} \cup Nat
    /\ pno \in [units : OriUnits \cup {"none"}, sensors : SUBSET Stations]
    /\ station_count \in Nat

EmptyPno == [units |-> "none", sensors |-> {}]

LinkInit ==
    /\ call = "send"
    /\ attempt = 0
    /\ g_nrxcount = 0
    /\ return_value = RETURN_ERROR
    /\ pno = EmptyPno
    /\ station_count = 0

Failed == return_value = RETURN_ERROR

----------------------------------------------------------------------------
(* device_write, device_send.                                              *)

(* What follows the write.  A data-mode RESET is not acknowledged by the   *)
(* code: device_reset clears the input whether or not the write succeeded. *)
AfterWrite(c, rc) ==
    /\ return_value' = rc
    /\ IF c = DataMode("DATA_RESET")
       THEN call' = "clear" /\ g_nrxcount' = VIPER_RX_BUF_SIZE
            /\ UNCHANGED <<attempt, station_count>>
       ELSE IF rc = RETURN_ERROR
       THEN /\ call' = "done"
            /\ station_count' = IF c = RequestNumOfStations THEN 0 ELSE station_count
            /\ UNCHANGED <<attempt, g_nrxcount>>
       ELSE /\ call' = IF c = RequestNumOfStations THEN "map" ELSE "reply"
            /\ attempt' = 0
            /\ g_nrxcount' = VIPER_RX_BUF_SIZE
            /\ UNCHANGED station_count

UnchangedByWrite ==
    UNCHANGED <<pipe, streaming, units, layers, zeroed, srcmap, sensors, pno>>

(* The write waits until the device has taken the previous command.        *)
WriteOk(c) ==
    /\ call = "send" /\ inbox = NoCommand
    /\ inbox' = c
    /\ AfterWrite(c, 0)
    /\ UnchangedByWrite /\ UNCHANGED faults

(* A write the code takes for failed: libusb error or short count.  The    *)
(* command may have reached the device all the same.                       *)
WriteLost(c) ==
    /\ call = "send"
    /\ Fault("write_lost")
    /\ AfterWrite(c, RETURN_ERROR)
    /\ UnchangedByWrite /\ UNCHANGED inbox

WriteUnreported(c) ==
    /\ call = "send" /\ inbox = NoCommand
    /\ Fault("write_unreported")
    /\ inbox' = c
    /\ AfterWrite(c, RETURN_ERROR)
    /\ UnchangedByWrite

----------------------------------------------------------------------------
(* device_read: the frame at the head of the pipe, which becomes the new   *)
(* size, or a failure, which makes the size 0.                             *)

DeviceRead ==
    /\ pipe # <<>>
    /\ FrameSize(Head(pipe)) <= g_nrxcount
    /\ pipe' = Tail(pipe)
    /\ g_nrxcount' = FrameSize(Head(pipe))
    /\ UNCHANGED faults

(* The frame is larger than the buffer: libusb reports an overflow and the *)
(* frame is gone.                                                          *)
ReadOverflow ==
    /\ pipe # <<>>
    /\ FrameSize(Head(pipe)) > g_nrxcount
    /\ pipe' = Tail(pipe)
    /\ UNCHANGED faults

(* Nothing arrives in VPUSB_READ_TIMEOUT_MS: the device has nothing to say.*)
ReadTimeout ==
    /\ pipe = <<>> /\ inbox = NoCommand /\ ~streaming
    /\ UNCHANGED <<pipe, faults>>

(* A transfer error, or a frame that is later than the timeout.            *)
ReadFault == Fault("read") /\ UNCHANGED pipe

UnchangedByRead == UNCHANGED <<inbox, streaming, units, layers, zeroed, srcmap, sensors>>

Return(rc) == call' = "done" /\ return_value' = rc

ReplyMissedOnceMore ==     \* mutant: one attempt too many
    IF attempt < attempts
    THEN attempt' = attempt + 1 /\ UNCHANGED <<call, return_value>>
    ELSE Return(RETURN_ERROR) /\ UNCHANGED attempt

(* receive_data_frame: a PNO frame or a failed read uses up an attempt     *)
(* (with the size the failed or the short read left), a reply to another   *)
(* command or one that is not an ACK fails at once.                        *)
ReplyMissed ==
    IF attempt < attempts - 1
    THEN attempt' = attempt + 1 /\ UNCHANGED <<call, return_value>>
    ELSE Return(RETURN_ERROR) /\ UNCHANGED attempt

ReceiveDataFrame(c, f) ==
    /\ call = "reply"
    /\ IF ~IsCmd(f) THEN ReplyMissed
       ELSE /\ Return(IF FrameCmd(f) # c.cmd \/ ~IsAck(f) THEN RETURN_ERROR ELSE 0)
            /\ UNCHANGED attempt
    /\ UNCHANGED <<pno, station_count>>

(* request_num_of_stations: any frame counts as success; a refusal has no  *)
(* map, so what the code counts there is whatever the buffer held.         *)
ReceiveStationMap(f) ==
    /\ call = "map"
    /\ Return(0)
    /\ station_count' \in IF FrameCmd(f) # "STATION_MAP" THEN {0}
                          ELSE IF IsAck(f) THEN {Cardinality(f.sensors)} ELSE 0..MaxStations
    /\ UNCHANGED <<attempt, pno>>

(* receive_pno_data_frame.                                                 *)
ReceivePno(f) ==
    /\ call = "pno"
    /\ IF IsPno(f)
       THEN /\ pno' = [units |-> f.units, sensors |-> f.sensors]
            /\ station_count' = Cardinality(f.sensors)
            /\ Return(Cardinality(f.sensors))
       ELSE Return(RETURN_ERROR) /\ UNCHANGED <<pno, station_count>>
    /\ UNCHANGED attempt

(* device_clear_input: reads on while the size stays above 0; the size of  *)
(* each frame becomes the size of the next read.                           *)
ClearInput(f) ==
    /\ call = "clear"
    /\ FrameSize(f) > 0
    /\ UNCHANGED <<call, attempt, return_value, pno, station_count>>

(* The same four when device_read fails.                                   *)
ReadFailed ==
    /\ g_nrxcount' = 0
    /\ \/ /\ call = "reply"
          /\ ReplyMissed
          /\ UNCHANGED station_count
       \/ /\ call = "map"
          /\ Return(RETURN_ERROR) /\ station_count' = 0
          /\ UNCHANGED attempt
       \/ /\ call = "pno"
          /\ Return(RETURN_ERROR)
          /\ UNCHANGED <<attempt, station_count>>
       \/ /\ call = "clear"
          /\ call' = "done"
          /\ UNCHANGED <<attempt, return_value, station_count>>
    /\ UNCHANGED pno

(* One read, for a call that has command c outstanding.                    *)
ReadStep(c) ==
    /\ \/ /\ DeviceRead
          /\ LET f == Head(pipe)
             IN  ReceiveDataFrame(c, f) \/ ReceiveStationMap(f) \/ ReceivePno(f) \/ ClearInput(f)
       \/ (ReadOverflow \/ ReadTimeout) /\ ReadFailed
    /\ UnchangedByRead

ReadFaultStep == ReadFault /\ ReadFailed /\ UnchangedByRead

(* The transfers that need no fault, and those that do.                    *)
Transfer(c)       == WriteOk(c) \/ ReadStep(c)
FaultyTransfer(c) == WriteLost(c) \/ WriteUnreported(c) \/ ReadFaultStep

(* Starting the next call of a procedure.                                  *)
StartSend == call' = "send" /\ UNCHANGED g_nrxcount
StartPno  == call' = "pno" /\ g_nrxcount' = VIPER_RX_BUF_SIZE
StartIdle == call' = "idle" /\ UNCHANGED g_nrxcount
=============================================================================

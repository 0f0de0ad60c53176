----------------------------- MODULE SimpleUart -----------------------------
(***************************************************************************)
(* The UART (simpleuart.v), one step per clock edge: divider register,     *)
(* receiver and transmitter.  Verilog's names are kept.  A byte is the     *)
(* sequence of its eight bits, lowest first, as on the line.               *)
(***************************************************************************)
EXTENDS Integers, Sequences

CONSTANTS
    DEFAULT_DIV,    \* the divider after a reset
    CounterBits,    \* width of the counters and of the divider, 32
    None            \* the receive buffer is empty

VARIABLES
    \* inputs
    resetn, ser_rx, reg_div_we, reg_div_di, reg_dat_we, reg_dat_re, reg_dat_di,
    \* registers; recv_buf is None or the byte while it is valid
    cfg_divider,
    recv_state, recv_divcnt, recv_pattern, recv_buf,
    send_pattern, send_bitcnt, send_divcnt, send_dummy

recvRegs == <<recv_state, recv_divcnt, recv_pattern, recv_buf>>
sendRegs == <<send_pattern, send_bitcnt, send_divcnt, send_dummy>>

Bit == {0, 1}
Byte == [1 .. 8 -> Bit]
Quiet == [i \in 1 .. 10 |-> 1]
NextRecv == (recv_divcnt + 1) % 2 ^ CounterBits
NextSendNoWrap == send_divcnt + 1    \* mutant
NextSend == (send_divcnt + 1) % 2 ^ CounterBits


-----------------------------------------------------------------------------
ser_tx == Head(send_pattern)
\* Mutant: a store waits for the idle time but not for a frame.
reg_dat_wait_dummy == reg_dat_we /\ send_dummy
reg_dat_wait == reg_dat_we /\ (send_bitcnt # 0 \/ send_dummy)

Divider ==
    cfg_divider' = IF ~resetn THEN DEFAULT_DIV
                   ELSE IF reg_div_we THEN reg_div_di ELSE cfg_divider

-----------------------------------------------------------------------------
(* Receiver: state 0 waits for a start bit, 1 for half a bit, 2 to 9 take  *)
(* the data bits and 10 waits for the middle of the stop bit.              *)

RecvReset ==
    /\ ~resetn
    /\ recv_state' = 0 /\ recv_divcnt' = 0
    /\ recv_pattern' = [i \in 1 .. 8 |-> 0]
    /\ recv_buf' = None

BufferAfterRead == IF reg_dat_re THEN None ELSE recv_buf

\* Mutant: a whole bit instead of half a one.
HalfBitLate == recv_divcnt > cfg_divider
HalfBit == (2 * recv_divcnt) % 2 ^ CounterBits > cfg_divider
FullBit == recv_divcnt > cfg_divider

RecvIdle ==
    /\ resetn /\ recv_state = 0
    /\ recv_state' = IF ser_rx = 0 THEN 1 ELSE 0
    /\ recv_divcnt' = 0
    /\ recv_buf' = BufferAfterRead
    /\ UNCHANGED recv_pattern

RecvStart ==
    /\ resetn /\ recv_state = 1
    /\ recv_state' = IF HalfBit THEN 2 ELSE 1
    /\ recv_divcnt' = IF HalfBit THEN 0 ELSE NextRecv
    /\ recv_buf' = BufferAfterRead
    /\ UNCHANGED recv_pattern

RecvData ==
    /\ resetn /\ recv_state \in 2 .. 9
    /\ IF FullBit
       THEN /\ recv_pattern' = Append(Tail(recv_pattern), ser_rx)
            /\ recv_state' = recv_state + 1
            /\ recv_divcnt' = 0
       ELSE /\ recv_divcnt' = NextRecv
            /\ UNCHANGED <<recv_pattern, recv_state>>
    /\ recv_buf' = BufferAfterRead

\* A byte that comes in on the edge of a read is not lost.
RecvStop ==
    /\ resetn /\ recv_state = 10
    /\ recv_divcnt' = NextRecv
    /\ recv_state' = IF FullBit THEN 0 ELSE 10
    /\ recv_buf' = IF FullBit THEN recv_pattern ELSE BufferAfterRead
    /\ UNCHANGED recv_pattern

Receiver == RecvReset \/ RecvIdle \/ RecvStart \/ RecvData \/ RecvStop

-----------------------------------------------------------------------------
(* Transmitter: a frame is ten bits; after a reset or a new divider it     *)
(* first keeps the line idle for fifteen.                                  *)

\* Mutant: no idle time after a reset.
SendResetNoDummy ==
    /\ ~resetn
    /\ send_pattern' = Quiet
    /\ send_bitcnt' = 0 /\ send_divcnt' = 0
    /\ send_dummy' = FALSE

SendReset ==
    /\ ~resetn
    /\ send_pattern' = Quiet
    /\ send_bitcnt' = 0 /\ send_divcnt' = 0
    /\ send_dummy' = TRUE

SendDummy ==
    /\ resetn /\ send_dummy /\ send_bitcnt = 0
    /\ send_pattern' = Quiet
    /\ send_bitcnt' = 15 /\ send_divcnt' = 0
    /\ send_dummy' = FALSE

SendByte ==
    /\ resetn /\ ~send_dummy /\ reg_dat_we /\ send_bitcnt = 0
    /\ send_pattern' = <<0>> \o reg_dat_di \o <<1>>
    /\ send_bitcnt' = 10 /\ send_divcnt' = 0
    /\ send_dummy' = reg_div_we

SendShift ==
    /\ resetn /\ send_bitcnt # 0 /\ send_divcnt > cfg_divider
    /\ send_pattern' = Append(Tail(send_pattern), 1)
    /\ send_bitcnt' = send_bitcnt - 1 /\ send_divcnt' = 0
    /\ send_dummy' = (send_dummy \/ reg_div_we)

SendCount ==
    /\ resetn
    /\ IF send_bitcnt = 0 THEN ~send_dummy /\ ~reg_dat_we
                          ELSE send_divcnt <= cfg_divider
    /\ send_divcnt' = NextSend
    /\ send_dummy' = (send_dummy \/ reg_div_we)
    /\ UNCHANGED <<send_pattern, send_bitcnt>>

Transmitter == SendReset \/ SendDummy \/ SendByte \/ SendShift \/ SendCount

Edge == Divider /\ Receiver /\ Transmitter
=============================================================================

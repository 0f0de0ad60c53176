------------------------------ MODULE UartLink ------------------------------
(***************************************************************************)
(* Two UARTs on a line: the transmitter of one board, the synchroniser at  *)
(* the pin of the other (zcu102_top.v) and its receiver, with a program at *)
(* each end.  The two boards have clocks, so dividers, of their own; the   *)
(* sender may be reset at any time, the receiver when the line is quiet.   *)
(***************************************************************************)
EXTENDS Integers, Sequences

CONSTANTS
    Links,      \* what two boards may be like: rx_div, the divider of the
                \* receiver; tx_divs, those the sender may be set to; resets,
                \* whether the boards are reset after they have started
    DefaultDiv, \* the divider after a reset
    CounterBits,
    Bytes,      \* what is sent
    None, Torn

Byte == [1 .. 8 -> {0, 1}]

\* What the divider of the sender may be set to.
Divs(l) ==
    l.tx_divs \cup {l.rx_div} \cup (IF l.resets THEN {DefaultDiv} ELSE {})

\* When the receiver looks at bit k of a frame, in clock edges from its start.
SampledAt(l, k) == l.rx_div \div 2 + 2 + k * (l.rx_div + 2)

ASSUME BytesAssumption == Bytes \subseteq Byte
ASSUME WidthAssumption == CounterBits \in Nat

\* The clocks of the two boards are as close as a frame of ten bits requires:
\* whatever the divider of the sender, the receiver looks at a bit while it is
\* on the line.  The counters are wide enough for a bit.
ASSUME LinksAssumption ==
    \A l \in Links :
        /\ l.rx_div \in Nat /\ l.tx_divs \subseteq Nat /\ DefaultDiv \in Nat
        /\ \A d \in Divs(l) :
            /\ d + 2 < 2 ^ CounterBits
            /\ \A k \in 1 .. 9 : SampledAt(l, k) \in k * (d + 2) .. (k + 1) * (d + 2) - 1

VARIABLES
    link,               \* the two boards
    put, setdiv,        \* the store on the sender's bus: a byte, a divider
    tx_div, send_pattern, send_bitcnt, send_divcnt, send_dummy,
    rx_sync,
    recv_state, recv_divcnt, recv_pattern, recv_buf,
    flight              \* history: bytes accepted and not yet received

\* What the inputs are at an edge: the resets, a load of the data register.
Tx(tx_resetn) == INSTANCE SimpleUart WITH
        DEFAULT_DIV <- DefaultDiv, resetn <- tx_resetn, ser_rx <- 1,
        reg_div_we <- setdiv # None, reg_div_di <- setdiv,
        reg_dat_we <- put # None, reg_dat_di <- put, reg_dat_re <- FALSE,
        cfg_divider <- tx_div

Rx(rx_resetn, get) == INSTANCE SimpleUart WITH
        DEFAULT_DIV <- DefaultDiv, resetn <- rx_resetn, ser_rx <- rx_sync[2],
        reg_div_we <- FALSE, reg_div_di <- None,
        reg_dat_we <- FALSE, reg_dat_di <- None, reg_dat_re <- get,
        cfg_divider <- link.rx_div

vars == <<link, put, setdiv, tx_div, Tx(TRUE)!sendRegs, rx_sync,
          Rx(TRUE, FALSE)!recvRegs, flight>>

\* Wires that do not depend on these inputs.
ser_tx == Tx(TRUE)!ser_tx
reg_dat_wait == Tx(TRUE)!reg_dat_wait
FullBit == Rx(TRUE, FALSE)!FullBit
-----------------------------------------------------------------------------
Init ==
    /\ link \in Links
    /\ put = None /\ setdiv = None
    /\ tx_div = link.rx_div
    /\ send_pattern = [i \in 1 .. 10 |-> 1]
    /\ send_bitcnt = 0 /\ send_divcnt = 0 /\ send_dummy = TRUE
    /\ rx_sync = <<1, 1>>
    /\ recv_state = 0 /\ recv_divcnt = 0 /\ recv_pattern = [i \in 1 .. 8 |-> 0]
    /\ recv_buf = None
    /\ flight = <<>>

Synchroniser == rx_sync' = <<ser_tx, rx_sync[1]>>

\* A store waits while the transmitter is busy; a program does one at a time.
Store(tx_resetn) ==
    \/ /\ tx_resetn /\ reg_dat_wait
       /\ UNCHANGED <<put, setdiv>>
    \/ /\ ~(tx_resetn /\ reg_dat_wait)
       /\ put' \in Bytes \cup {None} /\ setdiv' \in link.tx_divs \cup {None}
       /\ put' = None \/ setdiv' = None
       /\ tx_resetn \/ (put' = None /\ setdiv' = None)

LineQuiet == flight = <<>> /\ recv_state = 0 /\ rx_sync = <<1, 1>>

-----------------------------------------------------------------------------
arrives == recv_state = 10 /\ FullBit

\* The frame that a reset of the sender cuts before its stop bit.
cut == send_bitcnt \in 2 .. 10

History(tx_resetn) ==
    LET rest == IF arrives /\ flight # <<>> THEN Tail(flight) ELSE flight
    IN  flight' = IF tx_resetn /\ put # None /\ ~reg_dat_wait
                  THEN Append(rest, put)
                  ELSE IF ~tx_resetn /\ cut /\ rest # <<>>
                  THEN [rest EXCEPT ![Len(rest)] = Torn]
                  ELSE rest

Edge(tx_resetn, rx_resetn, get) ==
    /\ rx_resetn \/ (link.resets /\ LineQuiet)
    /\ tx_resetn \/ link.resets
    /\ Tx(tx_resetn)!Divider /\ Tx(tx_resetn)!Transmitter
    /\ Synchroniser
    /\ Rx(rx_resetn, get)!Receiver
    /\ Store(tx_resetn)
    /\ History(tx_resetn)
    /\ UNCHANGED link

Next == \E tx_resetn, rx_resetn, get \in BOOLEAN : Edge(tx_resetn, rx_resetn, get)

Spec == Init /\ [][Next]_vars

-----------------------------------------------------------------------------
TypeOK ==
    /\ put \in Bytes \cup {None} /\ setdiv \in link.tx_divs \cup {None}
    /\ tx_div \in link.tx_divs \cup {link.rx_div, DefaultDiv}
    /\ send_pattern \in [1 .. 10 -> {0, 1}] /\ send_bitcnt \in 0 .. 15
    /\ send_divcnt \in 0 .. 2 ^ CounterBits - 1 /\ send_dummy \in BOOLEAN
    /\ rx_sync \in {0, 1} \X {0, 1}
    /\ recv_state \in 0 .. 10 /\ recv_divcnt \in 0 .. 2 ^ CounterBits - 1
    /\ recv_pattern \in Byte /\ recv_buf \in Byte \cup {None}

Link == INSTANCE SerialLink WITH
            Garbage <- Byte, box <- recv_buf

(* What is stored to the data register of one board is what is loaded from *)
(* that of the other, byte for byte and in order, although the boards run  *)
(* at different speeds; and a sender that is reset in the middle of a      *)
(* frame keeps the line idle long enough for the receiver to find the      *)
(* start of the next one.                                                  *)
ImplementsLink == Link!Spec

(* No byte is accepted that will not arrive: the line never owes more than *)
(* the frame in progress and the end of the one before.                    *)
NothingOwed ==
    /\ Len(flight) <= 2
    /\ Len(flight) = 2 => arrives /\ send_bitcnt = 10
    /\ arrives => flight # <<>>
=============================================================================

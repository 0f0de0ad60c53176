------------------------------- MODULE SocBus -------------------------------
(***************************************************************************)
(* The bus of the SoC (xpix_soc.v) with what is on it: the block RAM       *)
(* (soc_bram.v), the UART, the result register.  The master is the memory  *)
(* interface of the core.  The line is looped back through the             *)
(* synchroniser of the board, so that what is stored is received.          *)
(*                                                                         *)
(* A word is a function from byte lanes to bytes, a byte the sequence of   *)
(* its bits, lowest first.  Addresses are the names of what they select.   *)
(***************************************************************************)
EXTENDS Integers, Sequences

CONSTANTS
    RamAddresses,   \* the words below 0x80000
    Lanes,          \* the byte lanes, 0 among them
    Requests,       \* the transfers of the master: [addr, wstrb, wdata]
    UART_DIV, CounterBits, None

Registers == {"div", "dat", "status", "result", "print"}
Hole == "hole"      \* an address that nothing decodes

Byte == [1 .. 8 -> {0, 1}]
Word == [Lanes -> Byte]
Lowest(b) == [l \in Lanes |-> IF l = 0 THEN b ELSE [k \in 1 .. 8 |-> 0]]
Zero == Lowest([k \in 1 .. 8 |-> 0])
One == Lowest([k \in 1 .. 8 |-> IF k = 1 THEN 1 ELSE 0])
AllOnes == [l \in Lanes |-> [k \in 1 .. 8 |-> 1]]

ASSUME LanesAssumption == 0 \in Lanes /\ Lanes # {0}
ASSUME AddressAssumption == RamAddresses \cap (Registers \cup {Hole}) = {}
ASSUME RequestAssumption ==
    Requests \subseteq [addr : RamAddresses \cup Registers \cup {Hole},
                        wstrb : SUBSET Lanes, wdata : Word]
\* The counters of the UART hold a bit, and a bit is three cycles or more.
ASSUME UartAssumption ==
    /\ UART_DIV \in Nat \ {0} /\ CounterBits \in Nat
    /\ UART_DIV + 2 < 2 ^ CounterBits
\* No byte and no divider is taken for none.
ASSUME NoneAssumption == None \notin Byte /\ None # UART_DIV

VARIABLES
    resetn,
    valid, addr, wstrb, wdata,              \* driven by the core
    mem, ram_ready, ram_data,               \* the block RAM
    result,
    cfg_divider,
    recv_state, recv_divcnt, recv_pattern, recv_buf,
    send_pattern, send_bitcnt, send_divcnt, send_dummy,
    rx_sync,
    old,        \* history: what the word being served was before
    flight      \* history: bytes whose store was acknowledged, not received

request == <<addr, wstrb, wdata>>
ramRegs == <<mem, ram_ready, ram_data>>

ram_sel == valid /\ addr \in RamAddresses
div_sel == valid /\ addr = "div"
dat_sel == valid /\ addr = "dat"
status_sel == valid /\ addr = "status"
result_sel == valid /\ addr = "result"
print_sel == valid /\ addr = "print"

\* Mutant: any byte of the word sends.
dat_we_any == dat_sel /\ wstrb # {}
dat_we == dat_sel /\ 0 \in wstrb
\* Mutant: a load of the status takes the byte, too.
dat_re_any == (dat_sel \/ status_sel) /\ wstrb = {}
dat_re == dat_sel /\ wstrb = {}

\* The divider is only ever set to the value it has; see UartLink for others.
Uart == INSTANCE SimpleUart WITH
    DEFAULT_DIV <- UART_DIV, ser_rx <- rx_sync[2],
    reg_div_we <- div_sel /\ wstrb # {}, reg_div_di <- UART_DIV,
    reg_dat_we <- dat_we, reg_dat_re <- dat_re,
    reg_dat_di <- wdata[0]

vars == <<resetn, valid, request, ramRegs, result, cfg_divider,
          Uart!recvRegs, Uart!sendRegs, rx_sync, old, flight>>

\* Mutant: nobody acknowledges the diagnostic address.
ready_silent ==
    \/ ram_ready \/ div_sel
    \/ dat_sel /\ ~Uart!reg_dat_wait
    \/ status_sel \/ result_sel

ready ==
    \/ ram_ready \/ div_sel
    \/ dat_sel /\ ~Uart!reg_dat_wait
    \/ status_sel \/ result_sel \/ print_sel

\* An empty receive buffer reads as all ones.
dat_data == IF recv_buf = None THEN AllOnes ELSE Lowest(recv_buf)
div_data == Zero    \* the divider; nobody looks at it

rdata ==
    IF ram_ready THEN ram_data
    ELSE IF div_sel THEN div_data
    ELSE IF dat_sel THEN dat_data
    ELSE IF status_sel THEN IF dat_data # AllOnes THEN One ELSE Zero
    ELSE result

-----------------------------------------------------------------------------
(* The master: one transfer at a time, held until it is acknowledged, and  *)
(* at least one cycle between two of them.                                 *)

Raise ==
    /\ resetn /\ ~valid
    /\ valid' = TRUE
    /\ \E r \in Requests :
        addr' = r.addr /\ wstrb' = r.wstrb /\ wdata' = r.wdata
Idle == ~valid /\ UNCHANGED <<valid, request>>
Hold == resetn /\ valid /\ ~ready /\ UNCHANGED <<valid, request>>
Finish == resetn /\ valid /\ ready /\ valid' = FALSE /\ UNCHANGED request
Withdraw == ~resetn /\ valid' = FALSE /\ UNCHANGED request

Master == Raise \/ Idle \/ Hold \/ Finish \/ Withdraw

-----------------------------------------------------------------------------
Merged(w, lanes, data) == [l \in Lanes |-> IF l \in lanes THEN data[l] ELSE w[l]]

\* Mutant: the request is served again in the cycle of its acknowledgement.
RamServeAgain ==
    /\ resetn /\ ram_sel
    /\ ram_ready' = TRUE
    /\ ram_data' = mem[addr]
    /\ mem' = [mem EXCEPT ![addr] = Merged(@, wstrb, wdata)]

\* Mutant: a store is made under reset.
RamServeInReset ==
    /\ ram_sel /\ ~ram_ready
    /\ ram_ready' = TRUE
    /\ ram_data' = mem[addr]
    /\ mem' = [mem EXCEPT ![addr] = Merged(@, wstrb, wdata)]

\* The load port reads the word as it was before the store.
RamServe ==
    /\ resetn /\ ram_sel /\ ~ram_ready
    /\ ram_ready' = TRUE
    /\ ram_data' = mem[addr]
    /\ mem' = [mem EXCEPT ![addr] = Merged(@, wstrb, wdata)]

RamIdle ==
    /\ ~(resetn /\ ram_sel /\ ~ram_ready)
    /\ ram_ready' = FALSE
    /\ UNCHANGED <<mem, ram_data>>

Ram == RamServe \/ RamIdle

Result ==
    result' = IF ~resetn THEN Zero
              ELSE IF result_sel /\ wstrb = Lanes THEN wdata ELSE result

Synchroniser == rx_sync' = <<Uart!ser_tx, rx_sync[1]>>

-----------------------------------------------------------------------------
arrives == recv_state = 10 /\ Uart!FullBit

History ==
    /\ old' = IF resetn /\ ram_sel /\ ~ram_ready THEN mem[addr] ELSE Zero
    /\ LET rest == IF arrives /\ flight # <<>> THEN Tail(flight) ELSE flight
       IN  flight' = IF resetn /\ dat_sel /\ 0 \in wstrb /\ ready
                     THEN Append(rest, wdata[0]) ELSE rest

LineQuiet == flight = <<>> /\ recv_state = 0 /\ rx_sync = <<1, 1>>

\* RAM contents survive a reset.
Init ==
    /\ resetn = FALSE /\ valid = FALSE
    /\ \E r \in Requests : addr = r.addr /\ wstrb = r.wstrb /\ wdata = r.wdata
    /\ mem \in [RamAddresses -> {Zero}]
    /\ ram_ready = FALSE /\ ram_data = Zero /\ old = Zero
    /\ result = Zero
    /\ cfg_divider = UART_DIV
    /\ recv_state = 0 /\ recv_divcnt = 0
    /\ recv_pattern = [k \in 1 .. 8 |-> 0] /\ recv_buf = None
    /\ send_pattern = [k \in 1 .. 10 |-> 1]
    /\ send_bitcnt = 0 /\ send_divcnt = 0 /\ send_dummy = TRUE
    /\ rx_sync = <<1, 1>>
    /\ flight = <<>>

Edge ==
    /\ Master /\ Ram /\ Result /\ Uart!Edge /\ Synchroniser /\ History
    /\ resetn' \in BOOLEAN

\* Both ends of the line share the reset, so it comes between two bytes.
Next == Edge /\ (resetn' \/ LineQuiet')

Spec == Init /\ [][Next]_vars

\* With the reset at any edge the line garbles what is on it.
OpenSpec == Init /\ [][Edge]_vars

\* The clock runs.  A reset may come, but nothing can count on one.
FairSpec == Spec /\ WF_vars(Next /\ resetn')

-----------------------------------------------------------------------------
(* The RAM makes a store one edge before it is acknowledged.  Whoever      *)
(* looks at acknowledged transfers only sees the memory without it.        *)
Settled == IF ram_ready THEN [mem EXCEPT ![addr] = old] ELSE mem

Memory == INSTANCE NativeMemory WITH
    Addresses <- RamAddresses, Written <- Merged,
    valid <- ram_sel, mem <- Settled

(* The bus and the block RAM are a memory as the core expects one: every   *)
(* load sees the last acknowledged store, a store is made once and whole   *)
(* or, when the reset cuts it, not at all, and no answer is left over from *)
(* the transfer before.                                                    *)
ImplementsMemory == Memory!Spec

(* An acknowledgement is for the request that is up, and a load gets what  *)
(* it addresses: the registered answer of the RAM never covers that of a   *)
(* register that answers in the same cycle.                                *)
AnswersThisRequest ==
    /\ ready => valid
    /\ ram_ready => ram_sel
    /\ valid /\ ready /\ wstrb = {} =>
        /\ addr \in RamAddresses => rdata = mem[addr]
        /\ addr = "dat" => rdata = dat_data
        /\ addr = "status" => rdata = IF recv_buf # None THEN One ELSE Zero
        /\ addr = "result" => rdata = result

(* A received byte leaves the buffer with the one load that returns it, or *)
(* it is overwritten or reset; a load of the status leaves it there, and   *)
(* no byte is returned twice.                                              *)
OneLoadPerByte ==
    [][ LET loaded == resetn /\ dat_sel /\ wstrb = {} /\ ready
        IN  /\ recv_buf # None /\ recv_buf' # recv_buf /\ resetn /\ ~arrives =>
                   loaded /\ rdata = Lowest(recv_buf)
            /\ loaded /\ ~arrives => recv_buf' = None
      ]_vars

(* Every byte whose store is acknowledged goes out on the line, once and   *)
(* in order, also when the store was stalled behind another byte.          *)
Line == INSTANCE SerialLink WITH
    Bytes <- {r.wdata[0] : r \in Requests}, Garbage <- {}, Torn <- None,
    box <- recv_buf
ImplementsLink == Line!Spec

(* Every transfer to an address of the memory map is acknowledged: the     *)
(* stall of the transmitter ends.                                          *)
Served == valid /\ addr # Hole ~> ~valid
=============================================================================

---------------------------- MODULE SocBus_proofs ----------------------------
(***************************************************************************)
(* The block RAM behind the bus is a memory as the core expects one, for   *)
(* any number of words, any width and any requests: there only the         *)
(* handshake matters.  The serial line of the board carries its bytes in   *)
(* order, for any divider: the board is both ends of the line of           *)
(* UartLink, whose theorem is used here.                                   *)
(***************************************************************************)
EXTENDS SocBus, TLAPS

(* While the RAM answers, the request it answers is still up, the word     *)
(* has been written, and old holds what the load returns.                  *)
RamInv ==
    /\ ram_ready \in BOOLEAN
    /\ addr \in RamAddresses \cup Registers \cup {Hole}
    /\ wstrb \in SUBSET Lanes /\ wdata \in Word
    /\ mem \in [RamAddresses -> Word]
    /\ ram_ready =>
        /\ ram_sel
        /\ old \in Word
        /\ mem[addr] = Merged(old, wstrb, wdata)
        /\ wstrb = {} => ram_data = mem[addr]

(* A byte that has a strobe is stored, the others stay.                    *)
LEMMA MergedType ==
    ASSUME NEW w \in Word, NEW lanes, NEW data \in Word
    PROVE  Merged(w, lanes, data) \in Word
BY DEF Merged, Word

LEMMA MergedNothing ==
    ASSUME NEW w \in Word, NEW data
    PROVE  Merged(w, {}, data) = w
BY DEF Merged, Word

LEMMA ZeroType == Zero \in Word
<1>1. [k \in 1 .. 8 |-> 0] \in Byte
    BY DEF Byte
<1> QED BY <1>1 DEF Zero, Lowest, Word

LEMMA RequestType ==
    ASSUME NEW r \in Requests
    PROVE  /\ r.addr \in RamAddresses \cup Registers \cup {Hole}
           /\ r.wstrb \in SUBSET Lanes /\ r.wdata \in Word
BY RequestAssumption

LEMMA RamInit == Init => RamInv
<1> SUFFICES ASSUME Init PROVE RamInv
    OBVIOUS
<1>1. PICK r \in Requests : addr = r.addr /\ wstrb = r.wstrb /\ wdata = r.wdata
    BY DEF Init
<1> QED BY <1>1, RequestType, ZeroType DEF Init, RamInv

(* No register answers for the RAM, and the RAM for no register.           *)
LEMMA RamAnswersItself == ram_sel => (ready <=> ram_ready)
BY AddressAssumption
   DEF ram_sel, ready, div_sel, dat_sel, status_sel, result_sel, print_sel,
       Registers

LEMMA RamStep == RamInv /\ [Edge]_vars => RamInv'
<1> SUFFICES ASSUME RamInv, [Edge]_vars PROVE RamInv'
    OBVIOUS
<1>1. CASE UNCHANGED vars
    BY <1>1 DEF vars, request, ramRegs, RamInv, ram_sel
<1>2. CASE Edge
  <2> USE <1>2 DEF Edge
  <2>1. CASE RamServe
    <3>1. /\ resetn /\ valid /\ addr \in RamAddresses /\ ~ram_ready
          /\ ram_ready' = TRUE /\ ram_data' = mem[addr]
          /\ mem' = [mem EXCEPT ![addr] = Merged(mem[addr], wstrb, wdata)]
        BY <2>1 DEF RamServe, ram_sel
    <3>2. valid' /\ UNCHANGED <<addr, wstrb, wdata>>
        BY <3>1, RamAnswersItself
           DEF Master, Raise, Idle, Hold, Finish, Withdraw, request, ram_sel
    <3>3. mem[addr] \in Word
        BY <3>1 DEF RamInv
    <3>4. old' = mem[addr]
        BY <3>1 DEF History, ram_sel
    <3>5. Merged(mem[addr], wstrb, wdata) \in Word
        BY <3>3, MergedType DEF RamInv
    <3>6. mem' \in [RamAddresses -> Word]
        BY <3>1, <3>5 DEF RamInv
    <3>7. mem'[addr'] = Merged(old', wstrb', wdata')
        BY <3>1, <3>2, <3>4 DEF RamInv
    <3>8. wstrb' = {} => ram_data' = mem'[addr']
        BY <3>1, <3>2, <3>3, <3>4, <3>7, MergedNothing
    <3>9. Merged(old, wstrb, wdata)' = Merged(old', wstrb', wdata')
        BY DEF Merged
    <3> QED BY <3>1, <3>2, <3>3, <3>4, <3>6, <3>7, <3>8, <3>9
               DEF RamInv, ram_sel
  <2>2. CASE RamIdle
    <3>1. ram_ready' = FALSE /\ mem' = mem
        BY <2>2 DEF RamIdle
    <3>2. /\ addr' \in RamAddresses \cup Registers \cup {Hole}
          /\ wstrb' \in SUBSET Lanes /\ wdata' \in Word
      <4>1. CASE UNCHANGED <<addr, wstrb, wdata>>
          BY <4>1 DEF RamInv
      <4>2. CASE \E r \in Requests :
                    addr' = r.addr /\ wstrb' = r.wstrb /\ wdata' = r.wdata
          BY <4>2, RequestType
      <4> QED BY <4>1, <4>2
                 DEF Master, Raise, Idle, Hold, Finish, Withdraw, request
    <3> QED BY <3>1, <3>2 DEF RamInv
  <2> QED BY <2>1, <2>2 DEF Ram
<1> QED BY <1>1, <1>2

LEMMA RamAlways == OpenSpec => []RamInv
BY RamInit, RamStep, PTL DEF OpenSpec

(* A step of the bus is a step of the abstract memory: serving a request   *)
(* changes nothing that has been acknowledged, acknowledging it does.      *)
LEMMA RefineStep == RamInv /\ RamInv' /\ [Edge]_vars => [Memory!Next]_(Memory!vars)
<1> SUFFICES ASSUME RamInv, RamInv', [Edge]_vars
             PROVE  [Memory!Next]_(Memory!vars)
    OBVIOUS
<1>1. CASE UNCHANGED vars
  <2>1. UNCHANGED <<resetn, valid, addr, wstrb, wdata, mem, ram_ready, ram_data,
                    result, cfg_divider, recv_buf, send_bitcnt, send_dummy, old>>
      BY <1>1 DEF vars, request, ramRegs, Uart!recvRegs, Uart!sendRegs
  <2>2. UNCHANGED <<ram_sel, Settled>>
      BY <2>1 DEF ram_sel, Settled
  <2>3. UNCHANGED ready
      BY <2>1
         DEF ready, div_sel, dat_sel, status_sel, result_sel, print_sel,
             Uart!reg_dat_wait, dat_we
  <2>4. UNCHANGED rdata
      BY <2>1 DEF rdata, div_sel, dat_sel, status_sel, div_data, dat_data
  <2> QED BY <2>1, <2>2, <2>3, <2>4 DEF Memory!vars, Memory!inputs
<1>2. CASE Edge
  <2> USE <1>2 DEF Edge
  <2>1. CASE ram_sel /\ ram_ready
    <3>1. ready
        BY <2>1 DEF ready
    <3>2. ~valid'
        BY <2>1, <3>1 DEF Master, Raise, Idle, Hold, Finish, Withdraw, ram_sel
    <3>3. ram_ready' = FALSE /\ mem' = mem
        BY <2>1 DEF Ram, RamServe, RamIdle
    <3>4. Settled' = mem /\ Settled = [mem EXCEPT ![addr] = old]
        BY <2>1, <3>3 DEF Settled
    <3>5. addr \in RamAddresses
        BY <2>1 DEF ram_sel
    <3>6. [Settled EXCEPT ![addr] = Merged(old, wstrb, wdata)] = mem
        BY <2>1, <3>4, <3>5 DEF RamInv
    <3>7. Settled[addr] = old
        BY <3>4, <3>5 DEF RamInv
    <3>8. Memory!Stored = mem
        BY <3>6, <3>7 DEF Memory!Stored
    <3>9. wstrb = {} => Settled = mem
      <4>1. wstrb = {} => mem[addr] = old
          BY <2>1, MergedNothing DEF RamInv
      <4> QED BY <4>1, <3>4, <3>5 DEF RamInv
    <3>10. Memory!Store
        BY <2>1, <3>1, <3>4, <3>8, <3>9 DEF Memory!Store
    <3>11. Memory!Answer
        BY <3>2 DEF Memory!Answer, ram_sel
    <3> QED BY <3>10, <3>11 DEF Memory!Next
  <2>2. CASE ram_sel /\ ~ram_ready
    <3>1. ~ready
        BY <2>2, RamAnswersItself
    <3>2. Settled = mem
        BY <2>2 DEF Settled
    <3>3. CASE RamServe
      <4>1. /\ ram_ready' = TRUE /\ ram_data' = mem[addr]
            /\ mem' = [mem EXCEPT ![addr] = Merged(mem[addr], wstrb, wdata)]
            /\ resetn /\ addr \in RamAddresses
          BY <3>3 DEF RamServe, ram_sel
      <4>2. UNCHANGED <<addr, wstrb, wdata>>
          BY <2>2, <3>1, <4>1
             DEF Master, Raise, Idle, Hold, Finish, Withdraw, request, ram_sel
      <4>3. old' = mem[addr]
          BY <2>2, <4>1 DEF History
      <4>4. Settled' = [mem' EXCEPT ![addr] = mem[addr]]
          BY <4>1, <4>2, <4>3 DEF Settled
      <4>5. Settled' = mem
          BY <4>1, <4>4 DEF RamInv
      <4>6. Memory!Store
          BY <3>1, <3>2, <4>5 DEF Memory!Store
      <4>7. rdata' = mem[addr]
          BY <4>1 DEF rdata
      <4>8. Memory!Answer
          BY <4>1, <4>2, <4>5, <4>7 DEF Memory!Answer
      <4> QED BY <4>6, <4>8 DEF Memory!Next
    <3>4. CASE RamIdle
      <4>1. ~resetn /\ ram_ready' = FALSE /\ mem' = mem
          BY <2>2, <3>4 DEF RamIdle
      <4>2. ~valid'
          BY <2>2, <4>1
             DEF Master, Raise, Idle, Hold, Finish, Withdraw, ram_sel
      <4>3. Memory!Store
          BY <3>1, <3>2, <4>1 DEF Memory!Store, Settled
      <4>4. Memory!Answer
          BY <4>2 DEF Memory!Answer, ram_sel
      <4> QED BY <4>3, <4>4 DEF Memory!Next
    <3> QED BY <3>3, <3>4 DEF Ram
  <2>3. CASE ~ram_sel
    <3>1. ~ram_ready /\ ram_ready' = FALSE /\ mem' = mem
        BY <2>3 DEF RamInv, Ram, RamServe, RamIdle
    <3>2. Memory!Store
        BY <2>3, <3>1 DEF Memory!Store, Settled
    <3>3. ram_sel' => ~ready'
        BY <3>1, AddressAssumption
           DEF ram_sel, ready, div_sel, dat_sel, status_sel, result_sel,
               print_sel, Registers
    <3>4. Memory!Answer
        BY <3>3 DEF Memory!Answer
    <3> QED BY <3>2, <3>4 DEF Memory!Next
  <2> QED BY <2>1, <2>2, <2>3
<1> QED BY <1>1, <1>2

LEMMA RefineInit == Init => Memory!Init
BY DEF Init, Memory!Init, Settled

(* Whatever the requests, and with resets at any edge, the bus with the    *)
(* block RAM implements the memory that the model of the core relies on    *)
(* (soc_bram.v, xpix_soc.v): loads see the last acknowledged store.        *)
THEOREM BusIsMemory == OpenSpec => ImplementsMemory
<1>1. Init => Memory!Init
    BY RefineInit
<1>2. RamInv /\ RamInv' /\ [Edge]_vars => [Memory!Next]_(Memory!vars)
    BY RefineStep
<1> QED BY <1>1, <1>2, RamAlways, PTL
           DEF OpenSpec, ImplementsMemory, Memory!Spec
-----------------------------------------------------------------------------
(* A byte in the receive buffer never looks like an empty one: its upper   *)
(* lanes are zero.                                                         *)
LEMMA ByteIsNotEmpty == \A b : Lowest(b) # AllOnes
<1> SUFFICES ASSUME NEW b, Lowest(b) = AllOnes PROVE FALSE
    OBVIOUS
<1>1. PICK l \in Lanes : l # 0
    BY LanesAssumption
<1>2. Lowest(b)[l] = [k \in 1 .. 8 |-> 0]
    BY <1>1 DEF Lowest
<1>3. AllOnes[l] = [k \in 1 .. 8 |-> 1]
    BY <1>1 DEF AllOnes
<1>4. [k \in 1 .. 8 |-> 0][1] # [k \in 1 .. 8 |-> 1][1]
    OBVIOUS
<1> QED BY <1>2, <1>3, <1>4

(* An acknowledgement belongs to the request that is up, and a load gets   *)
(* what it addresses, for any map of the RAM and any program.              *)
THEOREM AnswersAreCurrent == OpenSpec => []AnswersThisRequest
<1>1. RamInv => AnswersThisRequest
  <2> SUFFICES ASSUME RamInv PROVE AnswersThisRequest
      OBVIOUS
  <2>1. ram_ready => ram_sel
      BY DEF RamInv
  <2>2. ready => valid
      BY <2>1
         DEF ready, ram_sel, div_sel, dat_sel, status_sel, result_sel,
             print_sel
  <2>3. ASSUME valid, ready, wstrb = {}, addr \in RamAddresses
        PROVE  rdata = mem[addr]
    <3>1. ram_ready
        BY <2>3, RamAnswersItself DEF ram_sel
    <3> QED BY <2>3, <3>1 DEF RamInv, rdata
  <2>4. addr \in Registers => ~ram_ready
      BY <2>1, AddressAssumption DEF ram_sel
  <2>5. valid /\ addr = "dat" => rdata = dat_data
      BY <2>4 DEF rdata, div_sel, dat_sel, Registers
  <2>6. valid /\ addr = "status" =>
            rdata = IF recv_buf # None THEN One ELSE Zero
      BY <2>4, ByteIsNotEmpty
         DEF rdata, div_sel, dat_sel, status_sel, Registers, dat_data
  <2>7. valid /\ addr = "result" => rdata = result
      BY <2>4 DEF rdata, div_sel, dat_sel, status_sel, Registers
  <2> QED BY <2>1, <2>2, <2>3, <2>5, <2>6, <2>7 DEF AnswersThisRequest
<1> QED BY <1>1, RamAlways, PTL
-----------------------------------------------------------------------------
loaded == resetn /\ dat_sel /\ wstrb = {} /\ ready

LoadStep ==
    /\ recv_buf # None /\ recv_buf' # recv_buf /\ resetn /\ ~arrives =>
           loaded /\ rdata = Lowest(recv_buf)
    /\ loaded /\ ~arrives => recv_buf' = None

(* A load of the data register is never stalled, so that it takes the byte *)
(* in the cycle in which it returns it: a received byte leaves the buffer  *)
(* with one load, is overwritten by the next byte or is reset, whatever    *)
(* the program on the bus does.                                            *)
THEOREM BytesAreLoadedOnce == OpenSpec => OneLoadPerByte
<1>1. RamInv /\ [Edge]_vars => [LoadStep]_vars
  <2> SUFFICES ASSUME RamInv, Edge PROVE LoadStep
      OBVIOUS
  <2>1. dat_re => ready
      BY DEF dat_re, ready, Uart!reg_dat_wait, dat_we
  <2>2. dat_sel => rdata = dat_data
      BY AddressAssumption
         DEF RamInv, ram_sel, dat_sel, rdata, div_sel, Registers
  <2>3. resetn /\ ~arrives => recv_buf' = IF dat_re THEN None ELSE recv_buf
      BY DEF Edge, Uart!Edge, Uart!Receiver, Uart!RecvReset, Uart!RecvIdle,
             Uart!RecvStart, Uart!RecvData, Uart!RecvStop,
             Uart!BufferAfterRead, arrives
  <2> QED BY <2>1, <2>2, <2>3 DEF LoadStep, loaded, dat_re, dat_data
<1>2. OneLoadPerByte <=> [][LoadStep]_vars
    BY DEF OneLoadPerByte, LoadStep, loaded
<1> QED BY <1>1, <1>2, RamAlways, PTL DEF OpenSpec

-----------------------------------------------------------------------------
(* The UART of the board, with its line looped back, as the two ends of a  *)
(* line of UartLink: one divider at both, and one reset.                   *)
OneBoard == [rx_div |-> UART_DIV, tx_divs |-> {UART_DIV}, resets |-> TRUE]
(* The store of the divider register (xpix_soc.v).                         *)
div_we == div_sel /\ wstrb # {}

Uarts == INSTANCE UartLink_proofs WITH
    Links <- {OneBoard}, link <- OneBoard,
    DefaultDiv <- UART_DIV, tx_div <- cfg_divider,
    Bytes <- {r.wdata[0] : r \in Requests}, Torn <- None,
    put <- IF dat_we THEN wdata[0] ELSE None,
    setdiv <- IF div_we THEN UART_DIV ELSE None

(* A board is in step with itself: a bit is as long at both ends, and the  *)
(* receiver looks half a bit after the start of each.                      *)
LEMMA UartAssumptions ==
    /\ Uarts!BytesAssumption /\ Uarts!WidthAssumption /\ Uarts!LinksAssumption
<1>1. Uarts!BytesAssumption
  <2>1. ASSUME NEW r \in Requests PROVE r.wdata[0] \in Byte
    BY RequestAssumption, LanesAssumption DEF Word
  <2> QED BY <2>1 DEF Uarts!BytesAssumption, Byte, Uarts!Byte
<1>2. Uarts!LinksAssumption
  <2> DEFINE d == UART_DIV
  <2>1. d \in Nat /\ d >= 1 /\ d + 2 < 2 ^ CounterBits
    BY UartAssumption
  <2>2. Uarts!Divs(OneBoard) = {d}
    BY DEF Uarts!Divs, OneBoard
  <2>3. ASSUME NEW k \in 1 .. 9
        PROVE  Uarts!SampledAt(OneBoard, k)
                   \in k * (d + 2) .. (k + 1) * (d + 2) - 1
    <3>1. d \div 2 \in Nat /\ 2 * (d \div 2) <= d
      BY <2>1
    <3>2. Uarts!SampledAt(OneBoard, k) = d \div 2 + 2 + k * (d + 2)
      BY DEF Uarts!SampledAt, OneBoard
    <3>3. (k + 1) * (d + 2) = k * (d + 2) + (d + 2) /\ k * (d + 2) \in Int
      BY <2>1
    <3> HIDE DEF d
    <3> QED BY <2>1, <3>1, <3>2, <3>3
  <2>4. OneBoard.rx_div = d /\ OneBoard.tx_divs = {d}
    BY DEF OneBoard
  <2> HIDE DEF d
  <2> QED BY <2>1, <2>2, <2>3, <2>4 DEF Uarts!LinksAssumption, d
<1>3. Uarts!WidthAssumption
  BY UartAssumption DEF Uarts!WidthAssumption
<1> QED BY <1>1, <1>2, <1>3

(* The bytes the program stores.                                           *)
Stored == {r.wdata[0] : r \in Requests}

(* The reset comes when the line is quiet, and the divider is never given  *)
(* another value.                                                          *)
UartInv ==
    /\ RamInv
    /\ resetn \in BOOLEAN /\ (resetn \/ LineQuiet)
    /\ wdata[0] \in Stored
    /\ cfg_divider = UART_DIV
    /\ flight \in Seq(Stored)

(* It holds in the beginning,                                              *)
LEMMA UartInvInit == Init => UartInv
<1> SUFFICES ASSUME Init PROVE UartInv
  OBVIOUS
<1>1. wdata[0] \in Stored
  BY DEF Init, Stored
<1>2. resetn \in BOOLEAN /\ LineQuiet /\ cfg_divider = UART_DIV
  BY DEF Init, LineQuiet
<1>3. flight \in Seq(Stored)
  BY DEF Init
<1> QED BY <1>1, <1>2, <1>3, RamInit DEF UartInv

(* and every edge keeps it.                                                *)
LEMMA UartInvStep == UartInv /\ [Next]_vars => UartInv'
<1> SUFFICES ASSUME UartInv, [Next]_vars PROVE UartInv'
  OBVIOUS
<1>1. RamInv'
  BY RamStep DEF UartInv, Next
<1>2. CASE Next
  <2>1. Edge /\ resetn' \in BOOLEAN /\ (resetn' \/ LineQuiet')
    BY <1>2 DEF Next, Edge
  <2>2. wdata'[0] \in Stored
    <3>1. UNCHANGED wdata \/ \E r \in Requests : wdata' = r.wdata
      BY <2>1 DEF Edge, Master, Raise, Idle, Hold, Finish, Withdraw, request
    <3> QED BY <3>1 DEF UartInv, Stored
  <2>3. cfg_divider' = UART_DIV
    BY <2>1 DEF Edge, Uart!Edge, Uart!Divider, UartInv
  <2>4. flight' \in Seq(Stored)
    <3> DEFINE rest == IF arrives /\ flight # <<>> THEN Tail(flight) ELSE flight
    <3>1. rest \in Seq(Stored)
      BY DEF UartInv
    <3>2. flight' \in {rest, Append(rest, wdata[0])}
      BY <2>1 DEF Edge, History
    <3> HIDE DEF rest
    <3> QED BY <3>1, <3>2 DEF UartInv
  <2> QED BY <1>1, <2>1, <2>2, <2>3, <2>4 DEF UartInv
<1>3. CASE UNCHANGED vars
  BY <1>1, <1>3
     DEF UartInv, LineQuiet, vars, request, ramRegs, Uart!recvRegs,
         Uart!sendRegs
<1> QED BY <1>2, <1>3

(* An edge of the board is one of the two ends of the line.                *)
LEMMA UartEdge ==
    ASSUME UartInv, UartInv', Next
    PROVE  Uarts!Edge(resetn, resetn, dat_re)
<1> DEFINE byte == IF dat_we THEN wdata[0] ELSE None
           div == IF div_we THEN UART_DIV ELSE None
<1>1. /\ Master /\ Uart!Edge /\ Synchroniser /\ History
      /\ resetn \in BOOLEAN /\ (resetn \/ LineQuiet)
  BY DEF Next, Edge, UartInv
<1>2. /\ dat_we => wdata[0] # None /\ byte = wdata[0]
      /\ byte # None <=> dat_we
      /\ div # None <=> div_we
      /\ UART_DIV # None
  <2>1. wdata[0] # None
    BY NoneAssumption, LanesAssumption DEF UartInv, RamInv, Word
  <2> QED BY <2>1, NoneAssumption
<1>3. /\ cfg_divider = UART_DIV /\ ~(dat_we /\ div_we)
      /\ OneBoard.resets /\ OneBoard.rx_div = UART_DIV
      /\ OneBoard.tx_divs = {UART_DIV}
  BY DEF UartInv, OneBoard, dat_we, div_we, dat_sel, div_sel
<1>4. Uarts!Tx(resetn)!Divider
  BY <1>1, <1>2, <1>3 DEF Uart!Edge, Uart!Divider, Uarts!Tx!Divider, div_we
<1>5. Uarts!Tx(resetn)!Transmitter
  <2>1. Uart!Transmitter
    BY <1>1 DEF Uart!Edge
  <2>2. Uart!SendReset => Uarts!Tx(resetn)!SendReset
    BY DEF Uart!SendReset, Uarts!Tx!SendReset, Uart!Quiet, Uarts!Tx!Quiet
  <2>3. Uart!SendDummy => Uarts!Tx(resetn)!SendDummy
    BY DEF Uart!SendDummy, Uarts!Tx!SendDummy, Uart!Quiet, Uarts!Tx!Quiet
  <2>4. Uart!SendByte => Uarts!Tx(resetn)!SendByte
    BY <1>2 DEF Uart!SendByte, Uarts!Tx!SendByte, div_we
  <2>5. Uart!SendShift => Uarts!Tx(resetn)!SendShift
    BY <1>2 DEF Uart!SendShift, Uarts!Tx!SendShift, div_we
  <2>6. Uart!SendCount => Uarts!Tx(resetn)!SendCount
    BY <1>2
       DEF Uart!SendCount, Uarts!Tx!SendCount, Uart!NextSend,
           Uarts!Tx!NextSend, div_we
  <2> QED BY <2>1, <2>2, <2>3, <2>4, <2>5, <2>6
             DEF Uart!Transmitter, Uarts!Tx!Transmitter
<1>6. Uarts!Rx(resetn, dat_re)!Receiver
  <2>1. Uart!Receiver
    BY <1>1 DEF Uart!Edge
  <2> QED BY <2>1, <1>3
             DEF Uart!Receiver, Uart!RecvReset, Uart!RecvIdle, Uart!RecvStart,
                 Uart!RecvData, Uart!RecvStop, Uart!HalfBit, Uart!FullBit,
                 Uart!BufferAfterRead, Uart!NextRecv, Uarts!Rx!Receiver,
                 Uarts!Rx!RecvReset, Uarts!Rx!RecvIdle, Uarts!Rx!RecvStart,
                 Uarts!Rx!RecvData, Uarts!Rx!RecvStop, Uarts!Rx!HalfBit,
                 Uarts!Rx!FullBit, Uarts!Rx!BufferAfterRead, Uarts!Rx!NextRecv
<1>7. Uarts!Synchroniser
  BY <1>1
     DEF Synchroniser, Uarts!Synchroniser, Uart!ser_tx, Uarts!ser_tx,
         Uarts!Tx!ser_tx
<1>8. Uarts!reg_dat_wait <=> Uart!reg_dat_wait
  BY <1>2 DEF Uarts!reg_dat_wait, Uarts!Tx!reg_dat_wait, Uart!reg_dat_wait
<1>9. dat_sel => (ready <=> ~Uart!reg_dat_wait)
  BY AddressAssumption
     DEF UartInv, RamInv, ram_sel, ready, dat_sel, div_sel, status_sel,
         result_sel, print_sel, Registers
<1>10. Uarts!Store(resetn)
  <2>1. CASE resetn /\ Uart!reg_dat_wait
    <3>1. valid /\ ~ready /\ addr = "dat"
      BY <1>9, <2>1 DEF Uart!reg_dat_wait, dat_we, dat_sel
    <3>2. valid' = valid /\ UNCHANGED <<addr, wstrb, wdata>>
      BY <1>1, <2>1, <3>1
         DEF Master, Raise, Idle, Hold, Finish, Withdraw, request
    <3>3. byte' = byte /\ div' = div
      BY <3>2 DEF dat_we, dat_sel, div_we, div_sel
    <3> QED BY <1>8, <2>1, <3>3 DEF Uarts!Store
  <2>2. CASE ~(resetn /\ Uart!reg_dat_wait)
    <3>1. byte' \in Stored \cup {None} /\ div' \in {UART_DIV} \cup {None}
      BY DEF UartInv
    <3>2. byte' = None \/ div' = None
      BY DEF dat_we, div_we, dat_sel, div_sel
    <3>3. ~resetn => byte' = None /\ div' = None
      <4>1. ~resetn => ~valid'
        BY <1>1 DEF Master, Raise, Idle, Hold, Finish, Withdraw
      <4> QED BY <4>1 DEF dat_we, div_we, dat_sel, div_sel
    <3> QED BY <1>3, <1>8, <2>2, <3>1, <3>2, <3>3 DEF Uarts!Store, Stored
  <2> QED BY <2>1, <2>2
<1>11. Uarts!arrives <=> arrives
  BY <1>3
     DEF Uarts!arrives, Uarts!FullBit, Uarts!Rx!FullBit, arrives, Uart!FullBit
<1>12. Uarts!History(resetn)
  <2> DEFINE rest == IF arrives /\ flight # <<>> THEN Tail(flight) ELSE flight
  <2>1. flight' = IF resetn /\ dat_we /\ ready THEN Append(rest, wdata[0])
                  ELSE rest
    BY <1>1 DEF History, dat_we
  <2>2. resetn /\ dat_we /\ ready
            <=> resetn /\ byte # None /\ ~Uarts!reg_dat_wait
    BY <1>2, <1>8, <1>9 DEF dat_we
  <2>3. ~resetn => rest = <<>>
    BY <1>1 DEF LineQuiet
  <2>4. flight' = IF resetn /\ byte # None /\ ~Uarts!reg_dat_wait
                  THEN Append(rest, byte)
                  ELSE IF ~resetn /\ Uarts!cut /\ rest # <<>>
                  THEN [rest EXCEPT ![Len(rest)] = None] ELSE rest
    <3> HIDE DEF rest
    <3> QED BY <1>2, <2>1, <2>2, <2>3
  <2> QED BY <1>11, <2>4 DEF Uarts!History
<1>13. resetn \/ Uarts!LineQuiet
  BY <1>1 DEF LineQuiet, Uarts!LineQuiet
<1> QED BY <1>3, <1>4, <1>5, <1>6, <1>7, <1>10, <1>12, <1>13 DEF Uarts!Edge

(* The board starts as the two ends do,                                    *)
LEMMA UartsInit == Init => Uarts!Init
<1> SUFFICES ASSUME Init PROVE Uarts!Init
  OBVIOUS
<1>1. ~dat_we /\ ~div_we
  BY DEF Init, dat_we, div_we, dat_sel, div_sel
<1> QED BY <1>1 DEF Init, Uarts!Init, OneBoard

(* and every edge of it is one of theirs.                                  *)
LEMMA UartsStep ==
    UartInv /\ UartInv' /\ [Next]_vars => [Uarts!Next]_(Uarts!vars)
<1> SUFFICES ASSUME UartInv, UartInv', [Next]_vars
             PROVE  [Uarts!Next]_(Uarts!vars)
  OBVIOUS
<1>1. CASE Next
  <2>1. resetn \in BOOLEAN /\ dat_re \in BOOLEAN
    BY DEF UartInv, dat_re, dat_sel
  <2> QED BY <1>1, <2>1, UartEdge DEF Uarts!Next
<1>2. CASE UNCHANGED vars
  <2>1. UNCHANGED <<valid, addr, wstrb, wdata, cfg_divider, recv_state,
                    recv_divcnt, recv_pattern, recv_buf, send_pattern,
                    send_bitcnt, send_divcnt, send_dummy, rx_sync, flight>>
    BY <1>2 DEF vars, request, Uart!recvRegs, Uart!sendRegs
  <2> QED BY <2>1
             DEF Uarts!vars, Uarts!Tx!sendRegs, Uarts!Rx!recvRegs, dat_we,
                 div_we, dat_sel, div_sel
<1> QED BY <1>1, <1>2

(* Without a spoilt byte nothing but the bytes sent is received.           *)
LEMMA LineStep ==
    UartInv /\ UartInv' /\ [Uarts!Link!Next]_(Uarts!Link!vars)
        => [Line!Next]_(Line!vars)
<1> SUFFICES ASSUME UartInv, UartInv', Uarts!Link!Next PROVE Line!Next
  BY DEF Uarts!Link!vars, Line!vars
<1>1. PICK rest \in {flight, IF flight = <<>> THEN flight ELSE Tail(flight)} :
        /\ \/ Uarts!Link!Receive(rest) \/ Uarts!Link!Read(rest)
           \/ Uarts!Link!Still(rest)
        /\ Uarts!Link!Send(rest) \/ Uarts!Link!Spoil(rest) \/ flight' = rest
  BY DEF Uarts!Link!Next
<1>2. None \notin Stored
  <2>1. \A r \in Requests : r.wdata[0] \in Byte
    BY RequestAssumption, LanesAssumption DEF Word
  <2> QED BY <2>1, NoneAssumption DEF Stored
<1>3. flight \in Seq(Stored) /\ flight' \in Seq(Stored) /\ rest \in Seq(Stored)
  <2>1. flight # <<>> => Tail(flight) \in Seq(Stored)
    BY DEF UartInv
  <2> QED BY <1>1, <2>1 DEF UartInv
<1>4. Line!Receive(rest) \/ Line!Read(rest) \/ Line!Still(rest)
  <2>1. flight # <<>> => Head(flight) # None
    BY <1>2, <1>3
  <2> QED BY <1>1, <2>1
             DEF Uarts!Link!Receive, Uarts!Link!Read, Uarts!Link!Still,
                 Line!Receive, Line!Read, Line!Still
<1>5. Line!Send(rest) \/ Line!Spoil(rest) \/ flight' = rest
  BY <1>1 DEF Uarts!Link!Send, Uarts!Link!Spoil, Line!Send, Line!Spoil
<1> QED BY <1>1, <1>4, <1>5 DEF Line!Next

(* What the program stores at the data register it loads there, byte for   *)
(* byte and in order, for any requests and any divider the board is built  *)
(* with (xpix_soc.v, simpleuart.v): a store waits until the sender takes   *)
(* it, and nothing is received that was not stored.                        *)
THEOREM BoardImplementsLink == Spec => ImplementsLink
<1>1. Spec => []UartInv
  BY UartInvInit, UartInvStep, PTL DEF Spec
<1>2. Spec => Uarts!Spec
  BY <1>1, UartsInit, UartsStep, PTL DEF Spec, Uarts!Spec
<1>3. Uarts!Spec => Uarts!Link!Spec
  BY UartAssumptions, Uarts!LineImplementsLink DEF Uarts!ImplementsLink
<1>4. Uarts!Link!Init => Line!Init
  BY DEF Uarts!Link!Init, Line!Init
<1> QED BY <1>1, <1>2, <1>3, <1>4, LineStep, PTL
           DEF ImplementsLink, Line!Spec, Uarts!Link!Spec
==============================================================================

-------------------------- MODULE XPixPcpi_proofs --------------------------
(* Proofs about the coprocessor and its handshake, for bytes of any size   *)
(* and any lanes.                                                          *)
EXTENDS XPixPcpi, XPixLanes_proofs

(* A packed operation yields a word.                                       *)
LEMMA PackedType ==
    ASSUME NEW x \in Word, NEW y \in Word, NEW f \in Nat
    PROVE  Packed(x, y, f) \in Word
  <1>1. \A l \in Lanes : Lane(x[l], y[l], f) \in Byte
    BY LaneType DEF Word
  <1> QED BY <1>1 DEF Packed, Word

LEMMA ZeroType == Zero \in Word
  BY TopAssumption DEF Zero, Word, Byte

(* The registers and the port keep their types.                            *)
LEMMA TypePreserved == TypeOK /\ [Next]_vars => TypeOK'
  <1> SUFFICES ASSUME TypeOK, [Next]_vars PROVE TypeOK'
    OBVIOUS
  <1>1. CASE Next
    <2>1. (state \in States /\ a \in Word /\ b \in Word
           /\ pcpi_rd \in Word /\ op \in 0 .. 7)'
      <3> USE DEF TypeOK, States
      <3>1. CASE EdgeReset
        BY <3>1, ZeroType DEF EdgeReset
      <3>2. CASE EdgeAbort
        BY <3>2 DEF EdgeAbort
      <3>3. CASE EdgeLatch
        BY <3>3 DEF EdgeLatch, Insn
      <3>4. CASE EdgeIgnore
        BY <3>4 DEF EdgeIgnore, regs
      <3>5. CASE EdgeExecute
        <4>1. a \in Word /\ b \in Word /\ op \in Nat
          OBVIOUS
        <4>2. Packed(a, b, op) \in Word
          BY <4>1, PackedType
        <4> QED BY <3>5, <4>2 DEF EdgeExecute
      <3>6. CASE EdgeFinish
        BY <3>6 DEF EdgeFinish
      <3> QED BY <1>1, <3>1, <3>2, <3>3, <3>4, <3>5, <3>6
              DEF Next, Coprocessor
    <2>2. (/\ pcpi_valid \in BOOLEAN /\ pcpi_insn \in Insn
           /\ pcpi_rs1 \in Word /\ pcpi_rs2 \in Word
           /\ offered \in 0 .. MaxOffered)'
      <3> USE DEF TypeOK, MaxOffered
      <3>1. CASE Offer
        BY <3>1 DEF Offer
      <3>2. CASE Quiet
        BY <3>2 DEF Quiet, request
      <3>3. CASE Hold
        BY <3>3 DEF Hold, request
      <3>4. CASE Drop
        <4>1. /\ pcpi_insn' = pcpi_insn /\ pcpi_rs1' = pcpi_rs1
              /\ pcpi_rs2' = pcpi_rs2
          BY <3>4 DEF Drop, request
        <4>2. pcpi_valid' \in BOOLEAN /\ offered' = 0
          BY <3>4 DEF Drop
        <4> QED BY <4>1, <4>2
      <3> QED BY <1>1, <3>1, <3>2, <3>3, <3>4 DEF Next, Master
    <2> QED BY <1>1, <2>1, <2>2 DEF Next, TypeOK
  <1>2. CASE UNCHANGED vars
    BY <1>2 DEF vars, regs, request, TypeOK
  <1> QED BY <1>1, <1>2

(* While a request stays up the latched operands remain those on the port, *)
(* and the state of the coprocessor counts the edges it has been up.       *)
LEMMA LatchedPreserved ==
    TypeOK /\ Latched /\ IdleFresh /\ Next => Latched' /\ IdleFresh'
  <1> SUFFICES ASSUME TypeOK, Latched, IdleFresh, Next
               PROVE  Latched' /\ IdleFresh'
    OBVIOUS
  <1>1. CASE Drop
    BY <1>1 DEF Drop, Latched, IdleFresh
  <1>2. CASE Quiet
    BY <1>2 DEF Quiet, Latched, IdleFresh
  <1>3. CASE Offer
    <2>1. state' = "IDLE"
      BY <1>3 DEF Next, Coprocessor, Offer, EdgeReset, EdgeAbort, EdgeLatch,
                  EdgeIgnore, EdgeExecute, EdgeFinish
    <2> QED BY <1>3, <2>1 DEF Offer, Latched, IdleFresh
  <1>4. CASE Hold
    <2> /\ pcpi_valid /\ pcpi_valid' /\ ~pcpi_ready
        /\ pcpi_insn' = pcpi_insn /\ pcpi_rs1' = pcpi_rs1
        /\ pcpi_rs2' = pcpi_rs2 /\ legal' = legal
        /\ offered' = IF ~resetn THEN 0 ELSE
                      IF offered < MaxOffered THEN offered + 1 ELSE offered
      BY <1>4 DEF Hold, request, legal
    <2>1. CASE EdgeReset
      BY <2>1 DEF EdgeReset, Latched, IdleFresh
    <2>2. CASE EdgeAbort
      BY <2>2 DEF EdgeAbort
    <2>3. CASE EdgeLatch
      BY <2>3 DEF EdgeLatch, Latched, IdleFresh, MaxOffered
    <2>4. CASE EdgeIgnore
      BY <2>4 DEF EdgeIgnore, regs, Latched, IdleFresh
    <2>5. CASE EdgeExecute
      <3>1. offered = 1 /\ legal /\ a = pcpi_rs1 /\ b = pcpi_rs2
            /\ op = pcpi_insn.funct3
        BY <2>5 DEF EdgeExecute, Latched
      <3> QED BY <2>5, <3>1 DEF EdgeExecute, Latched, IdleFresh, MaxOffered
    <2>6. CASE EdgeFinish
      BY <2>6 DEF EdgeFinish, pcpi_ready
    <2> QED BY <2>1, <2>2, <2>3, <2>4, <2>5, <2>6 DEF Next, Coprocessor
  <1> QED BY <1>1, <1>2, <1>3, <1>4 DEF Next, Master

(* The inductive invariant holds in every reachable state.                 *)
THEOREM Inductive == Spec => []IInv
  <1>1. Init => IInv
    <2>1. Init => TypeOK
      <3> SUFFICES ASSUME Init PROVE TypeOK
        OBVIOUS
      <3>1. resetn \in BOOLEAN /\ pcpi_valid \in BOOLEAN
        BY Zenon DEF Init
      <3>2. offered \in 0 .. MaxOffered
        BY DEF Init, MaxOffered
      <3> QED BY <3>1, <3>2 DEF Init, TypeOK
    <2>2. Init => Latched /\ IdleFresh
      BY DEF Init, Latched, IdleFresh
    <2> QED BY <2>1, <2>2 DEF IInv
  <1>2. IInv /\ [Next]_vars => IInv'
    <2>1. ASSUME IInv, UNCHANGED vars PROVE IInv'
      BY <2>1 DEF IInv, TypeOK, Latched, IdleFresh, legal, vars, regs, request
    <2> QED BY <2>1, TypePreserved, LatchedPreserved DEF IInv
  <1> QED BY <1>1, <1>2, PTL DEF Spec

(* An answer is always that of the request on the port: nothing latched    *)
(* for an aborted, reset or answered request ever reaches the CPU.         *)
THEOREM NoStaleAnswer == Spec => []AnswersCurrentRequest
  <1>1. IInv => AnswersCurrentRequest
    BY DEF IInv, TypeOK, Latched, AnswersCurrentRequest, pcpi_ready
  <1> QED BY <1>1, Inductive, PTL

(* A legal request is answered after two edges, no sooner and no later.    *)
THEOREM LatencyIsTwo == Spec => []FixedLatency
  <1>1. IInv => FixedLatency
    BY DEF IInv, TypeOK, States, Latched, IdleFresh, FixedLatency, pcpi_ready
  <1> QED BY <1>1, Inductive, PTL

(* The timeout of the CPU is held off for every legal request, and an      *)
(* instruction of another unit gets no reaction.                           *)
THEOREM WaitIsExact == Spec => []WaitExactlyForLegal
  <1>1. IInv => WaitExactlyForLegal
    BY DEF IInv, TypeOK, States, Latched, WaitExactlyForLegal,
           pcpi_ready, pcpi_wr, pcpi_wait
  <1> QED BY <1>1, Inductive, PTL
=============================================================================

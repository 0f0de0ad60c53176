----------------------------- MODULE PcpiMulDiv -----------------------------
(***************************************************************************)
(* The two coprocessors of ENABLE_MUL and ENABLE_DIV, picorv32_pcpi_mul     *)
(* (STEPS_AT_ONCE = 1) and picorv32_pcpi_div, one operator per module: the  *)
(* registers after a clock edge as a function of the registers and of the   *)
(* request before it.  A request is a record [valid, op, rs1, rs2]; "op" is *)
(* funct3 of an instruction with opcode OP and funct7 1.  resetn is high:   *)
(* Init is the state some edges of reset leave behind.                      *)
(*                                                                         *)
(* Words have W bits for the 32 of the source.  A register that nothing     *)
(* reads any more is 0, where the hardware keeps what the last operation     *)
(* left.                                                                    *)
(***************************************************************************)
EXTENDS Integers, Bitwise

CONSTANTS W,             \* the width of a word, 32 in the source
          CARRY_CHAIN    \* the bits the multiplier adds in one chain, 4

ASSUME WidthAssumption == W \in Nat \ {0} /\ CARRY_CHAIN \in Nat \ {0}
                          /\ W % CARRY_CHAIN = 0

MulOps == {"mul", "mulh", "mulhsu", "mulhu"}
DivOps == {"div", "divu", "rem", "remu"}
NoOp == "none"
NoRequest == [valid |-> FALSE, op |-> NoOp, rs1 |-> 0, rs2 |-> 0]

Word(n) == n % 2^W
Double(n) == n % 2^(2 * W)
Negative(v) == v >= 2^(W-1)
AsSigned(v) == IF Negative(v) THEN v - 2^W ELSE v
Magnitude(v) == IF Negative(v) THEN Word(-v) ELSE v

-----------------------------------------------------------------------------
(* The multiplier: a carry-save accumulator that adds one shifted copy of   *)
(* rs2 on each edge.                                                        *)
MulIdle ==
  [insn |-> NoOp, wait |-> FALSE, wait_q |-> FALSE, waiting |-> TRUE,
   rs1 |-> 0, rs2 |-> 0, rd |-> 0, rdx |-> 0, counter |-> 0,
   finish |-> FALSE, ready |-> FALSE, out |-> 0]

Chunk(v, c) == (v \div 2^(c * CARRY_CHAIN)) % 2^CARRY_CHAIN

(* One step of the accumulator: every chain adds its bits of rd, rdx and    *)
(* this_rs2; its carry out is a bit of next_rdx, one chain further up.      *)
Accumulate(m) ==
  LET this_rs2 == IF m.rs1 % 2 = 1 THEN m.rs2 ELSE 0
      sum[c \in 0 .. (2 * W) \div CARRY_CHAIN - 1] ==
        (Chunk(m.rd, c) + Chunk(m.rdx, c) + Chunk(this_rs2, c)) % 2^(CARRY_CHAIN + 1)
      low[c \in -1 .. (2 * W) \div CARRY_CHAIN - 1] ==
        IF c = -1 THEN 0 ELSE low[c-1] + (sum[c] % 2^CARRY_CHAIN) * 2^(c * CARRY_CHAIN)
      carry[c \in -1 .. (2 * W) \div CARRY_CHAIN - 1] ==
        IF c = -1 THEN 0
        ELSE carry[c-1] + (sum[c] \div 2^CARRY_CHAIN) * 2^((c + 1) * CARRY_CHAIN)
      top == (2 * W) \div CARRY_CHAIN - 1
  IN [m EXCEPT !.rd = low[top], !.rdx = Double(carry[top]),
               !.rs1 = m.rs1 \div 2, !.rs2 = Double(2 * m.rs2)]

(* Waiting for a request: the operands, extended as the instruction of the  *)
(* last edge says, and the number of steps.                                 *)
LoadOperands(m, req) ==
  LET any_mulh == m.insn \in {"mulh", "mulhsu", "mulhu"}
  IN [m EXCEPT
       !.rs1 = IF m.insn \in {"mulh", "mulhsu"} THEN Double(AsSigned(req.rs1)) ELSE req.rs1,
       !.rs2 = IF m.insn = "mulh" THEN Double(AsSigned(req.rs2)) ELSE req.rs2,
       !.rd = 0, !.rdx = 0,
       !.counter = (IF any_mulh THEN 2 * W - 1 ELSE W - 1) - 1,
       !.waiting = ~(m.wait /\ ~m.wait_q),
       !.finish = FALSE]

Multiply(m) ==
  [Accumulate(m) EXCEPT !.counter = m.counter - 1,
                        !.finish = m.counter < 0,
                        !.waiting = m.counter < 0]

MulEdge(m, req) ==
  LET datapath == IF m.waiting THEN LoadOperands(m, req) ELSE Multiply(m)
  IN [datapath EXCEPT
       !.insn = IF req.valid /\ req.op \in MulOps THEN req.op ELSE NoOp,
       !.wait = m.insn # NoOp,
       !.wait_q = m.wait,
       !.ready = m.finish,
       !.out = IF ~m.finish THEN 0
               ELSE IF m.insn = "mul" THEN Word(m.rd) ELSE m.rd \div 2^W]

-----------------------------------------------------------------------------
(* The divider: restoring division, one bit of the quotient on each edge.   *)
DivIdle ==
  [insn |-> NoOp, wait |-> FALSE, wait_q |-> FALSE, running |-> FALSE,
   dividend |-> 0, divisor |-> 0, quotient |-> 0, msk |-> 0, outsign |-> FALSE,
   ready |-> FALSE, out |-> 0]

\* Mutant: the test of the divisor is missing.
OutSignOfZero(insn, req) ==
  \/ insn = "div" /\ Negative(req.rs1) # Negative(req.rs2)
  \/ insn = "rem" /\ Negative(req.rs1)

(* The sign of the result; a quotient by zero keeps the sign it has.        *)
OutSign(insn, req) ==
  \/ insn = "div" /\ Negative(req.rs1) # Negative(req.rs2) /\ req.rs2 # 0
  \/ insn = "rem" /\ Negative(req.rs1)

StartDivision(d, req) ==
  LET signed == d.insn \in {"div", "rem"}
  IN [d EXCEPT !.running = TRUE,
               !.dividend = IF signed THEN Magnitude(req.rs1) ELSE req.rs1,
               !.divisor = (IF signed THEN Magnitude(req.rs2) ELSE req.rs2) * 2^(W-1),
               !.outsign = OutSign(d.insn, req),
               !.quotient = 0, !.msk = 2^(W-1),
               !.ready = FALSE, !.out = 0]

FinishDivision(d) ==
  LET result == IF d.insn \in {"div", "divu"} THEN d.quotient ELSE d.dividend
  IN [DivIdle EXCEPT !.ready = TRUE,
                     !.out = IF d.outsign THEN Word(-result) ELSE result]

DivideBit(d) ==
  LET fits == d.divisor <= d.dividend
  IN [d EXCEPT !.dividend = IF fits THEN d.dividend - d.divisor ELSE d.dividend,
               !.quotient = IF fits THEN d.quotient | d.msk ELSE d.quotient,
               !.divisor = d.divisor \div 2, !.msk = d.msk \div 2,
               !.ready = FALSE, !.out = 0]

DivEdge(d, req) ==
  LET datapath == IF d.wait /\ ~d.wait_q THEN StartDivision(d, req)
                  ELSE IF ~d.running THEN DivIdle
                  ELSE IF d.msk = 0 THEN FinishDivision(d)
                  ELSE DivideBit(d)
  IN [datapath EXCEPT
       !.insn = IF req.valid /\ ~d.ready /\ req.op \in DivOps THEN req.op ELSE NoOp,
       !.wait = d.insn # NoOp,
       !.wait_q = d.wait]
=============================================================================

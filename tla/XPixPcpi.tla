----------------------------- MODULE XPixPcpi ------------------------------
(***************************************************************************)
(* The XPix coprocessor (rtl/xpix_pcpi.v) and the PCPI master it serves,   *)
(* clock edge by clock edge.                                               *)
(*                                                                         *)
(* An instruction word is abstracted to what the decoder looks at: whether *)
(* opcode and funct7 are those of XPix, and funct3.                        *)
(*                                                                         *)
(* The master holds a request unchanged until it is answered, drops        *)
(* pcpi_valid in the edge that takes the answer (as picorv32 does), and    *)
(* may give the request up at any earlier edge.  The reset may come at any *)
(* edge.                                                                   *)
(***************************************************************************)
EXTENDS XPixLanes

VARIABLES
    state, a, b, op, pcpi_rd,                  \* registers of the coprocessor
    resetn,                                    \* the reset input
    pcpi_valid, pcpi_insn, pcpi_rs1, pcpi_rs2, \* driven by the master
    offered    \* history: edges out of reset that saw the current request

regs == <<state, a, b, op, pcpi_rd>>
request == <<pcpi_insn, pcpi_rs1, pcpi_rs2>>
vars == <<regs, resetn, pcpi_valid, request, offered>>

Insn == [xpix : BOOLEAN, funct3 : 0 .. 7]
States == {"IDLE", "EXEC", "DONE"}
Zero == [i \in Lanes |-> 0]

\* Edges counted by the history variable; one more than any legal answer needs.
MaxOffered == 3

-----------------------------------------------------------------------------
(* Combinational outputs.                                                  *)

legal == pcpi_insn.xpix /\ pcpi_insn.funct3 <= 4
\* Mutant: wait is raised only once the request is latched.
pcpi_wait_late == resetn /\ pcpi_valid /\ state # "IDLE"
pcpi_wait == resetn /\ pcpi_valid /\ (state # "IDLE" \/ legal)
pcpi_ready == resetn /\ pcpi_valid /\ state = "DONE"
pcpi_wr == pcpi_ready

-----------------------------------------------------------------------------
(* The always block, one operator per branch.                              *)

EdgeReset ==
    /\ ~resetn
    /\ state' = "IDLE"
    /\ a' = Zero /\ b' = Zero /\ op' = 0 /\ pcpi_rd' = Zero

\* Mutant: a withdrawn request leaves the state as it is.
EdgeAbortKeeps ==
    /\ resetn /\ ~pcpi_valid
    /\ UNCHANGED regs

EdgeAbort ==
    /\ resetn /\ ~pcpi_valid
    /\ state' = "IDLE"
    /\ UNCHANGED <<a, b, op, pcpi_rd>>

\* Mutant: the result is computed on the first edge.
EdgeLatchAtOnce ==
    /\ resetn /\ pcpi_valid /\ state = "IDLE" /\ legal
    /\ pcpi_rd' = Packed(pcpi_rs1, pcpi_rs2, pcpi_insn.funct3)
    /\ state' = "DONE"
    /\ UNCHANGED <<a, b, op>>

EdgeLatch ==
    /\ resetn /\ pcpi_valid /\ state = "IDLE" /\ legal
    /\ a' = pcpi_rs1
    /\ b' = pcpi_rs2
    /\ op' = pcpi_insn.funct3
    /\ state' = "EXEC"
    /\ UNCHANGED pcpi_rd

EdgeIgnore ==
    /\ resetn /\ pcpi_valid /\ state = "IDLE" /\ ~legal
    /\ UNCHANGED regs

EdgeExecute ==
    /\ resetn /\ pcpi_valid /\ state = "EXEC"
    /\ pcpi_rd' = Packed(a, b, op)
    /\ state' = "DONE"
    /\ UNCHANGED <<a, b, op>>

EdgeFinish ==
    /\ resetn /\ pcpi_valid /\ state = "DONE"
    /\ state' = "IDLE"
    /\ UNCHANGED <<a, b, op, pcpi_rd>>

Coprocessor ==
    \/ EdgeReset \/ EdgeAbort \/ EdgeLatch
    \/ EdgeIgnore \/ EdgeExecute \/ EdgeFinish

-----------------------------------------------------------------------------
(* The master: picorv32 in cpu_state_ld_rs1 (or ld_rs2).                   *)

\* No request is up: raise one or stay idle.
Offer ==
    /\ ~pcpi_valid
    /\ pcpi_valid' = TRUE
    /\ pcpi_insn' \in Insn /\ pcpi_rs1' \in Word /\ pcpi_rs2' \in Word
    /\ offered' = 0

Quiet ==
    /\ ~pcpi_valid
    /\ UNCHANGED <<pcpi_valid, request, offered>>

\* A request is up and not answered: keep it.
Hold ==
    /\ pcpi_valid /\ ~pcpi_ready
    /\ offered' = IF ~resetn THEN 0
                  ELSE IF offered < MaxOffered THEN offered + 1 ELSE offered
    /\ UNCHANGED <<pcpi_valid, request>>

\* The answer is taken, or the request is given up (timeout, trap, reset).
Drop ==
    /\ pcpi_valid
    /\ pcpi_valid' = FALSE
    /\ offered' = 0
    /\ UNCHANGED request

Master == Offer \/ Quiet \/ Hold \/ Drop

-----------------------------------------------------------------------------
\* Before the first reset the registers hold anything.
Init ==
    /\ resetn = FALSE
    /\ state \in States
    /\ a \in Word /\ b \in Word /\ op \in 0 .. 7 /\ pcpi_rd \in Word
    /\ pcpi_valid = FALSE
    /\ pcpi_insn \in Insn /\ pcpi_rs1 \in Word /\ pcpi_rs2 \in Word
    /\ offered = 0

Next ==
    /\ Coprocessor
    /\ Master
    /\ resetn' \in BOOLEAN

Spec == Init /\ [][Next]_vars

-----------------------------------------------------------------------------
TypeOK ==
    /\ state \in States
    /\ a \in Word /\ b \in Word /\ pcpi_rd \in Word
    /\ op \in 0 .. 7
    /\ resetn \in BOOLEAN /\ pcpi_valid \in BOOLEAN
    /\ pcpi_insn \in Insn /\ pcpi_rs1 \in Word /\ pcpi_rs2 \in Word
    /\ offered \in 0 .. MaxOffered

(* An answer is the operation of the instruction that is on the port now   *)
(* on the operands that are on the port now, whatever was aborted, reset   *)
(* or answered before: no stale result.                                    *)
AnswersCurrentRequest ==
    pcpi_ready =>
        /\ legal
        /\ pcpi_rd = Packed(pcpi_rs1, pcpi_rs2, pcpi_insn.funct3)

(* A legal request is answered after exactly two edges out of reset, no    *)
(* earlier and no later (docs/xpix_isa.md, E0 and E1).                     *)
FixedLatency ==
    resetn /\ pcpi_valid /\ legal => (pcpi_ready <=> offered = 2)

(* pcpi_wait is up from the first cycle of a legal request until the       *)
(* answer, which keeps the timeout of the CPU from running, and an         *)
(* instruction of another unit sees no reaction at all.                    *)
WaitExactlyForLegal ==
    resetn /\ pcpi_valid =>
        /\ legal => pcpi_wait
        /\ ~legal => ~pcpi_wait /\ ~pcpi_ready /\ ~pcpi_wr

(* What makes these three inductive: while the request stays up, the       *)
(* latched operands are those on the port, and the state counts the edges. *)
Latched ==
    pcpi_valid /\ state # "IDLE" =>
        /\ legal
        /\ a = pcpi_rs1 /\ b = pcpi_rs2 /\ op = pcpi_insn.funct3
        /\ state = "EXEC" => offered = 1
        /\ state = "DONE" => /\ offered = 2
                             /\ pcpi_rd = Packed(a, b, op)

IdleFresh ==
    resetn /\ pcpi_valid /\ legal /\ state = "IDLE" => offered = 0

IInv == TypeOK /\ Latched /\ IdleFresh
=============================================================================

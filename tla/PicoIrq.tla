------------------------------ MODULE PicoIrq -------------------------------
(***************************************************************************)
(* The interrupts of the picorv32 core (ENABLE_IRQ, ENABLE_IRQ_QREGS and    *)
(* ENABLE_IRQ_TIMER, no MASKED_IRQ, every interrupt latched) and the custom *)
(* instructions that handle them, with the multiplier and the divider on    *)
(* the PCPI port.                                                           *)
(*                                                                         *)
(* An action is one clock edge.  Of the passes through the fetch state only *)
(* the ones with decoder_trigger, and those of irq_state, are steps: the    *)
(* others wait for memory and change nothing an interrupt could tell apart. *)
(* An instruction other than those of this module executes in one edge, an  *)
(* action of the module that has the program.                               *)
(***************************************************************************)
EXTENDS PcpiMulDiv, FiniteSetsExt

CONSTANTS Registers,   \* the x registers the program uses, x0 apart
          ResetPc,     \* PROGADDR_RESET, 0 in the source
          IrqPc        \* PROGADDR_IRQ, 16 in the source

VARIABLES cpu_state, reg_pc, reg_next_pc, latched, cpuregs,
          irq_state, irq_pending, irq_mask, irq_active, irq_delay, do_waitirq,
          timer,       \* is the timer counting?  it reaches 0 at any edge
          pcpi,        \* the request to the coprocessors, and its timeout
          mul, div,
          raised       \* history: the interrupts each line has asked for

fetchVars == <<cpu_state, reg_pc, reg_next_pc, latched, cpuregs>>
irqVars == <<irq_state, irq_pending, irq_mask, irq_active, irq_delay, do_waitirq, timer, raised>>
pcpiVars == <<pcpi, mul, div>>
coreVars == <<fetchVars, irqVars, pcpiVars>>

irq_timer == 0
irq_ebreak == 1
irq_buserror == 2
Irqs == {irq_timer, irq_ebreak, irq_buserror, 4, 5}
ExternalIrqs == {4, 5}

(* A set of interrupts as the word a register holds.                        *)
ToWord(irqs) == FoldSet(LAMBDA k, word : word + 2^k, 0, irqs)
Has(word, k) == (word \div 2^k) % 2 = 1

QRegisters == {"q0", "q1", "q2", "q3"}
NoRegister == "x0"
NoLatch == [store |-> FALSE, branch |-> FALSE, rd |-> NoRegister, out |-> 0]
NoPcpi == [request |-> NoRequest, counter |-> 15, timeout |-> FALSE]

(* An instruction names its operation, its registers and one more operand.  *)
Insn(op, rd, rs, arg) == [op |-> op, rd |-> rd, rs |-> rs, arg |-> arg]

CoreInit ==
  /\ cpu_state = "fetch"
  /\ reg_pc = ResetPc /\ reg_next_pc = ResetPc
  /\ latched = NoLatch
  /\ cpuregs = [r \in Registers \cup QRegisters |-> 0]
  /\ irq_state = 0 /\ irq_pending = {} /\ irq_mask = Irqs
  /\ irq_active = FALSE /\ irq_delay = FALSE /\ do_waitirq = FALSE
  /\ timer = FALSE
  /\ pcpi = NoPcpi /\ mul = MulIdle /\ div = DivIdle
  /\ raised = [k \in Irqs |-> 0]

-----------------------------------------------------------------------------
Enabled == irq_pending \ irq_mask
Read(r) == IF r = NoRegister THEN 0 ELSE cpuregs[r]

\* Mutant: the lines of this edge are cleared with the interrupts that are handled.
PendBeforeClear(left, lines) ==
  /\ irq_pending' = IF irq_state = 2 THEN left ELSE left \cup lines
  /\ raised' = [k \in Irqs |-> raised[k] + (IF k \in lines \ left THEN 1 ELSE 0)]

(* The end of every edge: what is left of the pending interrupts, the lines *)
(* that are high, and those the instruction itself raises.  An interrupt    *)
(* that is already pending is not asked for twice.                          *)
Pend(left, lines) ==
  /\ irq_pending' = left \cup lines
  /\ raised' = [k \in Irqs |-> raised[k] + (IF k \in lines \ left THEN 1 ELSE 0)]

(* The timer stops when it raises its interrupt.                            *)
CountDown(lines) == timer' = (timer /\ irq_timer \notin lines)

(* The coprocessors see the request of before the edge.                     *)
PcpiEdge ==
  /\ mul' = MulEdge(mul, pcpi.request)
  /\ div' = DivEdge(div, pcpi.request)

(* What an instruction left in the latches is written in the next fetch:    *)
(* the link of a branch, or a result; and the address to go on from.        *)
RegistersWritten ==
  IF latched.rd = NoRegister THEN cpuregs
  ELSE IF latched.branch THEN [cpuregs EXCEPT ![latched.rd] = reg_pc + 1]
  ELSE IF latched.store THEN [cpuregs EXCEPT ![latched.rd] = latched.out]
  ELSE cpuregs

CurrentPc == IF latched.branch /\ latched.store THEN latched.out ELSE reg_next_pc

-----------------------------------------------------------------------------
(* decoder_trigger, and an enabled interrupt outside the handler and its    *)
(* delay: two more passes write q0 and q1.                                  *)
Interruptible == ~do_waitirq /\ ~irq_active /\ ~irq_delay /\ Enabled # {}

FetchPass(lines) ==
  /\ cpu_state = "fetch" /\ irq_state = 0
  /\ cpuregs' = RegistersWritten
  /\ reg_pc' = CurrentPc
  /\ Pend(irq_pending, lines) /\ CountDown(lines)
  /\ PcpiEdge
  /\ UNCHANGED <<irq_mask, irq_active, pcpi>>

TakeIrq(lines) ==
  /\ Interruptible
  /\ FetchPass(lines)
  /\ reg_next_pc' = CurrentPc
  /\ irq_state' = 1
  /\ latched' = [NoLatch EXCEPT !.rd = "q0"]
  /\ UNCHANGED <<cpu_state, irq_delay, do_waitirq>>

(* irq_state[0]: the return address; irq_state[1]: the interrupts, which    *)
(* are pending no more.                                                     *)
WriteQ0(lines) ==
  /\ cpu_state = "fetch" /\ irq_state = 1
  /\ cpuregs' = [cpuregs EXCEPT ![latched.rd] = reg_next_pc]
  /\ reg_pc' = IrqPc /\ reg_next_pc' = IrqPc
  /\ irq_active' = TRUE
  /\ irq_state' = 2
  /\ latched' = [NoLatch EXCEPT !.rd = "q1"]
  /\ Pend(irq_pending, lines) /\ CountDown(lines)
  /\ PcpiEdge
  /\ UNCHANGED <<cpu_state, irq_mask, irq_delay, do_waitirq, pcpi>>

WriteQ1(lines) ==
  /\ cpu_state = "fetch" /\ irq_state = 2
  /\ cpuregs' = [cpuregs EXCEPT ![latched.rd] = ToWord(Enabled)]
  /\ irq_state' = 0
  /\ latched' = NoLatch
  /\ Pend(irq_pending \cap irq_mask, lines) /\ CountDown(lines)
  /\ PcpiEdge
  /\ UNCHANGED <<cpu_state, reg_pc, reg_next_pc, irq_mask, irq_active, irq_delay,
                 do_waitirq, pcpi>>

\* Mutant: a masked interrupt does not end the wait.
WakesUpUnmasked == Enabled # {}

(* waitirq waits for any interrupt to be pending, a masked one too.         *)
WakesUp == irq_pending # {}

WaitIrq(insn, lines) ==
  /\ irq_state = 0 /\ ~Interruptible /\ insn.op = "waitirq"
  /\ FetchPass(lines)
  /\ IF WakesUp
     THEN /\ latched' = [NoLatch EXCEPT !.store = TRUE, !.rd = insn.rd, !.out = ToWord(irq_pending)]
          /\ reg_next_pc' = CurrentPc + 1
          /\ do_waitirq' = FALSE
     ELSE /\ latched' = NoLatch
          /\ reg_next_pc' = CurrentPc
          /\ do_waitirq' = TRUE
  /\ UNCHANGED <<cpu_state, irq_state, irq_delay>>

(* launch_next_insn.  jal is done in the fetch state itself.                *)
Launch(insn, lines) ==
  /\ irq_state = 0 /\ ~Interruptible /\ insn.op # "waitirq"
  /\ FetchPass(lines)
  /\ irq_delay' = irq_active
  /\ IF insn.op = "jal"
     THEN /\ reg_next_pc' = insn.arg
          /\ latched' = [NoLatch EXCEPT !.branch = TRUE, !.rd = insn.rd]
          /\ UNCHANGED cpu_state
     ELSE /\ reg_next_pc' = CurrentPc + 1
          /\ latched' = [NoLatch EXCEPT !.rd = insn.rd]
          /\ cpu_state' = "ld_rs1"
  /\ UNCHANGED <<irq_state, do_waitirq>>

Fetch(insn, lines) ==
  TakeIrq(lines) \/ WriteQ0(lines) \/ WriteQ1(lines) \/ WaitIrq(insn, lines) \/ Launch(insn, lines)

-----------------------------------------------------------------------------
(* cpu_state_ld_rs1.  Finish leaves a result for the next fetch to write.   *)
Executing(insn, op) == cpu_state = "ld_rs1" /\ insn.op = op

Finish(latch) ==
  /\ latched' = latch
  /\ cpu_state' = "fetch"
  /\ UNCHANGED <<reg_pc, reg_next_pc>>

Result(v) == [latched EXCEPT !.store = TRUE, !.out = v]

GetQ(insn, lines) ==
  /\ Executing(insn, "getq")
  /\ Finish(Result(Read(insn.rs)))
  /\ Pend(irq_pending, lines) /\ CountDown(lines) /\ PcpiEdge
  /\ UNCHANGED <<cpuregs, irq_state, irq_mask, irq_active, irq_delay, do_waitirq, pcpi>>

SetQ(insn, lines) ==
  /\ Executing(insn, "setq")
  /\ Finish(Result(Read(insn.rs)))
  /\ Pend(irq_pending, lines) /\ CountDown(lines) /\ PcpiEdge
  /\ UNCHANGED <<cpuregs, irq_state, irq_mask, irq_active, irq_delay, do_waitirq, pcpi>>

MaskIrq(insn, lines) ==
  /\ Executing(insn, "maskirq")
  /\ Finish(Result(ToWord(irq_mask)))
  /\ irq_mask' = {k \in Irqs : Has(Read(insn.rs), k)}
  /\ Pend(irq_pending, lines) /\ CountDown(lines) /\ PcpiEdge
  /\ UNCHANGED <<cpuregs, irq_state, irq_active, irq_delay, do_waitirq, pcpi>>

(* The old value is left out: the program drops it.                         *)
SetTimer(insn, lines) ==
  /\ Executing(insn, "timer")
  /\ Finish(Result(0))
  /\ timer' = (Read(insn.rs) # 0)
  /\ Pend(irq_pending, lines) /\ PcpiEdge
  /\ UNCHANGED <<cpuregs, irq_state, irq_mask, irq_active, irq_delay, do_waitirq, pcpi>>

Jalr(insn, lines) ==
  /\ Executing(insn, "jalr")
  /\ Finish([Result(Read(insn.rs)) EXCEPT !.branch = TRUE])
  /\ Pend(irq_pending, lines) /\ CountDown(lines) /\ PcpiEdge
  /\ UNCHANGED <<cpuregs, irq_state, irq_mask, irq_active, irq_delay, do_waitirq, pcpi>>

(* retirq goes on from q0.  The handler reads no q register it has not      *)
(* written, so what they hold is dropped here.                              *)
RetIrq(insn, lines) ==
  /\ Executing(insn, "retirq")
  /\ Finish([Result(cpuregs["q0"]) EXCEPT !.branch = TRUE, !.rd = NoRegister])
  /\ irq_active' = FALSE
  /\ cpuregs' = [r \in Registers \cup QRegisters |-> IF r \in QRegisters THEN 0 ELSE cpuregs[r]]
  /\ Pend(irq_pending, lines) /\ CountDown(lines) /\ PcpiEdge
  /\ UNCHANGED <<irq_state, irq_mask, irq_delay, do_waitirq, pcpi>>

(* An exception is an interrupt if it can be taken, and the end if not.     *)
Exception(irq, lines) ==
  /\ IF irq \notin irq_mask /\ ~irq_active
     THEN Pend(irq_pending, lines \cup {irq}) /\ cpu_state' = "fetch"
     ELSE Pend(irq_pending, lines) /\ cpu_state' = "trap"
  /\ CountDown(lines) /\ PcpiEdge
  /\ UNCHANGED <<reg_pc, reg_next_pc, latched, cpuregs,
                 irq_state, irq_mask, irq_active, irq_delay, do_waitirq>>

Ebreak(insn, lines) ==
  /\ Executing(insn, "ebreak")
  /\ Exception(irq_ebreak, lines)
  /\ UNCHANGED pcpi

(* An instruction for the coprocessors: pcpi_valid stays up until one of    *)
(* them is ready, or none has said in time that it is at work.              *)
Coprocess(insn, op, lines) ==
  /\ Executing(insn, "pcpi")
  /\ LET ready == mul.ready \/ div.ready
         wait == mul.wait \/ div.wait
     IN IF ready
        THEN /\ Finish(Result(IF mul.ready THEN mul.out ELSE div.out))
             /\ pcpi' = NoPcpi
             /\ Pend(irq_pending, lines) /\ CountDown(lines) /\ PcpiEdge
             /\ UNCHANGED <<cpuregs, irq_state, irq_mask, irq_active, irq_delay, do_waitirq>>
        ELSE IF pcpi.timeout
        THEN /\ pcpi' = NoPcpi
             /\ Exception(irq_ebreak, lines)
        ELSE /\ pcpi' = [request |-> [valid |-> TRUE, op |-> op,
                                     rs1 |-> Read(insn.rs), rs2 |-> Read(insn.arg)],
                         counter |-> IF pcpi.request.valid /\ ~wait
                                     THEN (IF pcpi.counter = 0 THEN 0 ELSE pcpi.counter - 1)
                                     ELSE 15,
                         timeout |-> pcpi.counter = 0]
             /\ PcpiEdge
             /\ UNCHANGED <<fetchVars, irqVars>>
=============================================================================

------------------------- MODULE PicoSystem_proofs --------------------------
(***************************************************************************)
(* The core, for all programs, all parameters of the core, any timeout and *)
(* any memory that answers when it likes.  First the control: the memory   *)
(* interface with its prefetch, the two decoder stages, and the            *)
(* coprocessor port.  Then the data: registers, program counters,          *)
(* operands, the words in the decoder and on the bus are those of the      *)
(* instruction that is executed.  Last the refinement: the core implements *)
(* its instruction set (Isa).                                              *)
(***************************************************************************)
EXTENDS PicoSystem, TLAPS, FiniteSetTheorems, FunctionTheorems

Operands == cpu_state \in {"ld_rs1", "ld_rs2"}
AnyRequest == mem_do_prefetch \/ mem_do_rinst \/ mem_do_rdata \/ mem_do_wdata

(* A pixel instruction is on the port of the coprocessor.                  *)
PixelInsn == insn2.op = "xpix" /\ insn2.imm <= 4

Booleans ==
    /\ mem_do_prefetch \in BOOLEAN /\ mem_do_rinst \in BOOLEAN
    /\ mem_do_rdata \in BOOLEAN /\ mem_do_wdata \in BOOLEAN
    /\ pcpi_valid \in BOOLEAN

FlagTypes ==
    mem_state \in 0 .. 3 /\ cpu_state \in Cpu!CpuStates /\ Booleans

(* The state of the memory interface has the request it was entered for.   *)
InterfaceInv ==
    /\ mem_state = 0 => ~mem_valid
    /\ ~trap /\ mem_state = 1 =>
        /\ mem_valid /\ mem_wstrb = {} /\ ~mem_do_wdata
        /\ mem_do_prefetch \/ mem_do_rinst \/ mem_do_rdata
        /\ mem_instr = (mem_do_prefetch \/ mem_do_rinst)
    /\ ~trap /\ mem_state = 2 => mem_valid /\ mem_wstrb # {} /\ mem_do_wdata
    /\ ~trap /\ mem_state = 3 =>
        ~mem_valid /\ mem_wstrb = {} /\ mem_do_prefetch
    /\ trap => cpu_state = "trap"
    /\ trap /\ mem_state = 0 => ~AnyRequest

(* Which requests the core can have made in each of its states.            *)
RequestInv ==
    /\ mem_do_wdata => ~mem_do_prefetch /\ ~mem_do_rinst /\ ~mem_do_rdata
    /\ mem_do_rdata => ~mem_do_prefetch /\ ~mem_do_rinst
    /\ mem_do_rdata => cpu_state \in {"ldmem", "trap"}
    /\ mem_do_wdata =>
        cpu_state \in {"stmem", "trap"} /\ mem_wordsize \in 0 .. 2
    /\ Operands \/ cpu_state = "shift" => ~mem_do_rinst
    /\ (Operands \/ cpu_state = "exec") /\ insn1.op # "jalr" => mem_do_prefetch
    /\ cpu_state = "exec" =>
        /\ mem_do_rinst => mem_do_prefetch
        /\ alu_wait \/ alu_wait_2 =>
            ~mem_do_rinst /\ (TWO_CYCLE_ALU \/ TWO_CYCLE_COMPARE)
    /\ cpu_state = "ldmem" =>
        /\ mem_do_rinst <=> mem_do_prefetch
        /\ ~mem_do_rdata => mem_do_prefetch
    /\ cpu_state = "stmem" =>
        /\ mem_do_rinst <=> mem_do_prefetch
        /\ ~mem_do_wdata => mem_do_prefetch

(* The second decoder stage has the word of the first, or gets it next.    *)
DecoderInv ==
    /\ decoder_trigger => ~mem_do_prefetch /\ ~mem_do_rinst
    /\ decoder_trigger => cpu_state \in {"fetch", "ldmem", "stmem", "trap"}
    /\ decoder_trigger /\ ~decoder_pseudo_trigger => mem_rdata_q = insn1
    /\ decoder_pseudo_trigger =>
        decoder_trigger /\ insn2 = insn1 /\ cpu_state \in {"fetch", "trap"}
    /\ ~decoder_trigger /\ cpu_state \notin {"fetch", "trap"} => insn2 = insn1
    /\ cpu_state = "ldmem" /\ ~mem_do_rdata => insn2.op \in Loads
    /\ cpu_state = "stmem" /\ ~mem_do_wdata => insn2.op \in Stores

(* The core asks the coprocessor only once it has both operands.           *)
PortState ==
    /\ WITH_PCPI /\ Cpu!instr_trap
    /\ cpu_state = IF ENABLE_REGS_DUALPORT THEN "ld_rs1" ELSE "ld_rs2"

(* The timer is loaded whenever nobody, or the coprocessor, is asked.      *)
PortInv ==
    /\ WITH_PCPI => xp_state \in XP!States
    /\ pcpi_valid => PortState
    /\ pcpi_valid /\ xp_state # "IDLE" => PixelInsn
    /\ WITH_PCPI /\ cpu_state # "trap" /\ (pcpi_valid => PixelInsn) =>
        pcpi_timeout_counter = TimeoutMax /\ ~pcpi_timeout

ControlInv == FlagTypes /\ InterfaceInv /\ RequestInv /\ DecoderInv /\ PortInv

(* The control is in order once there has been a reset; at power-up the    *)
(* registers hold anything.                                                *)
IInv == resetn => ControlInv

-----------------------------------------------------------------------------
(* The reset puts the whole control in order, whatever it finds.           *)
LEMMA ResetStep ==
    ASSUME Next, ~resetn
    PROVE  ControlInv'
<1>1. Cpu!Reset
    BY DEF Next, Cpu!Edge, Cpu!Main
<1>2. Cpu!MemHalted
    BY DEF Next, Cpu!Edge, Cpu!MemoryInterface
<1>3. ~Cpu!mem_done
    BY DEF Cpu!mem_done
<1>4. FlagTypes'
  <2>1. mem_state' \in 0 .. 3
    BY <1>2 DEF Cpu!MemHalted
  <2>2. cpu_state' \in Cpu!CpuStates
    BY <1>1 DEF Cpu!Reset, Cpu!CpuStates
  <2>3. Booleans'
    BY <1>1 DEF Cpu!Reset, Booleans
  <2> QED BY <2>1, <2>2, <2>3 DEF FlagTypes
<1>5. InterfaceInv'
  <2>1. mem_state' = 0 /\ mem_valid' = FALSE
    BY <1>2 DEF Cpu!MemHalted
  <2>2. trap' = FALSE
    BY <1>1 DEF Cpu!Reset
  <2> QED BY <2>1, <2>2 DEF InterfaceInv
<1>6. RequestInv' /\ DecoderInv'
    BY <1>1, <1>3 DEF RequestInv, DecoderInv, Cpu!Reset, Cpu!Trigger, Operands
<1>7. WITH_PCPI => xp_state' = "IDLE"
    BY DEF Next, Coprocessor, XP!Coprocessor, XP!EdgeReset, XP!EdgeAbort,
           XP!EdgeLatch, XP!EdgeIgnore, XP!EdgeExecute, XP!EdgeFinish
<1>8. PortInv'
    BY <1>1, <1>7
       DEF PortInv, Cpu!Reset, Next, Cpu!Edge, Cpu!PcpiTimer, XP!States
<1> QED BY <1>4, <1>5, <1>6, <1>8 DEF ControlInv

(* An edge never withdraws a request, and while one is waited for no other *)
(* kind of request is made.                                                *)
Pending == AnyRequest /\ ~Cpu!mem_done
RequestStep ==
    /\ Pending =>
        /\ mem_do_prefetch' <=> mem_do_prefetch
        /\ mem_do_rinst => mem_do_rinst'
        /\ mem_do_rinst' => mem_do_prefetch \/ mem_do_rinst
        /\ mem_do_rdata' <=> mem_do_rdata
        /\ mem_do_wdata' <=> mem_do_wdata
    /\ Cpu!mem_done => ~mem_do_prefetch'
    /\ trap' <=> cpu_state = "trap"
    /\ cpu_state = "trap" =>
        /\ cpu_state' = "trap"
        /\ ~AnyRequest => ~AnyRequest'
        /\ Cpu!mem_done => ~AnyRequest'

LEMMA RequestsAreKept ==
    ASSUME ControlInv, resetn, Cpu!Main
    PROVE  RequestStep /\ Booleans'
<1> USE DEF RequestStep, Pending, AnyRequest, Cpu!MemDo, Cpu!KeepMemDo,
            Cpu!AskInsn, Cpu!AskPrefetched, ControlInv, FlagTypes, Booleans
<1>1. CASE Cpu!Trapped
    BY <1>1 DEF Cpu!Trapped, Cpu!GoTo
<1>2. CASE Cpu!FetchWait
    BY <1>2 DEF Cpu!FetchWait, Cpu!Fetch, RequestInv
<1>3. CASE Cpu!LaunchJal
    BY <1>3 DEF Cpu!LaunchJal, Cpu!Fetch, RequestInv, DecoderInv
<1>4. CASE Cpu!Launch
    BY <1>4 DEF Cpu!Launch, Cpu!Fetch, RequestInv, DecoderInv
<1>5. CASE \/ Cpu!PcpiAnswered \/ Cpu!PcpiRefused \/ Cpu!PcpiPending
           \/ Cpu!IllegalInsn \/ Cpu!OneOperand
    BY <1>5
       DEF Cpu!PcpiAnswered, Cpu!PcpiRefused, Cpu!PcpiPending, Cpu!IllegalInsn,
           Cpu!OneOperand, Cpu!Foreigner, Cpu!BothOperands, Cpu!Operand,
           Cpu!LoadRs1, RequestInv, Operands
<1>6. CASE \/ Cpu!UpperOperands \/ Cpu!ImmediateOperands
           \/ Cpu!ShiftImmOperands \/ Cpu!LoadOperands
    BY <1>6
       DEF Cpu!UpperOperands, Cpu!ImmediateOperands, Cpu!ShiftImmOperands,
           Cpu!LoadOperands, Cpu!Operand, Cpu!LoadRs1, RequestInv, Operands,
           Cpu!StartExec
<1>7. CASE Cpu!StoreOperands \/ Cpu!ShiftRegOperands \/ Cpu!RegisterOperands
    BY <1>7
       DEF Cpu!StoreOperands, Cpu!ShiftRegOperands, Cpu!RegisterOperands,
           Cpu!NativeOperands, Cpu!BothOperands, Cpu!Operand, RequestInv,
           Operands, Cpu!StartExec
<1>8. CASE Cpu!ExecWait \/ Cpu!ExecAlu \/ Cpu!ExecBranch
    BY <1>8
       DEF Cpu!ExecWait, Cpu!ExecAlu, Cpu!ExecBranch, Cpu!ExecNow, Cpu!Exec,
           RequestInv
<1>9. CASE Cpu!ShiftDone \/ Cpu!ShiftStep
    BY <1>9 DEF Cpu!ShiftDone, Cpu!ShiftStep, Cpu!Shift, RequestInv
<1>10. CASE Cpu!StMem \/ Cpu!LdMem
    BY <1>10 DEF Cpu!StMem, Cpu!LdMem, Cpu!Access, Cpu!PrefetchIn, RequestInv
<1> QED BY <1>1, <1>2, <1>3, <1>4, <1>5, <1>6, <1>7, <1>8, <1>9, <1>10
           DEF Cpu!Main, Cpu!LdRs, Cpu!Reset

(* Every branch of the memory state machine leaves a state whose request   *)
(* is there.                                                               *)
LEMMA InterfaceStep ==
    ASSUME ControlInv, resetn, Next
    PROVE  InterfaceInv'
<1>1. RequestStep
    BY RequestsAreKept DEF Next, Cpu!Edge
<1> USE <1>1
       DEF RequestStep, Pending, AnyRequest, ControlInv, InterfaceInv,
           FlagTypes, Booleans
<1>2. CASE Cpu!MemHalted
    BY <1>2 DEF Cpu!MemHalted
<1>3. CASE ~trap /\ Cpu!MemIdle
    BY <1>3 DEF Cpu!MemIdle, Cpu!memRegs, Cpu!mem_la_read, Cpu!mem_la_write
<1>4. CASE ~trap /\ Cpu!MemStartRead
    BY <1>4
       DEF Cpu!MemStartRead, Cpu!mem_la_read, Cpu!mem_la_write, Cpu!mem_done
<1>5. CASE ~trap /\ Cpu!MemStartWrite
  <2>1. mem_do_wdata /\ mem_wordsize \in 0 .. 2
    BY <1>5 DEF RequestInv, Cpu!MemStartWrite, Cpu!mem_la_write
  <2>2. Cpu!Strobe(reg_op1, mem_wordsize) # {}
    BY <2>1 DEF Cpu!Strobe, Cpu!LaneNo
  <2>3. mem_state = 0 /\ mem_state' = 2 /\ mem_valid' = TRUE
        /\ mem_wstrb' = Cpu!Strobe(reg_op1, mem_wordsize)
    BY <1>5 DEF Cpu!MemStartWrite
  <2> QED BY <1>5, <2>1, <2>2, <2>3 DEF Cpu!mem_done
<1>6. CASE ~trap /\ Cpu!MemWait
    BY <1>6 DEF Cpu!MemWait, Cpu!memRegs, Cpu!mem_xfer, Cpu!mem_done
<1>7. CASE ~trap /\ Cpu!MemReadDone
    BY <1>7 DEF Cpu!MemReadDone, Cpu!mem_xfer, Cpu!mem_done
<1>8. CASE ~trap /\ Cpu!MemWriteDone
    BY <1>8 DEF Cpu!MemWriteDone, Cpu!mem_xfer, Cpu!mem_done
<1>9. CASE ~trap /\ Cpu!MemPrefetched
  <2>1. mem_state = 3 /\ UNCHANGED <<mem_valid, mem_wstrb>>
        /\ mem_state' = IF mem_do_rinst THEN 0 ELSE 3
    BY <1>9 DEF Cpu!MemPrefetched
  <2>2. CASE mem_do_rinst
    BY <1>9, <2>1, <2>2 DEF Cpu!mem_done
  <2>3. CASE ~mem_do_rinst
    <3>1. ~Cpu!mem_done
      BY <1>9, <2>1, <2>3 DEF Cpu!mem_done, Cpu!mem_xfer
    <3> QED BY <1>9, <2>1, <2>3, <3>1
  <2> QED BY <2>2, <2>3
<1> QED BY <1>2, <1>3, <1>4, <1>5, <1>6, <1>7, <1>8, <1>9
           DEF Next, Cpu!Edge, Cpu!MemoryInterface

(* The first stage takes a word when it was asked for, the second one edge *)
(* later.                                                                  *)
DecoderStep ==
    /\ mem_do_rinst /\ Cpu!mem_done => insn1' = mem_rdata_q'
    /\ ~(mem_do_rinst /\ Cpu!mem_done) => insn1' = insn1
    /\ decoder_trigger /\ ~decoder_pseudo_trigger => insn2' = mem_rdata_q
    /\ ~decoder_trigger \/ decoder_pseudo_trigger => insn2' = insn2

LEMMA DecoderAdvances ==
    ASSUME resetn, Next
    PROVE  DecoderStep
BY DEF Next, Cpu!Edge, Cpu!Decoder, Cpu!Cleared, Cpu!SecondStage,
       Cpu!mem_rdata_latched, DecoderStep

(* What depends on the state machine alone.                                *)
StateInv ==
    /\ cpu_state \in Cpu!CpuStates
    /\ RequestInv /\ DecoderInv
    /\ pcpi_valid => PortState

(* The actions of the main state machine keep it: trap and fetch, the      *)
(* operand states, execution, and the accesses.                            *)

LEMMA LaunchStep ==
    ASSUME ControlInv, resetn, Next,
           Cpu!Trapped \/ Cpu!FetchWait \/ Cpu!LaunchJal \/ Cpu!Launch
    PROVE  StateInv'
<1>1. DecoderStep
    BY DecoderAdvances
<1> USE <1>1
       DEF DecoderStep, ControlInv, FlagTypes, Booleans, StateInv, RequestInv,
           DecoderInv, PortInv, Operands, Cpu!MemDo, Cpu!KeepMemDo,
           Cpu!AskInsn, Cpu!AskPrefetched, Cpu!GoTo, Cpu!Trigger,
           Cpu!CpuStates, InterfaceInv, Cpu!instr_trap, PortState
<1>2. CASE Cpu!Trapped
    BY <1>2 DEF Cpu!Trapped
<1>3. CASE Cpu!FetchWait
    BY <1>3 DEF Cpu!FetchWait, Cpu!Fetch
<1>4. CASE Cpu!LaunchJal
    BY <1>4 DEF Cpu!LaunchJal, Cpu!Fetch
<1>5. CASE Cpu!Launch
    BY <1>5 DEF Cpu!Launch, Cpu!Fetch, Cpu!PrefetchAfterLaunch, Cpu!mem_done
<1> QED BY <1>2, <1>3, <1>4, <1>5

(* No request can end in the operand states, so the decoder stands still.  *)
LEMMA OperandStep ==
    ASSUME ControlInv, resetn, Next, Cpu!LdRs
    PROVE  StateInv'
<1>1. DecoderStep
    BY DecoderAdvances
<1>2. ~Cpu!mem_done /\ ~Cpu!misaligned /\ ~decoder_trigger /\ Operands
    BY DEF Cpu!mem_done, Cpu!misaligned, ControlInv, RequestInv, DecoderInv,
           Operands, Cpu!LdRs, Cpu!PcpiAnswered, Cpu!PcpiRefused,
           Cpu!PcpiPending, Cpu!IllegalInsn, Cpu!OneOperand, Cpu!Foreigner,
           Cpu!BothOperands, Cpu!LoadRs1, Cpu!UpperOperands,
           Cpu!ImmediateOperands, Cpu!ShiftImmOperands, Cpu!LoadOperands,
           Cpu!StoreOperands, Cpu!ShiftRegOperands, Cpu!RegisterOperands,
           Cpu!NativeOperands
<1> USE <1>1, <1>2
       DEF DecoderStep, ControlInv, FlagTypes, Booleans, StateInv, RequestInv,
           DecoderInv, PortInv, Operands, Cpu!MemDo, Cpu!KeepMemDo,
           Cpu!AskInsn, Cpu!AskPrefetched, Cpu!GoTo, Cpu!Trigger,
           Cpu!CpuStates, InterfaceInv, Cpu!instr_trap, PortState
<1>3. CASE Cpu!PcpiAnswered \/ Cpu!PcpiRefused \/ Cpu!PcpiPending
    BY <1>3
       DEF Cpu!PcpiAnswered, Cpu!PcpiRefused, Cpu!PcpiPending, Cpu!Foreigner,
           Cpu!BothOperands, Cpu!Operand
<1>4. CASE Cpu!IllegalInsn \/ Cpu!OneOperand
    BY <1>4 DEF Cpu!IllegalInsn, Cpu!OneOperand, Cpu!Operand, Cpu!LoadRs1
<1>5. CASE Cpu!UpperOperands \/ Cpu!ImmediateOperands
    BY <1>5
       DEF Cpu!UpperOperands, Cpu!ImmediateOperands, Cpu!Operand, Cpu!LoadRs1,
           Cpu!StartExec
<1>6. CASE Cpu!ShiftImmOperands \/ Cpu!LoadOperands
    BY <1>6
       DEF Cpu!ShiftImmOperands, Cpu!LoadOperands, Cpu!Operand, Cpu!LoadRs1,
           Cpu!Loads, Loads, Cpu!UnsignedLoads, UnsignedLoads
<1>7. CASE Cpu!StoreOperands \/ Cpu!ShiftRegOperands
    BY <1>7
       DEF Cpu!StoreOperands, Cpu!ShiftRegOperands, Cpu!NativeOperands,
           Cpu!BothOperands, Cpu!Operand, Cpu!Stores, Stores
<1>8. CASE Cpu!RegisterOperands
    BY <1>8
       DEF Cpu!RegisterOperands, Cpu!NativeOperands, Cpu!BothOperands,
           Cpu!Operand, Cpu!StartExec
<1> QED BY <1>3, <1>4, <1>5, <1>6, <1>7, <1>8 DEF Cpu!LdRs

(* A branch leaves the exec state when its prefetch ends; what ends a      *)
(* request there is the word of the next instruction.                      *)
LEMMA ExecStep ==
    ASSUME ControlInv, resetn, Next,
           \/ Cpu!ExecWait \/ Cpu!ExecAlu \/ Cpu!ExecBranch
           \/ Cpu!ShiftDone \/ Cpu!ShiftStep
    PROVE  StateInv'
<1>1. DecoderStep
    BY DecoderAdvances
<1> USE <1>1
       DEF DecoderStep, ControlInv, FlagTypes, Booleans, StateInv, RequestInv,
           DecoderInv, PortInv, Operands, Cpu!MemDo, Cpu!KeepMemDo,
           Cpu!AskInsn, Cpu!AskPrefetched, Cpu!GoTo, Cpu!Trigger,
           Cpu!CpuStates, InterfaceInv, Cpu!instr_trap, PortState
<1>3. CASE Cpu!ExecWait
    BY <1>3 DEF Cpu!ExecWait, Cpu!Exec, Cpu!mem_done
<1>4. CASE Cpu!ExecAlu
    BY <1>4 DEF Cpu!ExecAlu, Cpu!ExecNow, Cpu!Exec
<1>5. CASE Cpu!ExecBranch
    BY <1>5
       DEF Cpu!ExecBranch, Cpu!ExecNow, Cpu!Exec, Cpu!Branches, Cpu!NoAluWait
<1>6. CASE Cpu!ShiftDone
    BY <1>6 DEF Cpu!ShiftDone, Cpu!Shift
<1>7. CASE Cpu!ShiftStep
    BY <1>7 DEF Cpu!ShiftStep, Cpu!Shift
<1> QED BY <1>3, <1>4, <1>5, <1>6, <1>7

(* A load or store makes its request on the edge that ends the prefetch.   *)
LEMMA AccessStep ==
    ASSUME ControlInv, resetn, Next, Cpu!StMem \/ Cpu!LdMem
    PROVE  StateInv'
<1>1. DecoderStep
    BY DecoderAdvances
<1> USE <1>1
       DEF DecoderStep, ControlInv, FlagTypes, Booleans, StateInv, RequestInv,
           DecoderInv, PortInv, Operands, Cpu!MemDo, Cpu!KeepMemDo,
           Cpu!AskInsn, Cpu!AskPrefetched, Cpu!GoTo, Cpu!Trigger,
           Cpu!CpuStates, InterfaceInv, Cpu!instr_trap, PortState, Cpu!Size,
           Loads, Stores, UnsignedLoads
<1>3. CASE Cpu!StMem
    BY <1>3 DEF Cpu!StMem, Cpu!Access, Cpu!PrefetchIn, Cpu!AccessDone
<1>4. CASE Cpu!LdMem
    BY <1>4 DEF Cpu!LdMem, Cpu!Access, Cpu!PrefetchIn, Cpu!AccessDone
<1> QED BY <1>3, <1>4

(* Every edge out of reset keeps each part of the invariant.               *)
LEMMA StateStep ==
    ASSUME ControlInv, resetn, Next
    PROVE  StateInv'
BY LaunchStep, OperandStep, ExecStep, AccessStep
   DEF Next, Cpu!Edge, Cpu!Main, Cpu!Reset

LEMMA FlagStep ==
    ASSUME ControlInv, resetn, Next
    PROVE  FlagTypes'
<1>1. mem_state' \in 0 .. 3
  <2> USE DEF ControlInv, FlagTypes
  <2>1. CASE Cpu!MemHalted
    BY <2>1 DEF Cpu!MemHalted
  <2>2. CASE Cpu!MemIdle \/ Cpu!MemWait
    BY <2>2 DEF Cpu!MemIdle, Cpu!MemWait, Cpu!memRegs
  <2>3. CASE Cpu!MemStartRead \/ Cpu!MemStartWrite
    BY <2>3 DEF Cpu!MemStartRead, Cpu!MemStartWrite
  <2>4. CASE Cpu!MemReadDone \/ Cpu!MemWriteDone \/ Cpu!MemPrefetched
    BY <2>4 DEF Cpu!MemReadDone, Cpu!MemWriteDone, Cpu!MemPrefetched
  <2> QED BY <2>1, <2>2, <2>3, <2>4 DEF Next, Cpu!Edge, Cpu!MemoryInterface
<1>2. cpu_state' \in Cpu!CpuStates
    BY StateStep DEF StateInv
<1>3. Booleans'
    BY RequestsAreKept DEF Next, Cpu!Edge
<1> QED BY <1>1, <1>2, <1>3 DEF FlagTypes

(* A pixel instruction keeps the timer loaded; another one that is asked   *)
(* for is never answered, so it cannot leave with the timer run down.      *)
LEMMA PortStep ==
    ASSUME ControlInv, resetn, Next
    PROVE  PortInv'
<1>1. StateInv' /\ DecoderStep
    BY StateStep, DecoderAdvances
<1> SUFFICES ASSUME WITH_PCPI PROVE PortInv'
    BY <1>1 DEF StateInv, PortInv, PortState
<1>2. pcpi_valid => insn2' = insn2
    BY <1>1 DEF DecoderStep, ControlInv, PortInv, DecoderInv, PortState
<1>3. XP!Coprocessor /\ Cpu!PcpiTimer
    BY DEF Next, Coprocessor, Cpu!Edge
<1>4. xp_state' \in XP!States
    BY <1>3
       DEF XP!Coprocessor, XP!EdgeReset, XP!EdgeAbort, XP!EdgeLatch,
           XP!EdgeIgnore, XP!EdgeExecute, XP!EdgeFinish, XP!States, XP!regs,
           ControlInv, PortInv
<1>5. pcpi_valid' /\ xp_state' # "IDLE" => PixelInsn'
    BY <1>2, <1>3
       DEF XP!Coprocessor, XP!EdgeReset, XP!EdgeAbort, XP!EdgeLatch,
           XP!EdgeIgnore, XP!EdgeExecute, XP!EdgeFinish, XP!States, XP!regs,
           XP!legal, ControlInv, PortInv, PixelInsn
<1>6. ASSUME cpu_state' # "trap", pcpi_valid' => PixelInsn'
      PROVE  pcpi_timeout_counter' = TimeoutMax /\ ~pcpi_timeout'
  <2>1. cpu_state # "trap"
    BY <1>6, RequestsAreKept DEF RequestStep, Next, Cpu!Edge
  <2>2. CASE ~pcpi_valid
    <3>1. pcpi_timeout_counter = TimeoutMax
      BY <2>1, <2>2 DEF ControlInv, PortInv
    <3> QED BY <2>2, <3>1, <1>3, TimeoutAssumption DEF Cpu!PcpiTimer
  <2>3. CASE pcpi_valid
    <3>1. Cpu!PcpiAnswered \/ Cpu!PcpiPending
      BY <1>6, <2>3
         DEF ControlInv, PortInv, PortState, Next, Cpu!Edge, Cpu!Main,
             Cpu!LdRs, Cpu!Reset, Cpu!Trapped, Cpu!FetchWait, Cpu!LaunchJal,
             Cpu!Launch, Cpu!Fetch, Cpu!PcpiRefused, Cpu!IllegalInsn,
             Cpu!OneOperand, Cpu!LoadRs1, Cpu!UpperOperands,
             Cpu!ImmediateOperands, Cpu!ShiftImmOperands, Cpu!LoadOperands,
             Cpu!Loads, Cpu!UnsignedLoads, Cpu!instr_trap, Cpu!GoTo,
             Cpu!StoreOperands, Cpu!ShiftRegOperands, Cpu!RegisterOperands,
             Cpu!NativeOperands, Cpu!ExecWait, Cpu!ExecAlu, Cpu!ExecBranch,
             Cpu!ExecNow, Cpu!Exec, Cpu!ShiftDone, Cpu!ShiftStep, Cpu!Shift,
             Cpu!StMem, Cpu!LdMem
    <3>2. XP!pcpi_ready => PixelInsn
      BY DEF XP!pcpi_ready, ControlInv, PortInv
    <3>3. PixelInsn
      BY <1>2, <1>6, <2>3, <3>1, <3>2
         DEF Cpu!PcpiAnswered, Cpu!PcpiPending, PixelInsn
    <3>4. XP!pcpi_wait
      BY <2>3, <3>3 DEF XP!pcpi_wait, XP!legal, PixelInsn
    <3>5. pcpi_timeout_counter = TimeoutMax
      BY <2>1, <3>3 DEF ControlInv, PortInv
    <3> QED BY <2>3, <3>4, <3>5, <1>3, TimeoutAssumption DEF Cpu!PcpiTimer
  <2> QED BY <2>2, <2>3
<1> QED BY <1>1, <1>4, <1>5, <1>6 DEF StateInv, PortInv

(* The control invariant holds after every edge of the clock.              *)
LEMMA ControlNext ==
    ASSUME IInv, Next
    PROVE  ControlInv'
<1>1. CASE ~resetn
    BY <1>1, ResetStep
<1>2. CASE resetn
  <2>1. ControlInv
    BY <1>2 DEF IInv
  <2> QED BY <1>2, <2>1, FlagStep, InterfaceStep, StateStep, PortStep
             DEF ControlInv, StateInv
<1> QED BY <1>1, <1>2

LEMMA ControlStutter ==
    ASSUME UNCHANGED vars
    PROVE  ControlInv' <=> ControlInv
<1> USE DEF vars, Cpu!coreVars, Cpu!memRegs, Cpu!decodeRegs, Cpu!mainRegs,
            Cpu!memDo, Cpu!triggers, Cpu!aluWaits, Cpu!timer, xpVars
<1>1. UNCHANGED <<FlagTypes, InterfaceInv, RequestInv>>
    BY DEF FlagTypes, Booleans, InterfaceInv, AnyRequest, RequestInv, Operands
<1>2. UNCHANGED <<DecoderInv, PortInv>>
    BY DEF DecoderInv, PortInv, PixelInsn, Cpu!instr_trap, Operands, PortState
<1> QED BY <1>1, <1>2 DEF ControlInv

-----------------------------------------------------------------------------
(* From the first reset on, each state of the memory interface and of the  *)
(* main state machine has the requests, the decoder stages and the         *)
(* coprocessor port as they should be, in every execution: the inductive   *)
(* invariant that the theorems below follow from.                          *)
THEOREM ControlInOrder == Spec => []IInv
<1>1. Init => IInv
    BY DEF Init, IInv
<1>2. IInv /\ [Next]_vars => IInv'
  <2>1. CASE UNCHANGED vars
    <3>1. resetn' = resetn
      BY <2>1 DEF vars
    <3> QED BY <2>1, <3>1, ControlStutter DEF IInv
  <2> QED BY <2>1, ControlNext DEF IInv
<1> QED BY <1>1, <1>2, PTL DEF Spec

(* The assertions of the source on the memory interface hold: it never     *)
(* works on a request nobody has made any more, or on two at once.         *)
THEOREM AssertionsHold == Spec => []RequestsMatchState
<1>1. IInv => RequestsMatchState
    BY DEF IInv, ControlInv, InterfaceInv, RequestInv, RequestsMatchState
<1> QED BY <1>1, ControlInOrder, PTL

(* Data that comes over the bus never gets between the two decoder stages. *)
THEOREM DecoderStagesAgree == Spec => []StagesAgree
<1>1. IInv => StagesAgree
    BY DEF IInv, ControlInv, DecoderInv, StagesAgree, Cpu!SecondStage
<1> QED BY <1>1, ControlInOrder, PTL

(* The timeout of the core never ends a pixel instruction, however the     *)
(* instruction before it ended, and the coprocessor answers no other.      *)
THEOREM PixelsAreSpared == Spec => []TimeoutSparesPixels
<1>1. IInv => TimeoutSparesPixels
    BY DEF IInv, ControlInv, PortInv, PortState, PixelInsn, XP!pcpi_ready,
           TimeoutSparesPixels
<1> QED BY <1>1, ControlInOrder, PTL

BusStep ==
    resetn =>
        /\ mem_valid /\ ~mem_ready =>
            mem_valid' /\ UNCHANGED <<mem_addr, mem_wdata, mem_wstrb, mem_instr>>
        /\ Cpu!mem_la_read \/ Cpu!mem_la_write =>
            /\ ~mem_valid \/ mem_ready
            /\ mem_valid' /\ mem_addr' = Cpu!mem_la_addr
        /\ ~mem_valid /\ mem_valid' => Cpu!mem_la_read \/ Cpu!mem_la_write

(* The core keeps the protocol of its bus: no transfer is changed or       *)
(* withdrawn before it is acknowledged, and the look-ahead is exact.       *)
THEOREM BusProtocolKept == Spec => BusProtocol
<1>1. IInv /\ [Next]_vars => [BusStep]_vars
  <2> SUFFICES ASSUME IInv, Next, resetn PROVE BusStep
    BY DEF BusStep
  <2>1. InterfaceInv /\ FlagTypes
    BY DEF IInv, ControlInv
  <2> USE <2>1 DEF BusStep, InterfaceInv, AnyRequest, FlagTypes
  <2>2. CASE Cpu!MemHalted
    BY <2>2 DEF Cpu!MemHalted, Cpu!mem_la_read, Cpu!mem_la_write
  <2>3. CASE Cpu!MemIdle \/ Cpu!MemWait
    BY <2>3
       DEF Cpu!MemIdle, Cpu!MemWait, Cpu!memRegs, Cpu!mem_la_read,
           Cpu!mem_la_write
  <2>4. CASE Cpu!MemStartRead \/ Cpu!MemStartWrite
    BY <2>4
       DEF Cpu!MemStartRead, Cpu!MemStartWrite, Cpu!mem_la_read,
           Cpu!mem_la_write
  <2>5. CASE Cpu!MemReadDone \/ Cpu!MemWriteDone \/ Cpu!MemPrefetched
    BY <2>5
       DEF Cpu!MemReadDone, Cpu!MemWriteDone, Cpu!MemPrefetched, Cpu!mem_xfer,
           Cpu!mem_la_read, Cpu!mem_la_write
  <2> QED BY <2>2, <2>3, <2>4, <2>5 DEF Next, Cpu!Edge, Cpu!MemoryInterface
<1>2. BusProtocol <=> [][BusStep]_vars
    BY DEF BusProtocol, BusStep
<1> QED BY <1>1, <1>2, ControlInOrder, PTL DEF Spec

-----------------------------------------------------------------------------
(* Arithmetic of values and addresses.                                     *)

(* Division with remainder.                                                *)
LEMMA Remainder ==
    ASSUME NEW n \in Int, NEW d \in Nat \ {0}
    PROVE  /\ n \div d \in Int /\ n % d \in 0 .. d - 1
           /\ n = d * (n \div d) + (n % d)
OBVIOUS

(* A quotient and a remainder that fit are the quotient and the remainder. *)
LEMMA Quotient ==
    ASSUME NEW d \in Nat \ {0}, NEW q \in Int, NEW r \in 0 .. d - 1
    PROVE  (d * q + r) \div d = q /\ (d * q + r) % d = r
OBVIOUS

(* V is a multiple of sixteen.                                             *)
LEMMA ValueRange == V \in Nat /\ V >= 16 /\ V % 4 = 0
<1>1. PICK k \in Nat : Base = 2 * k /\ k >= 1
  <2> DEFINE h == Base \div 2
  <2>1. Base = 2 * h + (Base % 2) /\ Base % 2 = 0 /\ Base >= 2 /\ h \in Int
    BY BaseAssumption
  <2> HIDE DEF h
  <2>2. Base = 2 * h /\ h >= 1 /\ h \in Nat
    BY <2>1, BaseAssumption
  <2> QED BY <2>2
<1> DEFINE q == k * k * k * k
<1>2. q \in Nat /\ q >= 1
  <2>1. k * k \in Nat /\ k * k >= 1
    BY <1>1
  <2>2. k * k * k \in Nat /\ k * k * k >= 1
    BY <1>1, <2>1
  <2> QED BY <1>1, <2>2
<1>3. V = 16 * q
  <2>1. Base * Base = 4 * (k * k)
    BY <1>1
  <2>2. Base * Base * Base = 8 * (k * k * k)
    BY <1>1, <2>1
  <2> QED BY <1>1, <2>2 DEF V
<1> HIDE DEF q
<1> QED BY <1>2, <1>3

(* The operations on values and addresses give values; an aligned address  *)
(* is a multiple of four.                                                  *)
LEMMA ValueOps ==
    ASSUME NEW v \in Int, NEW w \in Int
    PROVE  /\ Plus(v, w) \in Value /\ Minus(v, w) \in Value
           /\ v \in Value => ClearBit0(v) \in Value /\ Align(v) \in Value
           /\ Align(v) % 4 = 0
<1>1. V \in Nat /\ V >= 16
    BY ValueRange
<1> HIDE DEF V
<1> QED BY <1>1 DEF Plus, Minus, ClearBit0, Align, Value

(* The address after an aligned one is aligned, also where it wraps        *)
(* around.                                                                 *)
LEMMA NextWord ==
    ASSUME NEW v \in Value, v % 4 = 0
    PROVE  Plus(v, 4) % 4 = 0
<1>1. V \in Nat /\ V >= 16 /\ V % 4 = 0
    BY ValueRange
<1> HIDE DEF V
<1>2. CASE v + 4 < V
    BY <1>1, <1>2 DEF Plus, Value
<1>3. CASE v + 4 >= V
  <2>1. v + 4 = V
    BY <1>1, <1>3 DEF Value
  <2> QED BY <1>1, <2>1 DEF Plus
<1> QED BY <1>2, <1>3, <1>1 DEF Value

(* A factor may be reduced before it is multiplied.                        *)
LEMMA ModTwice ==
    ASSUME NEW m \in Nat \ {0}, NEW v \in Int, NEW w \in Nat
    PROVE  ((v % m) * w) % m = (v * w) % m
<1> DEFINE q == v \div m
           r == v % m
           s == (r * w) \div m
           t == (r * w) % m
<1>1. v = m * q + r /\ q \in Int /\ r \in 0 .. m - 1
    BY Remainder
<1>2. r * w \in Int
    BY <1>1
<1>3. r * w = m * s + t /\ s \in Int /\ t \in 0 .. m - 1
    BY <1>2, Remainder
<1> HIDE DEF q, r, s, t
<1>4. v * w = m * (q * w + s) + t
    BY <1>1, <1>3
<1>5. q * w + s \in Int
    BY <1>1, <1>3
<1>6. (v * w) % m = t
    BY <1>3, <1>4, <1>5, Quotient
<1> QED BY <1>6 DEF t, r

(* Powers of two, by counting subsets.                                     *)
LEMMA Doubling ==
    ASSUME NEW n \in Nat
    PROVE  2 ^ n \in Nat /\ 2 ^ (n + 1) = 2 ^ n + 2 ^ n
<1> DEFINE A == 1 .. n
           B == 1 .. n + 1
           P == {s \cup {n + 1} : s \in SUBSET A}
<1>1. IsFiniteSet(A) /\ Cardinality(A) = n /\ IsFiniteSet(B)
      /\ Cardinality(B) = n + 1
    BY FS_Interval
<1>2. /\ IsFiniteSet(SUBSET A) /\ Cardinality(SUBSET A) = 2 ^ n
      /\ IsFiniteSet(SUBSET B) /\ Cardinality(SUBSET B) = 2 ^ (n + 1)
    BY <1>1, FS_SUBSET
<1>3. IsFiniteSet(P) /\ Cardinality(P) = Cardinality(SUBSET A)
  <2> DEFINE f == [s \in SUBSET A |-> s \cup {n + 1}]
  <2>1. \A s, t \in SUBSET A : s \cup {n + 1} = t \cup {n + 1} => s = t
    <3> TAKE s, t \in SUBSET A
    <3>1. n + 1 \notin s /\ n + 1 \notin t
      OBVIOUS
    <3> QED BY <3>1
  <2>2. f \in Surjection(SUBSET A, P)
    BY DEF Surjection
  <2>3. f \in Injection(SUBSET A, P)
    <3>1. f \in [SUBSET A -> P] /\ \A s, t \in SUBSET A : f[s] = f[t] => s = t
      <4>1. f \in [SUBSET A -> P]
        OBVIOUS
      <4>2. ASSUME NEW s \in SUBSET A, NEW t \in SUBSET A, f[s] = f[t]
                   PROVE s = t
        BY <2>1, <4>2
      <4> QED BY <4>1, <4>2
    <3> HIDE DEF f
    <3> QED BY <3>1, Fun_IsInj
  <2>4. ExistsBijection(SUBSET A, P)
    BY <2>2, <2>3 DEF ExistsBijection, Bijection
  <2> QED BY <1>2, <2>4, FS_Bijection
<1>4. SUBSET B = (SUBSET A) \cup P
  <2>1. ASSUME NEW s \in SUBSET B PROVE s \in (SUBSET A) \cup P
    <3>1. CASE n + 1 \in s
      <4>1. s = (s \ {n + 1}) \cup {n + 1} /\ s \ {n + 1} \in SUBSET A
        BY <3>1
      <4> QED BY <4>1
    <3>2. CASE n + 1 \notin s
      <4>1. s \subseteq A
        BY <3>2
      <4> QED BY <4>1
    <3> QED BY <3>1, <3>2
  <2>2. ASSUME NEW s \in SUBSET A
               PROVE s \in SUBSET B /\ s \cup {n + 1} \in SUBSET B
    OBVIOUS
  <2>3. SUBSET B \subseteq (SUBSET A) \cup P
    BY <2>1
  <2>4. ASSUME NEW t \in (SUBSET A) \cup P PROVE t \in SUBSET B
    <3>1. CASE t \in SUBSET A
      BY <3>1, <2>2
    <3>2. CASE t \in P
      BY <3>2, <2>2
    <3> QED BY <3>1, <3>2
  <2> QED BY <2>3, <2>4
<1>5. (SUBSET A) \cap P = {}
    OBVIOUS
<1>6. Cardinality(SUBSET B) = Cardinality(SUBSET A) + Cardinality(P)
  <2>1. Cardinality({}) = 0
    BY FS_EmptySet
  <2>2. /\ Cardinality((SUBSET A) \cup P)
           = Cardinality(SUBSET A) + Cardinality(P) - Cardinality((SUBSET A) \cap P)
    BY <1>2, <1>3, FS_Union
  <2>3. Cardinality(SUBSET A) \in Nat
    BY <1>2, FS_CardinalityType
  <2> DEFINE SA == SUBSET A
             SB == SUBSET B
  <2>4. /\ Cardinality(SA \cup P)
              = Cardinality(SA) + Cardinality(P) - Cardinality(SA \cap P)
        /\ SB = SA \cup P /\ SA \cap P = {}
        /\ Cardinality(SA) \in Nat /\ Cardinality(P) = Cardinality(SA)
    BY <1>3, <1>4, <1>5, <2>2, <2>3
  <2> HIDE DEF SA, SB, P
  <2>5. Cardinality(SB) = Cardinality(SA \cup P) /\ Cardinality(SA \cap P) = 0
    BY <2>1, <2>4, Zenon
  <2>6. Cardinality(SB) = Cardinality(SA) + Cardinality(P)
    BY <2>4, <2>5
  <2> QED BY <2>6 DEF SA, SB
<1>7. 2 ^ n \in Nat
    BY <1>2, FS_CardinalityType
<1> QED BY <1>2, <1>3, <1>6, <1>7

-----------------------------------------------------------------------------
(* The operators the core, its instruction set and this module share.      *)

(* Core and instruction set mean the same by the operators they share.     *)
LEMMA CpuData ==
    /\ Cpu!Value = Value /\ Cpu!LaneNo = LaneNo
    /\ Cpu!Upper = Upper /\ Cpu!Branches = Branches /\ Cpu!Loads = Loads
    /\ Cpu!UnsignedLoads = UnsignedLoads /\ Cpu!Stores = Stores
    /\ Cpu!ShiftImm = ShiftImm /\ Cpu!Immediates = Immediates
    /\ Cpu!ShiftReg = ShiftReg /\ Cpu!RegReg = RegReg /\ Cpu!Native = Native
    /\ \A v : Cpu!Align(v) = Align(v) /\ Cpu!ClearBit0(v) = ClearBit0(v)
    /\ \A v, w : Cpu!Plus(v, w) = Plus(v, w) /\ Cpu!Minus(v, w) = Minus(v, w)
    /\ \A v, w : Cpu!ShiftLeft(v, w) = ShiftLeft(v, w)
    /\ \A o : Cpu!Size(o) = Size(o)
    /\ \A v, w : Cpu!Misaligned(v, w) = Misaligned(v, w)
    /\ \A v, w : Cpu!Strobe(v, w) = Strobe(v, w)
    /\ \A v, w : Cpu!Replicated(v, w) = Replicated(v, w)
    /\ \A v, w, x : Cpu!Selected(v, w, x) = Selected(v, w, x)
    /\ \A v, w : Cpu!SignExtended(v, w) = SignExtended(v, w)
<1>1. Cpu!Value = Value /\ Cpu!LaneNo = LaneNo /\ Cpu!V = V
      /\ Cpu!Scale = Scale
    BY DEF Cpu!Value, Value, Cpu!V, V, Cpu!LaneNo, LaneNo, Cpu!Scale, Scale
<1>2. /\ Cpu!Upper = Upper /\ Cpu!Branches = Branches /\ Cpu!Loads = Loads
      /\ Cpu!UnsignedLoads = UnsignedLoads /\ Cpu!Stores = Stores
      /\ Cpu!ShiftImm = ShiftImm /\ Cpu!Immediates = Immediates
      /\ Cpu!ShiftReg = ShiftReg /\ Cpu!RegReg = RegReg /\ Cpu!Native = Native
    BY DEF Cpu!Upper, Cpu!Branches, Cpu!Loads, Cpu!UnsignedLoads, Cpu!Stores,
           Cpu!ShiftImm, Cpu!Immediates, Cpu!ShiftReg, Cpu!RegReg, Cpu!Native,
           Upper, Branches, Loads, UnsignedLoads, Stores, ShiftImm, Immediates,
           ShiftReg, RegReg, Native
<1>3. /\ \A v : Cpu!Align(v) = Align(v) /\ Cpu!ClearBit0(v) = ClearBit0(v)
      /\ \A v, w : Cpu!Plus(v, w) = Plus(v, w) /\ Cpu!Minus(v, w) = Minus(v, w)
      /\ \A v, w : Cpu!ShiftLeft(v, w) = ShiftLeft(v, w)
      /\ \A o : Cpu!Size(o) = Size(o)
    BY <1>1
       DEF Cpu!Align, Align, Cpu!ClearBit0, ClearBit0, Cpu!Plus, Plus,
           Cpu!Minus, Minus, Cpu!ShiftLeft, ShiftLeft, Cpu!Size, Size
<1>4. /\ \A v, w : Cpu!Misaligned(v, w) = Misaligned(v, w)
      /\ \A v, w : Cpu!Strobe(v, w) = Strobe(v, w)
      /\ \A v, w : Cpu!SignExtended(v, w) = SignExtended(v, w)
      /\ \A v : Cpu!Split(v) = Split(v)
    BY <1>1, <1>3
       DEF Cpu!Misaligned, Misaligned, Cpu!Strobe, Strobe, Cpu!SignExtended,
           SignExtended, Cpu!Split, Split
<1>5. /\ \A v, w : Cpu!Replicated(v, w) = Replicated(v, w)
      /\ \A v, w, x : Cpu!Selected(v, w, x) = Selected(v, w, x)
    BY <1>1, <1>4 DEF Cpu!Replicated, Replicated, Cpu!Selected, Selected
<1> QED BY <1>1, <1>2, <1>3, <1>4, <1>5

(* The instruction set computes with the same data as the core.            *)
LEMMA IsaData ==
    /\ IsaOfCore!Value = Value /\ IsaOfCore!LaneNo = LaneNo
    /\ IsaOfCore!Branches = Branches /\ IsaOfCore!Loads = Loads
    /\ IsaOfCore!Stores = Stores /\ IsaOfCore!Foreign = Foreign
    /\ \A v : IsaOfCore!Align(v) = Align(v)
       /\ IsaOfCore!ClearBit0(v) = ClearBit0(v)
    /\ \A v, w : IsaOfCore!Plus(v, w) = Plus(v, w)
       /\ IsaOfCore!Minus(v, w) = Minus(v, w)
    /\ \A v, w : IsaOfCore!ShiftLeft(v, w) = ShiftLeft(v, w)
    /\ \A o : IsaOfCore!Size(o) = Size(o)
    /\ \A v, w : IsaOfCore!SignExtended(v, w) = SignExtended(v, w)
    /\ \A v : IsaOfCore!Split(v) = Split(v) /\ IsaOfCore!Join(v) = Join(v)
              /\ IsaOfCore!DataWord(v) = DataWord(v)
    /\ IsaOfCore!Scale = Scale
<1>1. IsaOfCore!Value = Value /\ IsaOfCore!LaneNo = LaneNo /\ IsaOfCore!V = V
      /\ IsaOfCore!Scale = Scale
    BY DEF IsaOfCore!Value, Value, IsaOfCore!V, V, IsaOfCore!LaneNo, LaneNo,
           IsaOfCore!Scale, Scale
<1>2. /\ IsaOfCore!Branches = Branches /\ IsaOfCore!Loads = Loads
      /\ IsaOfCore!Stores = Stores /\ IsaOfCore!Foreign = Foreign
    BY DEF IsaOfCore!Branches, IsaOfCore!Loads, IsaOfCore!UnsignedLoads,
           IsaOfCore!Stores, Branches, Loads, UnsignedLoads, Stores,
           IsaOfCore!Foreign, Foreign
<1>3. /\ \A v : IsaOfCore!Align(v) = Align(v)
         /\ IsaOfCore!ClearBit0(v) = ClearBit0(v)
      /\ \A v, w : IsaOfCore!Plus(v, w) = Plus(v, w)
         /\ IsaOfCore!Minus(v, w) = Minus(v, w)
      /\ \A v, w : IsaOfCore!ShiftLeft(v, w) = ShiftLeft(v, w)
      /\ \A o : IsaOfCore!Size(o) = Size(o)
    BY <1>1
       DEF IsaOfCore!Align, Align, IsaOfCore!ClearBit0, ClearBit0,
           IsaOfCore!Plus, Plus, IsaOfCore!Minus, Minus, IsaOfCore!ShiftLeft,
           ShiftLeft, IsaOfCore!Size, Size
<1>4. /\ \A v, w : IsaOfCore!SignExtended(v, w) = SignExtended(v, w)
      /\ \A v : IsaOfCore!Split(v) = Split(v) /\ IsaOfCore!Join(v) = Join(v)
              /\ IsaOfCore!DataWord(v) = DataWord(v)
    BY <1>1, <1>3 DEF 
           IsaOfCore!SignExtended, SignExtended, IsaOfCore!Split, Split,
           IsaOfCore!Join, Join, IsaOfCore!DataWord, DataWord, IsaOfCore!Instr,
           Instr
<1> QED BY <1>1, <1>2, <1>3, <1>4

-----------------------------------------------------------------------------
(* Shifts and byte lanes.                                                  *)

(* A shift gives a value, and a shift by nothing changes nothing.          *)
LEMMA ShiftType ==
    ASSUME NEW v \in Value, NEW n \in Nat
    PROVE  ShiftLeft(v, n) \in Value /\ ShiftLeft(v, 0) = v
<1>1. V \in Nat /\ V >= 16
    BY ValueRange
<1> HIDE DEF V
<1>2. v * 2 ^ n \in Int /\ v * 2 ^ 0 = v
    BY Doubling DEF Value
<1> QED BY <1>1, <1>2 DEF ShiftLeft, Value

(* The serial shifter: one place, or four, and the rest later.             *)
LEMMA ShiftInSteps ==
    ASSUME NEW v \in Value, NEW n \in Nat, NEW k \in {1, 4}, k <= n
    PROVE  ShiftLeft(ShiftLeft(v, k), n - k) = ShiftLeft(v, n)
<1>1. \A i \in Nat : 2 ^ i \in Nat /\ 2 ^ (i + 1) = 2 ^ i + 2 ^ i
    BY Doubling
<1>2. n - k \in Nat
    OBVIOUS
<1> DEFINE p == 2 ^ (n - k)
<1>3. p \in Nat
    BY <1>1, <1>2
<1>4. 2 ^ k \in Nat /\ 2 ^ n = 2 ^ k * p
  <2>1. CASE k = 1
    <3>1. (n - 1) + 1 = n
      OBVIOUS
    <3>2. 2 ^ n = p + p
      BY <1>1, <1>2, <2>1, <3>1
    <3> HIDE DEF p
    <3>3. 2 ^ k = 2
      BY <2>1
    <3> QED BY <1>3, <3>2, <3>3
  <2>2. CASE k = 4
    <3>1. (n - 4) + 1 = n - 3 /\ (n - 3) + 1 = n - 2 /\ (n - 2) + 1 = n - 1
          /\ (n - 1) + 1 = n /\ n - 3 \in Nat /\ n - 2 \in Nat /\ n - 1 \in Nat
      BY <2>2
    <3>2. 2 ^ (n - 3) = p + p
      BY <1>1, <1>2, <2>2, <3>1
    <3>3. 2 ^ (n - 2) = 2 ^ (n - 3) + 2 ^ (n - 3)
      BY <1>1, <3>1
    <3>4. 2 ^ (n - 1) = 2 ^ (n - 2) + 2 ^ (n - 2)
      BY <1>1, <3>1
    <3>5. 2 ^ n = 2 ^ (n - 1) + 2 ^ (n - 1)
      BY <1>1, <3>1
    <3> HIDE DEF p
    <3>6. 2 ^ k = 16
      BY <2>2
    <3> QED BY <1>3, <3>2, <3>3, <3>4, <3>5, <3>6
  <2> QED BY <2>1, <2>2
<1>5. V \in Nat \ {0}
    BY ValueRange
<1> DEFINE x == v * 2 ^ k
<1>6. x \in Int /\ v * 2 ^ n = x * p
    BY <1>3, <1>4 DEF Value
<1> HIDE DEF x, p, V
<1>7. ((x % V) * p) % V = (x * p) % V
    BY <1>3, <1>5, <1>6, ModTwice
<1> QED BY <1>6, <1>7 DEF ShiftLeft, x, p

(* The values of a lane.                                                   *)
ByteNo == 0 .. Base - 1

(* Two digits make a number of two digits.                                 *)
LEMMA Digits ==
    ASSUME NEW m \in Nat \ {0}, NEW x \in 0 .. m - 1, NEW y \in ByteNo
    PROVE  x + y * m \in 0 .. Base * m - 1
<1>1. Base \in Nat /\ y \in Nat /\ y <= Base - 1 /\ x <= m - 1
    BY BaseAssumption DEF ByteNo
<1>2. y * m <= (Base - 1) * m
    BY <1>1
<1>3. (Base - 1) * m = Base * m - m
    BY <1>1
<1>4. y * m \in Nat /\ Base * m \in Nat
    BY <1>1
<1> QED BY <1>1, <1>2, <1>3, <1>4

(* Four lanes make a value.                                                *)
LEMMA JoinType ==
    ASSUME NEW w \in [LaneNo -> ByteNo]
    PROVE  Join(w) \in Value
<1>1. Base \in Nat \ {0} /\ Base * Base \in Nat \ {0}
      /\ Base * Base * Base \in Nat \ {0}
    BY BaseAssumption
<1>2. w[0] \in ByteNo /\ w[1] \in ByteNo /\ w[2] \in ByteNo /\ w[3] \in ByteNo
    BY DEF LaneNo
<1>3. w[0] + w[1] * Base \in 0 .. Base * Base - 1
    BY <1>1, <1>2, Digits DEF ByteNo
<1> DEFINE b2 == Base * Base
           x == w[0] + w[1] * Base
           b3 == Base * b2
           y == x + w[2] * b2
<1>4. y \in 0 .. b3 - 1
  <2> HIDE DEF x, b2
  <2>1. x \in 0 .. b2 - 1 /\ b2 \in Nat \ {0}
    BY <1>1, <1>3 DEF x, b2
  <2> QED BY <1>2, <2>1, Digits
<1>5. y + w[3] * b3 \in 0 .. Base * b3 - 1
  <2>1. b3 \in Nat \ {0}
    BY <1>1
  <2> HIDE DEF y, b3
  <2> QED BY <1>2, <1>4, <2>1, Digits
<1>6. Base * b3 = V /\ y + w[3] * b3 = Join(w)
    BY <1>1, <1>2 DEF V, Join, ByteNo
<1> QED BY <1>5, <1>6 DEF Value

(* A value is made of four lanes.                                          *)
LEMMA SplitType ==
    ASSUME NEW v \in Int
    PROVE  Split(v) \in [LaneNo -> ByteNo]
<1>1. Base \in Nat \ {0} /\ Base * Base \in Nat \ {0}
      /\ Base * Base * Base \in Nat \ {0}
    BY BaseAssumption
<1>2. \A l \in LaneNo : Scale[l] \in Nat \ {0}
    BY <1>1 DEF Scale, LaneNo
<1>3. ASSUME NEW l \in LaneNo PROVE (v \div Scale[l]) % Base \in ByteNo
  <2>1. v \div Scale[l] \in Int
    BY <1>2, Remainder
  <2> QED BY <1>1, <2>1, Remainder DEF ByteNo
<1> QED BY <1>3 DEF Split

(* Dividing by a product is dividing twice.                                *)
LEMMA DivTwice ==
    ASSUME NEW v \in Int, NEW a \in Nat \ {0}, NEW b \in Nat \ {0}
    PROVE  v \div (a * b) = (v \div a) \div b
<1> DEFINE q == v \div a
           r == v % a
           s == q \div b
           t == q % b
<1>1. q \in Int /\ r \in 0 .. a - 1 /\ v = a * q + r
    BY Remainder
<1>2. s \in Int /\ t \in 0 .. b - 1 /\ q = b * s + t
    BY <1>1, Remainder
<1> HIDE DEF q, r, s, t
<1>3. v = (a * b) * s + (r + t * a)
    BY <1>1, <1>2
<1>4. r + t * a \in 0 .. a * b - 1
  <2>1. t * a <= (b - 1) * a
    BY <1>2
  <2>2. (b - 1) * a = a * b - a /\ t * a \in Nat /\ a * b \in Nat
    BY <1>2
  <2> QED BY <1>1, <2>1, <2>2
<1>5. a * b \in Nat \ {0}
    OBVIOUS
<1> DEFINE c == a * b
           u == r + t * a
<1>6. v = c * s + u /\ u \in 0 .. c - 1 /\ c \in Nat \ {0}
    BY <1>3, <1>4, <1>5
<1> HIDE DEF c, u
<1>7. v \div c = s
    BY <1>2, <1>6, Quotient
<1> QED BY <1>7 DEF c, s, q

(* The lanes of a value make that value again.                             *)
LEMMA JoinSplit ==
    ASSUME NEW v \in Value
    PROVE  Join(Split(v)) = v
<1> DEFINE q1 == v \div Base
           q2 == q1 \div Base
           q3 == q2 \div Base
           b2 == Base * Base
           b3 == Base * Base * Base
<1>1. Base \in Nat \ {0} /\ b2 \in Nat \ {0} /\ b3 \in Nat \ {0} /\ v \in Int
    BY BaseAssumption, ValueRange DEF Value
<1>2. q1 \in Int /\ v % Base \in Int /\ v = Base * q1 + (v % Base)
    BY <1>1, Remainder
<1>3. q2 \in Int /\ q1 % Base \in Int /\ q1 = Base * q2 + (q1 % Base)
  <2> HIDE DEF q1
  <2> QED BY <1>1, <1>2, Remainder
<1>4. q3 \in Int /\ q2 % Base \in Int /\ q2 = Base * q3 + (q2 % Base)
  <2> HIDE DEF q2
  <2> QED BY <1>1, <1>3, Remainder
<1>5. v \div b2 = q2
    BY <1>1, DivTwice
<1>6. v \div b3 = q3
  <2>1. v \div (b2 * Base) = (v \div b2) \div Base
    BY <1>1, DivTwice
  <2> QED BY <1>5, <2>1
<1>7. q3 \in 0 .. Base - 1
  <2> DEFINE r == v % b3
  <2>1. v = b3 * q3 + r /\ r \in 0 .. b3 - 1
    BY <1>1, <1>6, Remainder
  <2>2. v >= 0 /\ v < b3 * Base
    BY <1>1 DEF Value, V
  <2> HIDE DEF q3, b3, r
  <2>3. b3 * q3 < b3 * Base /\ b3 * q3 > b3 * (-1)
    BY <1>1, <1>4, <2>1, <2>2
  <2>4. q3 < Base
    <3> SUFFICES ASSUME q3 >= Base PROVE FALSE
      BY <1>1, <1>4
    <3>1. b3 * q3 >= b3 * Base
      BY <1>1, <1>4
    <3> QED BY <1>1, <1>4, <2>3, <3>1
  <2>5. q3 > -1
    <3> SUFFICES ASSUME q3 <= -1 PROVE FALSE
      BY <1>1, <1>4
    <3>1. b3 * q3 <= b3 * (-1)
      BY <1>1, <1>4
    <3> QED BY <1>1, <1>4, <2>3, <3>1
  <2> QED BY <1>1, <1>4, <2>4, <2>5
<1>8. /\ Split(v)[0] = v % Base /\ Split(v)[1] = q1 % Base
      /\ Split(v)[2] = q2 % Base /\ Split(v)[3] = q3
  <2>1. v \div 1 = v
    BY <1>1
  <2>2. q3 % Base = q3
    BY <1>1, <1>7
  <2> HIDE DEF q2, q3
  <2> QED BY <1>5, <1>6, <2>1, <2>2 DEF Split, Scale, LaneNo
<1> DEFINE r0 == v % Base
           r1 == q1 % Base
           r2 == q2 % Base
<1>9. Join(Split(v))
         = r0 + r1 * Base + r2 * Base * Base + q3 * Base * Base * Base
    BY <1>8 DEF Join
<1> HIDE DEF q1, q2, q3, r0, r1, r2
<1>10. v = Base * q1 + r0 /\ q1 = Base * q2 + r1 /\ q2 = Base * q3 + r2
       /\ r0 \in Int /\ r1 \in Int /\ r2 \in Int
    BY <1>2, <1>3, <1>4 DEF r0, r1, r2
<1>11. Base * q1 = Base * r1 + Base * Base * r2 + Base * Base * Base * q3
  <2>1. Base * q2 = Base * r2 + Base * Base * q3
    BY <1>1, <1>4, <1>10
  <2> QED BY <1>1, <1>3, <1>4, <1>10, <2>1
<1> QED BY <1>1, <1>4, <1>9, <1>10, <1>11

-----------------------------------------------------------------------------
(* The bytes that a load sees and those that a store writes.               *)

(* An address is its word and its lane, and an access within the word      *)
(* stays in it.                                                            *)
LEMMA Alignment ==
    ASSUME NEW a \in Int
    PROVE  /\ a % 4 \in 0 .. 3 /\ Align(a) \in Int /\ a = Align(a) + (a % 4)
           /\ \A l \in 0 .. 3 : (a % 4) + l < 4 =>
                  Align(a + l) = Align(a) /\ (a + l) % 4 = (a % 4) + l
<1> DEFINE q == a \div 4
           r == a % 4
<1>1. r \in 0 .. 3 /\ q \in Int /\ a = 4 * q + r
    BY Remainder
<1>2. ASSUME NEW l \in 0 .. 3, r + l < 4
      PROVE  (a + l) - ((a + l) % 4) = a - r /\ (a + l) % 4 = r + l
  <2>1. a + l = 4 * q + (r + l) /\ r + l \in 0 .. 3
    BY <1>1, <1>2
  <2> HIDE DEF q, r
  <2>2. (4 * q + (r + l)) % 4 = r + l
    BY <1>1, <2>1, Quotient
  <2> QED BY <1>1, <2>1, <2>2
<1> QED BY <1>1, <1>2 DEF Align

(* The bytes a load selects from the word on the bus (mem_rdata_word) are  *)
(* those the instruction set reads one by one.                             *)
LEMMA SelectedBytes ==
    ASSUME NEW m, NEW a \in Value, NEW o \in Loads,
           m[Align(a)].imm \in Value, ~Misaligned(a, Size(o))
    PROVE  /\ IsaOfCore!LoadBytes(m, a, IsaOfCore!Bytes(o))
                = Selected(m[Align(a)].imm, a, Size(o))
           /\ Size(o) = 1 =>
                Selected(m[Align(a)].imm, a, Size(o)) \in 0 .. Base * Base - 1
           /\ Size(o) = 2 => Selected(m[Align(a)].imm, a, Size(o)) \in ByteNo
           /\ Size(o) \in 0 .. 2
<1> DEFINE i == m[Align(a)].imm
           w == Split(i)
           r == a % 4
<1>1. a \in Int /\ i \in Int
    BY ValueRange DEF Value
<1>2. w \in [LaneNo -> ByteNo]
    BY <1>1, SplitType
<1>3. Base \in Nat \ {0}
    BY BaseAssumption
<1>4. r \in 0 .. 3 /\ \A l \in 0 .. 3 : r + l < 4 =>
          IsaOfCore!ByteAt(m, a + l) = w[r + l]
    BY <1>1, Alignment, IsaData DEF IsaOfCore!ByteAt
<1>5. Join(w) = i
    BY JoinSplit
<1>6. \A n : IsaOfCore!LoadBytes(m, a, n) =
          Join([l \in LaneNo |-> IF l < n THEN IsaOfCore!ByteAt(m, a + l)
             ELSE 0])
    BY IsaData DEF IsaOfCore!LoadBytes
<1>7. IsaOfCore!Bytes(o) = CASE Size(o) = 0 -> 4 [] Size(o) = 1 -> 2
      [] Size(o) = 2 -> 1
    BY IsaData DEF IsaOfCore!Bytes
<1>8. w[0] \in ByteNo /\ w[1] \in ByteNo /\ w[2] \in ByteNo /\ w[3] \in ByteNo
    BY <1>2 DEF LaneNo
<1>9. Misaligned(a, Size(o)) <=>
        (Size(o) = 0 /\ r # 0) \/ (Size(o) = 1 /\ a % 2 # 0)
    BY DEF Misaligned
<1>10. a % 2 = r % 2
    BY <1>1
<1>11. /\ Size(o) = 0 => Selected(i, a, Size(o)) = i
       /\ Size(o) = 1 =>
            Selected(i, a, Size(o)) = IF r \in {2, 3} THEN w[2] + w[3] * Base
               ELSE w[0] + w[1] * Base
       /\ Size(o) = 2 => Selected(i, a, Size(o)) = w[r]
    BY DEF Selected
<1> HIDE DEF i, w, r
<1>12. CASE o = "lw"
  <2>1. Size(o) = 0
    BY <1>12 DEF Size
  <2>2. r = 0 /\ IsaOfCore!Bytes(o) = 4
    BY <2>1, <1>7, <1>9
  <2>3. [l \in LaneNo |-> IF l < 4 THEN IsaOfCore!ByteAt(m, a + l) ELSE 0] = w
    BY <1>2, <1>4, <2>2 DEF LaneNo
  <2> QED BY <1>5, <1>6, <1>11, <2>1, <2>2, <2>3 DEF i
<1>13. CASE o \in {"lh", "lhu"}
  <2>1. Size(o) = 1
    BY <1>13 DEF Size
  <2>2. r \in {0, 2} /\ IsaOfCore!Bytes(o) = 2
    BY <1>4, <1>10, <2>1, <1>7, <1>9
  <2> DEFINE x ==
    [l \in LaneNo |-> IF l < 2 THEN IsaOfCore!ByteAt(m, a + l) ELSE 0]
  <2>3. x[0] = w[r] /\ x[1] = w[r + 1] /\ x[2] = 0 /\ x[3] = 0
    BY <1>4, <2>2 DEF LaneNo
  <2>4. Join(x) = w[r] + w[r + 1] * Base
    <3> HIDE DEF x
    <3>1. w[r] \in ByteNo /\ w[r + 1] \in ByteNo
      BY <1>8, <2>2
    <3> QED BY <1>3, <2>3, <3>1 DEF Join, ByteNo
  <2>5. w[r] + w[r + 1] * Base \in 0 .. Base * Base - 1
    <3>1. w[r] \in 0 .. Base - 1 /\ w[r + 1] \in ByteNo
      BY <1>8, <2>2 DEF ByteNo
    <3> QED BY <1>3, <3>1, Digits
  <2> QED BY <1>6, <1>11, <2>1, <2>2, <2>4, <2>5 DEF i
<1>14. CASE o \in {"lb", "lbu"}
  <2>1. Size(o) = 2
    BY <1>14 DEF Size
  <2>2. IsaOfCore!Bytes(o) = 1
    BY <2>1, <1>7
  <2> DEFINE x ==
    [l \in LaneNo |-> IF l < 1 THEN IsaOfCore!ByteAt(m, a + l) ELSE 0]
  <2>3. x[0] = w[r] /\ x[1] = 0 /\ x[2] = 0 /\ x[3] = 0
    BY <1>4 DEF LaneNo
  <2>4. w[r] \in ByteNo
    BY <1>4, <1>8
  <2>5. Join(x) = w[r]
    <3> HIDE DEF x
    <3> QED BY <1>3, <2>3, <2>4 DEF Join, ByteNo
  <2> QED BY <1>6, <1>11, <2>1, <2>2, <2>4, <2>5 DEF i
<1> QED BY <1>12, <1>13, <1>14 DEF Loads, UnsignedLoads, i

(* The bytes of a store are those its strobes write, at the address        *)
(* rounded down.                                                           *)
LEMMA StrobedBytes ==
    ASSUME NEW a \in Value, NEW v, NEW o \in Stores
    PROVE  LET n == IsaOfCore!Bytes(o)
               s == Strobe(a, Size(o))
           IN  /\ s \subseteq LaneNo /\ s # {}
               /\ n \in {1, 2, 4}
               /\ Misaligned(a, Size(o)) <=> a % n # 0
               /\ IsaOfCore!BytesOf(a - (a % n), v, n)
                    = [x \in {Align(a) + l : l \in s} |->
                            Replicated(v, Size(o))[x - Align(a)]]
<1> DEFINE n == IsaOfCore!Bytes(o)
           s == Strobe(a, Size(o))
           w == Split(v)
           r == a % 4
           b == Align(a)
<1>1. a \in Int
    BY ValueRange DEF Value
<1>2. r \in 0 .. 3 /\ b \in Int /\ a = b + r
    BY <1>1, Alignment
<1>3. n = CASE Size(o) = 0 -> 4 [] Size(o) = 1 -> 2 [] Size(o) = 2 -> 1
    BY IsaData DEF IsaOfCore!Bytes
<1>4. \A c, k : IsaOfCore!BytesOf(c, v, k)
         = [x \in c .. c + k - 1 |-> w[x - c]]
    BY IsaData DEF IsaOfCore!BytesOf
<1>5. Misaligned(a, Size(o)) <=>
        (Size(o) = 0 /\ r # 0) \/ (Size(o) = 1 /\ a % 2 # 0)
    BY DEF Misaligned
<1>6. a % 2 = r % 2 /\ a % 1 = 0
    BY <1>1
<1>7. /\ Size(o) = 0 => s = LaneNo /\ Replicated(v, Size(o)) = w
      /\ Size(o) = 1 => /\ s = IF r \in {2, 3} THEN {2, 3} ELSE {0, 1}
                        /\ Replicated(v, Size(o)) = [l \in LaneNo |-> w[l % 2]]
      /\ Size(o) = 2 => /\ s = {r}
                        /\ Replicated(v, Size(o)) = [l \in LaneNo |-> w[0]]
    BY DEF Strobe, Replicated
<1>8. r = a % 4
    OBVIOUS
<1> HIDE DEF n, s, r, b, w
<1>9. CASE o = "sw"
  <2>1. Size(o) = 0
    BY <1>9 DEF Size
  <2>2. n = 4 /\ a - (a % n) = b
    BY <1>2, <1>3, <1>8, <2>1
  <2>3. b .. b + 4 - 1 = {b + l : l \in LaneNo}
    BY <1>2 DEF LaneNo
  <2>4. IsaOfCore!BytesOf(b, v, 4)
           = [x \in {b + l : l \in LaneNo} |-> w[x - b]]
    BY <1>4, <2>3
  <2>5. Misaligned(a, Size(o)) <=> a % n # 0
    BY <1>5, <1>8, <2>1, <2>2
  <2> QED BY <1>7, <2>1, <2>2, <2>4, <2>5 DEF n, s, b, LaneNo
<1>10. CASE o = "sh"
  <2>1. Size(o) = 1
    BY <1>10 DEF Size
  <2>2. n = 2 /\ a % n = r % 2
    BY <1>3, <1>6, <2>1
  <2> DEFINE h == IF r \in {2, 3} THEN 2 ELSE 0
  <2>3. s = {h, h + 1} /\ a - (a % n) = b + h
    BY <1>2, <1>7, <2>1, <2>2
  <2>4. (b + h) .. (b + h) + 2 - 1 = {b + l : l \in s}
    BY <1>2, <2>3
  <2>5. \A x \in {b + l : l \in s} : w[x - (b + h)]
           = Replicated(v, Size(o))[x - b]
    BY <1>2, <1>7, <2>1, <2>3 DEF LaneNo
  <2>6. IsaOfCore!BytesOf(b + h, v, 2)
           = [x \in {b + l : l \in s} |-> w[x - (b + h)]]
    <3> DEFINE c == b + h
               D == c .. c + 2 - 1
               S == {b + l : l \in s}
    <3>1. IsaOfCore!BytesOf(c, v, 2) = [x \in D |-> w[x - c]] /\ D = S
      <4> HIDE DEF h
      <4>1. D = S
        BY <2>4
      <4>2. IsaOfCore!BytesOf(c, v, 2) = [x \in D |-> w[x - c]]
        BY <1>4
      <4> QED BY <4>1, <4>2
    <3> HIDE DEF c, D, S
    <3>2. IsaOfCore!BytesOf(c, v, 2) = [x \in S |-> w[x - c]]
      BY <3>1, Zenon
    <3> QED BY <3>2 DEF c, S
  <2>7. IsaOfCore!BytesOf(b + h, v, 2)
           = [x \in {b + l : l \in s} |-> Replicated(v, Size(o))[x - b]]
    BY <2>5, <2>6
  <2>8. Misaligned(a, Size(o)) <=> a % n # 0
    BY <1>5, <2>1, <2>2
  <2>9. s \subseteq LaneNo /\ s # {}
    BY <2>3 DEF LaneNo
  <2> QED BY <2>2, <2>3, <2>7, <2>8, <2>9 DEF n, s, b
<1>11. CASE o = "sb"
  <2>1. Size(o) = 2
    BY <1>11 DEF Size
  <2>2. n = 1 /\ a - (a % n) = a
    BY <1>1, <1>3, <1>6, <2>1
  <2>3. s = {r} /\ a .. a + 1 - 1 = {b + l : l \in s}
    BY <1>1, <1>2, <1>7, <2>1
  <2>4. IsaOfCore!BytesOf(a, v, 1) = [x \in {b + l : l \in s} |-> w[x - a]]
    BY <1>4, <2>3
  <2>5. \A x \in {b + l : l \in s} : w[x - a] = Replicated(v, Size(o))[x - b]
    BY <1>2, <1>7, <2>1, <2>3 DEF LaneNo
  <2>6. IsaOfCore!BytesOf(a, v, 1)
           = [x \in {b + l : l \in s} |-> Replicated(v, Size(o))[x - b]]
    BY <2>4, <2>5
  <2>7. ~Misaligned(a, Size(o)) /\ a % n = 0
    BY <1>5, <1>6, <2>1, <2>2
  <2> QED BY <1>2, <2>2, <2>3, <2>6, <2>7 DEF n, s, b, LaneNo
<1> QED BY <1>9, <1>10, <1>11 DEF Stores, n, s, b

-----------------------------------------------------------------------------
(* The data of the core: its invariant.                                    *)

(* An instruction is executed.                                             *)
Busy == cpu_state \notin {"trap", "fetch"}

(* The program is made of code words, and so is what the decoder holds.    *)
DataTypes ==
    /\ mem \in [MemoryAddresses -> CodeWord]
    /\ cpuregs \in [Regs -> Value]
    /\ reg_pc \in Value /\ reg_next_pc \in Value
    /\ insn1 \in CodeWord /\ insn2 \in CodeWord /\ mem_rdata_q \in CodeWord
    /\ latched_rd \in Regs

(* What the bus does: a store has lanes and bytes, and an answer comes only *)
(* from the memory.                                                        *)
BusInv ==
    /\ mem_wstrb \subseteq LaneNo /\ mem_wdata \in [LaneNo -> ByteNo]
    /\ mem_valid /\ mem_ready => mem_addr \in MemoryAddresses

(* Where execution goes on, and the word that is fetched from there.       *)
Target == IF cpu_state = "fetch" THEN Cpu!current_pc ELSE reg_next_pc

(* A word that is held is that of its address; a word that is held or      *)
(* being fetched is that at the target.                                    *)
PrefetchInv ==
    cpu_state # "trap" =>
        /\ mem_state = 3 =>
            mem_addr \in MemoryAddresses /\ mem_rdata_q = mem[mem_addr]
        /\ mem_state = 3 \/ (mem_state = 1 /\ mem_instr) =>
            mem_addr = Align(Target)

(* In the fetch state: where execution goes on, and what is written back.  *)
FetchInv ==
    cpu_state = "fetch" =>
        /\ Cpu!current_pc \in Value
        /\ Cpu!cpuregs_write => Cpu!cpuregs_wrdata \in Value
        /\ decoder_trigger => Cpu!current_pc % 4 = 0 /\ mem_state = 0
        /\ ~decoder_trigger /\ (mem_do_rinst \/ mem_do_prefetch)
           /\ mem_state = 0 =>
            Cpu!next_pc = Cpu!current_pc
        /\ reg_pc % 4 = 0 \/ reg_pc = Cpu!current_pc
        /\ mem_state # 0 => Cpu!current_pc % 4 = 0 \/ reg_pc = Cpu!current_pc

(* The instruction that is executed, and its operands.                     *)
R1 == Cpu!ReadReg(dbg_insn.rs1)

R2 == Cpu!ReadReg(dbg_insn.rs2)

IsBranch == dbg_insn.op \in Branches

(* The branch is taken.                                                    *)
Taken == (R1 = R2) <=> dbg_insn.op = "beq"

(* While an instruction is executed the decoder holds it (until a load or  *)
(* store has fetched the next one), and its destination, its address and   *)
(* the flags of its result are set.                                        *)
BusyInv ==
    Busy =>
        /\ reg_pc % 4 = 0 /\ reg_next_pc = Plus(reg_pc, 4)
        /\ dbg_insn \in CodeWord /\ dbg_insn.op # "jal"
        /\ ~latched_stalu
        /\ latched_rd = dbg_insn.rd \/ (IsBranch /\ latched_rd = 0)
        /\ latched_branch => cpu_state = "exec" /\ IsBranch
        /\ Operands \/ cpu_state = "stmem" => ~latched_store
        /\ mem_state = 0 /\ mem_do_prefetch => cpu_state = "ld_rs1"
        /\ dbg_insn.op = "jalr" =>
            ~mem_do_prefetch /\ ~mem_do_rinst /\ mem_state = 0
        /\ ~mem_do_rdata /\ ~mem_do_wdata => insn1 = dbg_insn

(* The operands read so far, also those the coprocessor works on.          *)
OperandInv ==
    /\ cpu_state = "ld_rs1" =>
        (is_lui_auipc_jal <=> insn1.op \in Upper \cup {"jal"})
    /\ cpu_state = "ld_rs2" => reg_op1 = R1
    /\ pcpi_valid => reg_op1 = R1 /\ reg_op2 = R2
    /\ WITH_PCPI /\ pcpi_valid /\ xp_state # "IDLE" =>
        /\ xp_a = Split(R1) /\ xp_b = Split(R2) /\ xp_op = dbg_insn.imm
        /\ xp_state = "DONE" => xp_rd = XP!Packed(xp_a, xp_b, xp_op)

(* The operands of the ALU.                                                *)
Operand1 == CASE dbg_insn.op = "lui" -> 0
              [] dbg_insn.op = "auipc" -> reg_pc
              [] OTHER -> R1

Operand2 == CASE dbg_insn.op \in Upper \cup Immediates -> dbg_insn.imm
              [] dbg_insn.op \in ShiftImm -> dbg_insn.rs2
              [] OTHER -> R2

(* A branch that needs two cycles for its comparison.                      *)
SlowBranch == TWO_CYCLE_ALU /\ TWO_CYCLE_COMPARE /\ IsBranch

(* The ALU has its operands; where it has registers of its own, they hold  *)
(* its results once it need not wait.                                      *)
ExecInv ==
    cpu_state = "exec" =>
        /\ reg_op1 = Operand1 /\ reg_op2 = Operand2
        /\ dbg_insn.op \in Upper \cup Immediates \cup Branches \cup RegReg
                \cup (IF BARREL_SHIFTER THEN ShiftImm \cup ShiftReg ELSE {})
        /\ alu_wait_2 => alu_wait /\ SlowBranch
        /\ TWO_CYCLE_ALU /\ ~(alu_wait /\ (SlowBranch => alu_wait_2)) =>
            alu_res = Cpu!AddSubShift /\ alu_eq_r = (reg_op1 = reg_op2)
        /\ TWO_CYCLE_COMPARE /\ IsBranch /\ ~alu_wait => alu_out_0_q = Taken
        /\ latched_store <=> latched_branch

(* What is shifted so far and what is left make the shift.                 *)
ShiftInv ==
    cpu_state = "shift" =>
        /\ dbg_insn.op \in ShiftImm \cup ShiftReg
        /\ reg_op1 \in Value /\ reg_sh \in 0 .. Width
        /\ ShiftLeft(reg_op1, reg_sh) =
           ShiftLeft(R1,
                     (IF dbg_insn.op \in ShiftImm THEN dbg_insn.rs2 ELSE R2)
                          % Width)

(* The next instruction was fetched before the transfer was asked for, and *)
(* the address is that of the instruction.                                 *)
Loaded ==
    /\ mem_do_rdata \/ mem_do_wdata =>
        /\ Align(reg_next_pc) \in MemoryAddresses
        /\ insn1 = mem[Align(reg_next_pc)]
        /\ reg_op1 = Plus(R1, dbg_insn.imm)
        /\ mem_wordsize = Size(dbg_insn.op)
        /\ mem_state # 0 => /\ ~Misaligned(reg_op1, mem_wordsize)
                            /\ mem_addr = Align(reg_op1)
    /\ ~mem_do_rdata /\ ~mem_do_wdata => reg_op1 = R1

(* The states that load and store.                                         *)
AccessInv ==
    /\ cpu_state = "ldmem" =>
        /\ dbg_insn.op \in Loads /\ Loaded
        /\ ~mem_do_rdata =>
            (is_lbu_lhu_lw <=> dbg_insn.op \in UnsignedLoads)
        /\ mem_do_rdata =>
            latched_is = IF dbg_insn.op \in UnsignedLoads THEN {"lu"}
                                                          ELSE {dbg_insn.op}
    /\ cpu_state = "stmem" =>
        /\ dbg_insn.op \in Stores /\ Loaded
        /\ reg_op2 = R2
        /\ mem_state = 2 =>
            /\ mem_wstrb = Strobe(reg_op1, mem_wordsize)
            /\ mem_wdata = Replicated(reg_op2, mem_wordsize)
    /\ cpu_state = "trap" /\ mem_do_wdata => mem_state # 0

(* The data of the core between two edges.                                 *)
DataInv ==
    /\ DataTypes /\ BusInv /\ PrefetchInv /\ FetchInv
    /\ BusyInv /\ OperandInv /\ ExecInv /\ ShiftInv /\ AccessInv

(* A core out of its first reset.                                          *)
Core == ControlInv /\ DataInv

(* From power-up to the first reset the core is as it powers up.           *)
CoreInv == Init \/ Core

(* A word of the program is asked for.                                     *)
Fetching == mem_do_prefetch \/ mem_do_rinst

(* The memory interface starts what is asked for, keeps it on the bus, and *)
(* ends it when it is answered.                                            *)
MemEdge ==
    /\ ~AnyRequest => mem_state = 0 /\ UNCHANGED Cpu!memRegs
    /\ Cpu!mem_done => mem_state # 0 /\ mem_state' = 0
    /\ AnyRequest /\ ~Cpu!mem_done => mem_state' # 0
    /\ mem_state # 0 => UNCHANGED <<mem_addr, mem_wdata, mem_wstrb, mem_instr>>
    /\ mem_state = 0 /\ (Fetching \/ mem_do_rdata) =>
        /\ mem_state' = 1 /\ mem_instr' = Fetching /\ mem_wstrb' = {}
        /\ mem_addr' = IF Fetching THEN Align(Cpu!next_pc) ELSE Align(reg_op1)
        /\ mem_wdata' = mem_wdata
    /\ mem_state = 0 /\ mem_do_wdata =>
        /\ mem_state' = 2 /\ mem_addr' = Align(reg_op1)
        /\ mem_wstrb' = Strobe(reg_op1, mem_wordsize)
        /\ mem_wdata' = Replicated(reg_op2, mem_wordsize)
    /\ mem_state' = 3 =>
        mem_state = 3 \/ (mem_state = 1 /\ mem_valid /\ mem_ready)
    /\ mem_state' = mem_state \/ mem_state = 0 \/ mem_state' = 0
       \/ mem_state' = 3

(* The memory interface does what MemEdge says.                            *)
LEMMA MemoryEdge ==
    ASSUME ControlInv, resetn, ~trap, Next
    PROVE  MemEdge
<1> USE CpuData
       DEF MemEdge, AnyRequest, Fetching, ControlInv, InterfaceInv, FlagTypes,
           Booleans, RequestInv, Cpu!memRegs, Cpu!mem_done, Cpu!mem_xfer,
           Cpu!mem_la_read, Cpu!mem_la_write, Cpu!mem_la_addr
<1>1. CASE Cpu!MemIdle \/ Cpu!MemWait
    BY <1>1 DEF Cpu!MemIdle, Cpu!MemWait
<1>2. CASE Cpu!MemStartRead
    BY <1>2 DEF Cpu!MemStartRead
<1>3. CASE Cpu!MemStartWrite
    BY <1>3 DEF Cpu!MemStartWrite
<1>4. CASE Cpu!MemReadDone \/ Cpu!MemWriteDone \/ Cpu!MemPrefetched
    BY <1>4 DEF Cpu!MemReadDone, Cpu!MemWriteDone, Cpu!MemPrefetched
<1> QED BY <1>1, <1>2, <1>3, <1>4
           DEF Next, Cpu!Edge, Cpu!MemoryInterface, Cpu!MemHalted

-----------------------------------------------------------------------------
(* The memory and the words in the decoder.                                *)

(* A word written by lanes is a word of data.                              *)
LEMMA WrittenType ==
    ASSUME NEW w \in CodeWord, NEW s, NEW d \in [LaneNo -> ByteNo]
    PROVE  Written(w, s, d) \in CodeWord
<1> DEFINE x == [l \in LaneNo |-> IF l \in s THEN d[l] ELSE Split(w.imm)[l]]
<1>1. w.imm \in Int
    BY ValueRange DEF CodeWord, MemWord, Value
<1>2. Split(w.imm) \in [LaneNo -> ByteNo]
    BY <1>1, SplitType
<1>3. x \in [LaneNo -> ByteNo]
    BY <1>2
<1>4. Join(x) \in Value
    BY <1>3, JoinType
<1>5. Written(w, s, d) = DataWord(Join(x))
    BY DEF Written
<1> HIDE DEF x
<1> QED BY <1>4, <1>5, RegsAssumption
           DEF DataWord, Instr, CodeWord, MemWord, Fences, Foreign

(* What an edge does to the memory.                                        *)
MemStep ==
    /\ mem' \in [MemoryAddresses -> CodeWord]
    /\ ~(mem_valid /\ mem_ready /\ mem_wstrb # {}) => mem' = mem
    /\ mem_valid /\ mem_ready /\ mem_wstrb # {} =>
        /\ mem_addr \in MemoryAddresses
        /\ \/ mem' = [mem EXCEPT ![mem_addr] = Written(@, mem_wstrb,
                                                       mem_wdata)]
           \/ ~resetn /\ mem' = mem

(* The memory does what MemStep says, and answers only where it is.        *)
LEMMA MemoryStep ==
    ASSUME DataTypes, BusInv, Next
    PROVE  MemStep /\ (mem_valid' /\ mem_ready' =>
             mem_addr' \in MemoryAddresses)
<1>1. mem \in [MemoryAddresses -> CodeWord] /\ mem_wdata \in [LaneNo -> ByteNo]
      /\ (mem_valid /\ mem_ready => mem_addr \in MemoryAddresses)
    BY DEF DataTypes, BusInv
<1>2. NativeBus!Store /\ NativeBus!Answer
    BY DEF Next, Memory
<1>3. CASE mem_valid /\ mem_ready /\ mem_wstrb # {}
  <2> DEFINE new == Written(mem[mem_addr], mem_wstrb, mem_wdata)
  <2>1. mem_addr \in MemoryAddresses /\ mem[mem_addr] \in CodeWord
    BY <1>1, <1>3
  <2>2. new \in CodeWord
    BY <1>1, <2>1, WrittenType
  <2>3. mem' = [mem EXCEPT ![mem_addr] = Written(@, mem_wstrb, mem_wdata)]
        \/ (~resetn /\ mem' = mem)
    BY <1>2, <1>3 DEF NativeBus!Store, NativeBus!Stored
  <2>4. [mem EXCEPT ![mem_addr] = new] \in [MemoryAddresses -> CodeWord]
    <3> HIDE DEF new
    <3> QED BY <1>1, <2>1, <2>2
  <2> QED BY <1>1, <1>2, <1>3, <2>1, <2>3, <2>4 DEF MemStep, NativeBus!Answer
<1>4. CASE ~(mem_valid /\ mem_ready /\ mem_wstrb # {})
    BY <1>1, <1>2, <1>4 DEF NativeBus!Store, NativeBus!Answer, MemStep
<1> QED BY <1>3, <1>4

(* The words in the decoder are words of the program or of data.           *)
LEMMA WordsStep ==
    ASSUME DataTypes, BusInv, Next
    PROVE  insn1' \in CodeWord /\ insn2' \in CodeWord
           /\ mem_rdata_q' \in CodeWord
<1>1. /\ insn1 \in CodeWord /\ insn2 \in CodeWord /\ mem_rdata_q \in CodeWord
      /\ mem \in [MemoryAddresses -> CodeWord]
    BY DEF DataTypes
<1>2. Cpu!mem_xfer => mem_rdata \in CodeWord
    BY <1>1 DEF Cpu!mem_xfer, mem_rdata, BusInv
<1>3. ASSUME NEW w \in CodeWord, NEW c PROVE Cpu!Cleared(w, c) \in CodeWord
    BY <1>3, RegsAssumption DEF Cpu!Cleared, CodeWord, MemWord, Fences, Foreign
<1>4. Cpu!mem_rdata_latched \in CodeWord
    BY <1>1, <1>2 DEF Cpu!mem_rdata_latched
<1> DEFINE w1 == IF mem_do_rinst /\ Cpu!mem_done THEN Cpu!mem_rdata_latched
                                                   ELSE insn1
           w2 == IF Cpu!SecondStage THEN mem_rdata_q ELSE insn2
           c1 == Cpu!Branches
           c2 == Cpu!Branches \cup {"addi"} \cup Cpu!ShiftReg \cup Cpu!RegReg
<1>5. w1 \in CodeWord /\ w2 \in CodeWord
    BY <1>1, <1>4
<1>6. /\ mem_rdata_q' = IF Cpu!mem_xfer THEN mem_rdata ELSE mem_rdata_q
      /\ insn1' = Cpu!Cleared(w1, c1) /\ insn2' = Cpu!Cleared(w2, c2)
    BY DEF Next, Cpu!Edge, Cpu!Decoder
<1> HIDE DEF w1, w2, c1, c2
<1> QED BY <1>1, <1>2, <1>3, <1>5, <1>6

(* Only a store, or a core that stopped in one, writes.                    *)
LEMMA WriteOnly ==
    ASSUME ControlInv, mem_valid, mem_wstrb # {}
    PROVE  cpu_state = "trap"
           \/ (cpu_state = "stmem" /\ mem_state = 2 /\ mem_do_wdata)
BY DEF ControlInv, InterfaceInv, FlagTypes, RequestInv, Booleans

(* The word that is fetched is that at the target.                         *)
LEMMA FetchedWord ==
    ASSUME ControlInv, DataInv, cpu_state # "trap", mem_do_rinst, Cpu!mem_done
    PROVE  /\ Align(Target) \in MemoryAddresses
           /\ Cpu!mem_rdata_latched = mem[Align(Target)]
<1>1. ~trap /\ mem_state \in 0 .. 3 /\ ~mem_do_wdata /\ ~mem_do_rdata
    BY DEF ControlInv, InterfaceInv, RequestInv, FlagTypes
<1>2. mem_state \in {1, 3}
      /\ (mem_state = 1 => mem_instr /\ mem_valid /\ mem_ready)
      /\ (mem_state = 3 => ~mem_valid)
  <2>1. mem_state \in {1, 3} /\ (mem_state = 3 => ~mem_valid)
        /\ (mem_state = 1 => mem_valid /\ mem_ready)
    BY <1>1 DEF ControlInv, InterfaceInv, Cpu!mem_done, Cpu!mem_xfer
  <2>2. mem_state = 1 => mem_instr = (mem_do_prefetch \/ mem_do_rinst)
    BY <1>1 DEF ControlInv, InterfaceInv
  <2>3. mem_do_prefetch \/ mem_do_rinst
    OBVIOUS
  <2> QED BY <2>1, <2>2, <2>3
<1>3. mem_addr = Align(Target)
    BY <1>2 DEF DataInv, PrefetchInv
<1>4. CASE mem_state = 3
    BY <1>2, <1>3, <1>4
       DEF DataInv, PrefetchInv, Cpu!mem_rdata_latched, Cpu!mem_xfer
<1>5. CASE mem_state = 1
  <2>1. mem_addr \in MemoryAddresses /\ DOMAIN mem = MemoryAddresses
    BY <1>2, <1>5 DEF DataInv, BusInv, DataTypes
  <2> QED BY <1>2, <1>3, <1>5, <2>1
             DEF Cpu!mem_rdata_latched, Cpu!mem_xfer, mem_rdata
<1> QED BY <1>2, <1>4, <1>5

-----------------------------------------------------------------------------
(* Power-up and reset.                                                     *)

(* Zero is a value, and there are registers 0 and 2.                       *)
LEMMA ValueZero == 0 \in Value /\ 0 \in Regs /\ 2 \in Regs
    /\ (\A v \in Value : v \in Int)
BY ValueRange, RegsAssumption DEF Value

(* A reset puts the data in order, too, whatever it finds.                 *)
LEMMA DataReset ==
    ASSUME DataTypes, BusInv, Next, ~resetn
    PROVE  DataInv'
<1>1. Cpu!Reset /\ Cpu!MemHalted /\ Cpu!RegisterFile
    BY DEF Next, Cpu!Edge, Cpu!Main, Cpu!MemoryInterface
<1>2. /\ cpu_state' = "fetch" /\ reg_pc' = 0 /\ reg_next_pc' = 0
      /\ latched_store' = TRUE /\ latched_rd' = 2 /\ reg_out' = STACKADDR
      /\ latched_stalu' = FALSE /\ latched_branch' = FALSE
      /\ pcpi_valid' = FALSE /\ decoder_trigger' = FALSE
      /\ mem_do_prefetch' = FALSE /\ mem_do_rinst' = FALSE
      /\ mem_state' = 0 /\ mem_valid' = FALSE /\ cpuregs' = cpuregs
      /\ UNCHANGED <<mem_wstrb, mem_wdata>>
    BY <1>1
       DEF Cpu!Reset, Cpu!Trigger, Cpu!mem_done, Cpu!MemHalted,
           Cpu!RegisterFile
<1>3. DataTypes'
  <2>1. MemStep
    BY MemoryStep
  <2>2. insn1' \in CodeWord /\ insn2' \in CodeWord /\ mem_rdata_q' \in CodeWord
    BY WordsStep
  <2>3. cpuregs' \in [Regs -> Value]
    BY <1>2 DEF DataTypes
  <2>4. mem' \in [MemoryAddresses -> CodeWord]
    BY <2>1 DEF MemStep
  <2> QED BY <1>2, <2>2, <2>3, <2>4, ValueZero DEF DataTypes
<1>4. BusInv' /\ PrefetchInv'
    BY <1>2 DEF BusInv, PrefetchInv
<1>5. FetchInv'
  <2>1. Cpu!current_pc' = 0
    BY <1>2 DEF Cpu!current_pc
  <2>2. Cpu!cpuregs_wrdata' = STACKADDR
    BY <1>2 DEF Cpu!cpuregs_wrdata
  <2> QED BY <1>2, <2>1, <2>2, ValueZero, StackAssumption DEF FetchInv
<1>6. BusyInv' /\ OperandInv' /\ ExecInv' /\ ShiftInv' /\ AccessInv'
    BY <1>2 DEF BusyInv, Busy, OperandInv, ExecInv, ShiftInv, AccessInv
<1> QED BY <1>3, <1>4, <1>5, <1>6 DEF DataInv

(* At power-up the data has its type and the memory is silent.             *)
LEMMA InitTypes == Init => DataTypes /\ BusInv /\ ~mem_ready
<1> SUFFICES ASSUME Init PROVE DataTypes /\ BusInv /\ ~mem_ready
    OBVIOUS
<1>1. mem \in [MemoryAddresses -> CodeWord]
    BY ProgramsAssumption DEF Init
<1>2. DataWord(0) \in CodeWord
    BY ValueZero DEF DataWord, Instr, CodeWord, MemWord, Fences, Foreign
<1>3. Cpu!DataWord(0) = DataWord(0) /\ Cpu!Split(0) = Split(0)
    BY DEF Cpu!DataWord, DataWord, Cpu!Instr, Instr, Cpu!Split, Split,
           Cpu!Scale, Scale, Cpu!LaneNo, LaneNo
<1>4. Split(0) \in [LaneNo -> ByteNo]
    BY SplitType
<1>5. DataTypes
    BY <1>1, <1>2, <1>3, ValueZero DEF DataTypes, Init, Cpu!PowerUp
<1> QED BY <1>3, <1>4, <1>5 DEF BusInv, Init, Cpu!PowerUp

-----------------------------------------------------------------------------
(* What holds while an instruction is executed.                            *)

(* A transfer of data is asked for.                                        *)
DataRequest == mem_do_rdata \/ mem_do_wdata

(* While an instruction is executed.                                       *)
LEMMA BusyState ==
    ASSUME Core, Busy
    PROVE  /\ Cpu!cpuregs_next = cpuregs
           /\ R1 \in Value /\ R2 \in Value
           /\ dbg_insn \in CodeWord /\ dbg_insn.op \in Native \cup Foreign
           /\ dbg_insn.rd \in Regs
           /\ dbg_insn.rs2 \in Regs /\ dbg_insn.imm \in Value
           /\ ~DataRequest =>
                insn1 = dbg_insn /\ insn2 = dbg_insn /\ ~decoder_trigger
           /\ Cpu!misaligned => DataRequest
           /\ DataRequest => cpu_state \in {"ldmem", "stmem"}
<1>1. cpuregs \in [Regs -> Value] /\ dbg_insn \in CodeWord /\ reg_pc % 4 = 0
    BY DEF Core, DataInv, DataTypes, BusyInv
<1>2. dbg_insn.op \in Native \cup Foreign /\ dbg_insn.rd \in Regs
      /\ dbg_insn.rs1 \in Regs /\ dbg_insn.rs2 \in Regs
      /\ dbg_insn.imm \in Value
    BY <1>1 DEF CodeWord, MemWord
<1>3. R1 \in Value /\ R2 \in Value
    BY <1>1, <1>2, ValueZero DEF R1, R2, Cpu!ReadReg
<1>4. Cpu!cpuregs_next = cpuregs
    BY DEF Cpu!cpuregs_next, Cpu!cpuregs_write, Busy
<1>5. ~DataRequest => insn1 = dbg_insn /\ insn2 = dbg_insn /\ ~decoder_trigger
    BY DEF Core, ControlInv, DecoderInv, RequestInv, DataInv, BusyInv,
           DataRequest, Busy
<1>6. Cpu!misaligned => DataRequest
    BY <1>1 DEF Cpu!misaligned, DataRequest
<1>7. DataRequest => cpu_state \in {"ldmem", "stmem"}
    BY DEF DataRequest, Core, ControlInv, RequestInv, Busy
<1> QED BY <1>1, <1>2, <1>3, <1>4, <1>5, <1>6, <1>7

(* While an instruction is executed, the registers, the program counters   *)
(* and the word launched stay, and one of these actions is taken.          *)
LEMMA BusyEdge ==
    ASSUME Core, Busy, resetn, Next
    PROVE  /\ UNCHANGED <<cpuregs, dbg_insn, reg_pc, reg_next_pc, R1, R2>>
           /\ trap' = FALSE
           /\ \/ Cpu!LdRs \/ Cpu!ExecWait \/ Cpu!ExecBranch \/ Cpu!ExecAlu
              \/ Cpu!ShiftDone \/ Cpu!ShiftStep \/ Cpu!StMem \/ Cpu!LdMem
<1>1. cpuregs' = cpuregs /\ dbg_insn' = dbg_insn
    BY BusyState DEF Next, Cpu!Edge, Cpu!RegisterFile, History, Busy
<1>2. R1' = R1 /\ R2' = R2
    BY <1>1 DEF R1, R2, Cpu!ReadReg
<1>3. \/ Cpu!LdRs \/ Cpu!ExecWait \/ Cpu!ExecBranch \/ Cpu!ExecAlu
      \/ Cpu!ShiftDone \/ Cpu!ShiftStep \/ Cpu!StMem \/ Cpu!LdMem
    BY DEF Next, Cpu!Edge, Cpu!Main, Cpu!Reset, Cpu!Trapped, Cpu!FetchWait,
           Cpu!LaunchJal, Cpu!Launch, Cpu!Fetch, Busy
<1>4. reg_pc' = reg_pc /\ reg_next_pc' = reg_next_pc /\ trap' = FALSE
  <2> USE DEF Cpu!pcs
  <2>1. CASE Cpu!LdRs
    BY <2>1
       DEF Cpu!LdRs, Cpu!PcpiAnswered, Cpu!PcpiRefused, Cpu!PcpiPending,
           Cpu!IllegalInsn, Cpu!OneOperand, Cpu!Foreigner, Cpu!BothOperands,
           Cpu!LoadRs1, Cpu!UpperOperands, Cpu!ImmediateOperands, Cpu!Operand,
           Cpu!ShiftImmOperands, Cpu!LoadOperands, Cpu!StoreOperands,
           Cpu!ShiftRegOperands, Cpu!RegisterOperands, Cpu!NativeOperands
  <2>2. CASE Cpu!ExecWait \/ Cpu!ExecBranch \/ Cpu!ExecAlu
    BY <2>2
       DEF Cpu!ExecWait, Cpu!ExecBranch, Cpu!ExecAlu, Cpu!ExecNow, Cpu!Exec
  <2>3. CASE Cpu!ShiftDone \/ Cpu!ShiftStep
    BY <2>3 DEF Cpu!ShiftDone, Cpu!ShiftStep, Cpu!Shift
  <2>4. CASE Cpu!StMem \/ Cpu!LdMem
    BY <2>4 DEF Cpu!StMem, Cpu!LdMem, Cpu!Access
  <2> QED BY <1>3, <2>1, <2>2, <2>3, <2>4
<1> QED BY <1>1, <1>2, <1>3, <1>4

(* The operand states: one of these, by the instruction.                    *)
LEMMA OperandState ==
    ASSUME Core, Cpu!LdRs
    PROVE  /\ Operands /\ Busy /\ ~DataRequest /\ ~mem_do_rinst
           /\ ~Cpu!mem_done
           /\ ~Cpu!misaligned /\ ~latched_branch /\ ~latched_store
           /\ ~latched_stalu
<1>1. Operands
    BY DEF Cpu!LdRs, Cpu!PcpiAnswered, Cpu!PcpiRefused, Cpu!PcpiPending,
           Cpu!IllegalInsn, Cpu!OneOperand, Cpu!Foreigner, Cpu!BothOperands,
           Cpu!LoadRs1, Cpu!UpperOperands, Cpu!ImmediateOperands,
           Cpu!ShiftImmOperands, Cpu!LoadOperands, Cpu!StoreOperands,
           Cpu!ShiftRegOperands, Cpu!RegisterOperands, Cpu!NativeOperands,
           Operands
<1>2. Busy /\ ~DataRequest
    BY <1>1, BusyState DEF Busy, Operands
<1>3. ~mem_do_rinst
    BY <1>1 DEF Core, ControlInv, RequestInv
<1>4. ~latched_branch /\ ~latched_store /\ ~latched_stalu
    BY <1>1, <1>2 DEF Core, DataInv, BusyInv, Operands
<1> QED BY <1>1, <1>2, <1>3, <1>4, BusyState DEF Cpu!mem_done, DataRequest

-----------------------------------------------------------------------------
(* Where execution goes on, and the bus.                                   *)

(* Execution goes on where it did, or the word of the fetch that is         *)
(* under way is taken on this edge.                                        *)
LEMMA TargetKept ==
    ASSUME Core, resetn, Next, cpu_state' # "trap"
    PROVE  /\ Target' = Target \/ mem_state' = 0
           /\ mem_state = 0 /\ Fetching => Cpu!next_pc = Target'
<1>1. cpu_state # "trap" /\ ~trap
  <2>1. cpu_state # "trap"
    BY RequestsAreKept DEF RequestStep, Next, Cpu!Edge, Core
  <2> QED BY <2>1 DEF Core, ControlInv, InterfaceInv
<1>2. MemEdge
    BY <1>1, MemoryEdge DEF Core
<1>3. CASE Cpu!FetchWait
  <2>1. /\ cpu_state = "fetch" /\ cpu_state' = "fetch" /\ ~decoder_trigger
        /\ reg_next_pc' = Cpu!current_pc /\ latched_branch' = FALSE
    BY <1>3 DEF Cpu!FetchWait, Cpu!Fetch, Cpu!GoTo
  <2>2. Target' = Target /\ Target = Cpu!current_pc
    BY <2>1 DEF Target, Cpu!current_pc
  <2> QED BY <2>1, <2>2 DEF Core, DataInv, FetchInv, Fetching
<1>4. CASE Cpu!LaunchJal \/ Cpu!Launch
  <2>1. cpu_state = "fetch" /\ decoder_trigger
    BY <1>4 DEF Cpu!LaunchJal, Cpu!Launch, Cpu!Fetch
  <2>2. mem_state = 0 /\ ~AnyRequest /\ ~Fetching
    BY <2>1
       DEF Core, DataInv, FetchInv, ControlInv, DecoderInv, RequestInv,
           AnyRequest, Fetching
  <2>3. mem_state' = 0
    BY <1>2, <2>2 DEF MemEdge, Cpu!memRegs
  <2> QED BY <2>2, <2>3
<1>5. CASE Busy
  <2>1. Target = reg_next_pc /\ reg_next_pc' = reg_next_pc
    BY <1>5, BusyEdge DEF Target, Busy
  <2>2. mem_state = 0 /\ Fetching => Cpu!LdRs
    <3> SUFFICES ASSUME mem_state = 0, Fetching PROVE Cpu!LdRs
      OBVIOUS
    <3>1. mem_do_prefetch => cpu_state = "ld_rs1"
      BY <1>5 DEF Core, DataInv, BusyInv
    <3>2. mem_do_rinst => mem_do_prefetch
      BY <1>5
         DEF Core, ControlInv, RequestInv, FlagTypes, Cpu!CpuStates, Busy,
             Operands
    <3>3. cpu_state = "ld_rs1"
      BY <3>1, <3>2 DEF Fetching
    <3> QED BY <1>5, <3>3, BusyEdge
               DEF Cpu!ExecWait, Cpu!ExecBranch, Cpu!ExecAlu, Cpu!ExecNow,
                   Cpu!Exec, Cpu!ShiftDone, Cpu!ShiftStep, Cpu!Shift,
                   Cpu!StMem, Cpu!LdMem
  <2>3. Cpu!LdRs => Cpu!next_pc = reg_next_pc
    BY OperandState DEF Cpu!next_pc
  <2>4. CASE cpu_state' # "fetch"
    BY <2>1, <2>2, <2>3, <2>4 DEF Target
  <2>5. CASE cpu_state' = "fetch"
    <3>1. Target' = Cpu!current_pc'
      BY <2>5 DEF Target
    <3>2. ~latched_branch' => Target' = reg_next_pc
      BY <2>1, <3>1 DEF Cpu!current_pc
    <3>3. latched_branch' => mem_state' = 0 /\ ~Cpu!LdRs
      <4> SUFFICES ASSUME latched_branch' PROVE mem_state' = 0 /\ ~Cpu!LdRs
        OBVIOUS
      <4>1. cpu_state # "exec" => ~latched_branch
        BY <1>5 DEF Core, DataInv, BusyInv
      <4>2. ~Cpu!LdRs
        BY <4>1, OperandState
           DEF Cpu!LdRs, Cpu!PcpiAnswered, Cpu!PcpiRefused, Cpu!PcpiPending,
               Cpu!IllegalInsn, Cpu!OneOperand, Cpu!Foreigner, Cpu!latches,
               Operands, Cpu!UpperOperands, Cpu!ImmediateOperands,
               Cpu!ShiftImmOperands, Cpu!LoadOperands, Cpu!StoreOperands,
               Cpu!ShiftRegOperands, Cpu!RegisterOperands, Cpu!NativeOperands
      <4>3. ~Cpu!ShiftDone /\ ~Cpu!ShiftStep /\ ~Cpu!StMem /\ ~Cpu!LdMem
        BY <4>1
           DEF Cpu!ShiftDone, Cpu!ShiftStep, Cpu!Shift, Cpu!StMem, Cpu!LdMem,
               Cpu!Access
      <4>4. CASE Cpu!ExecBranch
        <5>1. Cpu!mem_done
          BY <4>4, <2>5 DEF Cpu!ExecBranch, Cpu!GoTo
        <5> QED BY <1>2, <4>2, <5>1 DEF MemEdge
      <4>5. CASE Cpu!ExecAlu
        <5>1. insn1.op = "jalr" /\ cpu_state = "exec"
          BY <4>5 DEF Cpu!ExecAlu, Cpu!ExecNow, Cpu!Exec
        <5>2. dbg_insn.op = "jalr" /\ ~DataRequest
          BY <1>5, <5>1, BusyState
        <5>3. mem_state = 0 /\ ~AnyRequest
          BY <1>5, <5>2 DEF Core, DataInv, BusyInv, AnyRequest, DataRequest
        <5> QED BY <1>2, <4>2, <5>3 DEF MemEdge, Cpu!memRegs
      <4>6. ~Cpu!ExecWait
        BY <2>5 DEF Cpu!ExecWait, Cpu!GoTo
      <4> QED BY <1>5, <4>2, <4>3, <4>4, <4>5, <4>6, BusyEdge
    <3> QED BY <2>1, <2>2, <2>3, <3>2, <3>3
  <2> QED BY <2>4, <2>5
<1>6. Busy \/ Cpu!FetchWait \/ Cpu!LaunchJal \/ Cpu!Launch
  <2> SUFFICES ASSUME ~Busy PROVE Cpu!FetchWait \/ Cpu!LaunchJal \/ Cpu!Launch
    OBVIOUS
  <2>1. cpu_state = "fetch"
    BY <1>1 DEF Busy
  <2>2. ~Cpu!LdRs
    BY OperandState DEF Busy
  <2> QED BY <2>1, <2>2
             DEF Next, Cpu!Edge, Cpu!Main, Cpu!Reset, Cpu!Trapped,
                 Cpu!ExecWait, Cpu!ExecBranch, Cpu!ExecAlu, Cpu!ExecNow,
                 Cpu!Exec, Cpu!ShiftDone, Cpu!ShiftStep, Cpu!Shift, Cpu!StMem,
                 Cpu!LdMem
<1> QED BY <1>3, <1>4, <1>5, <1>6

(* What a store puts on the bus.                                           *)
LEMMA StoreState ==
    ASSUME Core, cpu_state = "stmem", mem_do_wdata
    PROVE  /\ dbg_insn.op \in Stores /\ reg_op1 = Plus(R1, dbg_insn.imm)
           /\ reg_op1 \in Value /\ reg_op2 = R2
           /\ mem_wordsize = Size(dbg_insn.op)
           /\ Strobe(reg_op1, mem_wordsize) \subseteq LaneNo
           /\ Strobe(reg_op1, mem_wordsize) # {}
           /\ Replicated(reg_op2, mem_wordsize) \in [LaneNo -> ByteNo]
<1>1. /\ dbg_insn.op \in Stores /\ reg_op1 = Plus(R1, dbg_insn.imm)
      /\ reg_op2 = R2 /\ mem_wordsize = Size(dbg_insn.op)
    BY DEF Core, DataInv, AccessInv, Loaded
<1>2. R1 \in Value /\ R2 \in Value /\ dbg_insn.imm \in Value
    BY BusyState DEF Busy
<1>3. reg_op1 \in Value
    BY <1>1, <1>2, ValueOps, ValueZero
<1>4. Strobe(reg_op1, mem_wordsize) \subseteq LaneNo
      /\ Strobe(reg_op1, mem_wordsize) # {}
    BY <1>1, <1>3, StrobedBytes
<1>5. Size(dbg_insn.op) \in 0 .. 2
    BY <1>1 DEF Size, Stores
<1>6. Split(R2) \in [LaneNo -> ByteNo]
    BY <1>2, SplitType, ValueZero
<1>7. Replicated(R2, Size(dbg_insn.op)) \in [LaneNo -> ByteNo]
  <2> DEFINE w == Split(R2)
             z == Size(dbg_insn.op)
  <2>1. w[0] \in ByteNo /\ \A l \in LaneNo : w[l % 2] \in ByteNo
    <3>1. 0 \in LaneNo /\ \A l \in LaneNo : l % 2 \in LaneNo
      BY DEF LaneNo
    <3> QED BY <1>6, <3>1
  <2>2. /\ z = 0 => Replicated(R2, z) = w
        /\ z = 1 => Replicated(R2, z) = [l \in LaneNo |-> w[l % 2]]
        /\ z = 2 => Replicated(R2, z) = [l \in LaneNo |-> w[0]]
    BY DEF Replicated
  <2>3. w \in [LaneNo -> ByteNo] /\ z \in 0 .. 2
    BY <1>5, <1>6
  <2> HIDE DEF w, z
  <2>4. Replicated(R2, z) \in [LaneNo -> ByteNo]
    BY <2>1, <2>2, <2>3
  <2> QED BY <2>4 DEF z
<1> QED BY <1>1, <1>3, <1>4, <1>7

(* The part of the data invariant that is about the bus.                   *)
LEMMA BusStepData ==
    ASSUME Core, resetn, Next
    PROVE  BusInv'
<1>1. mem_wstrb \subseteq LaneNo /\ mem_wdata \in [LaneNo -> ByteNo]
    BY DEF Core, DataInv, BusInv
<1>2. mem_wstrb' \subseteq LaneNo /\ mem_wdata' \in [LaneNo -> ByteNo]
  <2>1. CASE Cpu!MemHalted
    BY <1>1, <2>1 DEF Cpu!MemHalted
  <2>2. CASE Cpu!MemIdle \/ Cpu!MemWait
    BY <1>1, <2>2 DEF Cpu!MemIdle, Cpu!MemWait, Cpu!memRegs
  <2>3. CASE Cpu!MemStartRead
    BY <1>1, <2>3 DEF Cpu!MemStartRead
  <2>4. CASE ~trap /\ Cpu!MemStartWrite
    <3>1. mem_state = 0 /\ mem_do_wdata
      BY <2>4 DEF Cpu!MemStartWrite, Cpu!mem_la_write
    <3>2. cpu_state = "stmem"
      BY <3>1 DEF Core, DataInv, AccessInv, ControlInv, RequestInv
    <3> QED BY <2>4, <3>1, <3>2, StoreState, CpuData DEF Cpu!MemStartWrite
  <2>5. CASE Cpu!MemReadDone \/ Cpu!MemWriteDone \/ Cpu!MemPrefetched
    BY <1>1, <2>5 DEF Cpu!MemReadDone, Cpu!MemWriteDone, Cpu!MemPrefetched
  <2> QED BY <2>1, <2>2, <2>3, <2>4, <2>5
             DEF Next, Cpu!Edge, Cpu!MemoryInterface
<1>3. mem_valid' /\ mem_ready' => mem_addr' \in MemoryAddresses
    BY MemoryStep DEF Core, DataInv
<1> QED BY <1>2, <1>3 DEF BusInv

(* A word that is held is that of its address, and it is fetched for the   *)
(* place where execution goes on, whatever state takes over.               *)
LEMMA PrefetchStep ==
    ASSUME Core, resetn, Next
    PROVE  PrefetchInv'
<1> SUFFICES ASSUME cpu_state' # "trap" PROVE PrefetchInv'
    BY DEF PrefetchInv
<1>1. cpu_state # "trap" /\ ~trap
  <2>1. cpu_state # "trap"
    BY RequestsAreKept DEF RequestStep, Next, Cpu!Edge, Core
  <2> QED BY <2>1 DEF Core, ControlInv, InterfaceInv
<1>2. MemEdge
    BY <1>1, MemoryEdge DEF Core
<1>3. MemStep
    BY MemoryStep DEF Core, DataInv
<1>4. /\ mem_state = 3 =>
           mem_addr \in MemoryAddresses /\ mem_rdata_q = mem[mem_addr]
      /\ mem_state = 3 \/ (mem_state = 1 /\ mem_instr) =>
           mem_addr = Align(Target)
    BY <1>1 DEF Core, DataInv, PrefetchInv
<1>5. /\ mem_state = 3 => ~mem_valid
      /\ mem_state = 1 => mem_wstrb = {} /\ mem_instr = Fetching
                          /\ (mem_valid /\ mem_ready =>
                               mem_addr \in MemoryAddresses)
      /\ mem_state = 2 => mem_do_wdata
      /\ mem_do_wdata => ~Fetching
      /\ mem_do_rdata => ~Fetching
      /\ mem_state \in 0 .. 3
      /\ Booleans
    BY <1>1
       DEF Core, ControlInv, InterfaceInv, FlagTypes, Fetching, RequestInv,
           DataInv, BusInv
<1>6. mem_rdata_q' = IF mem_valid /\ mem_ready THEN mem_rdata ELSE mem_rdata_q
    BY DEF Next, Cpu!Edge, Cpu!Decoder, Cpu!mem_xfer
<1>7. mem_state' = 3 =>
        mem_addr' \in MemoryAddresses /\ mem_rdata_q' = mem'[mem_addr']
  <2> SUFFICES ASSUME mem_state' = 3
               PROVE  mem_addr' \in MemoryAddresses
                      /\ mem_rdata_q' = mem'[mem_addr']
    OBVIOUS
  <2>1. mem_addr' = mem_addr
        /\ (mem_state = 3 \/ (mem_state = 1 /\ mem_valid /\ mem_ready))
    BY <1>2 DEF MemEdge
  <2>2. mem' = mem
    BY <1>3, <1>5, <2>1 DEF MemStep
  <2>3. DOMAIN mem = MemoryAddresses
    BY DEF Core, DataInv, DataTypes
  <2> QED BY <1>4, <1>5, <1>6, <2>1, <2>2, <2>3 DEF mem_rdata
<1>8. mem_state' = 3 \/ (mem_state' = 1 /\ mem_instr') =>
        mem_addr' = Align(Target')
  <2> SUFFICES ASSUME mem_state' = 3 \/ (mem_state' = 1 /\ mem_instr')
               PROVE  mem_addr' = Align(Target')
    OBVIOUS
  <2>1. CASE mem_state = 0
    <3>1. mem_state' = 1 /\ mem_instr'
      BY <1>2, <2>1 DEF MemEdge
    <3>2. AnyRequest /\ ~mem_do_wdata
      <4>1. AnyRequest
        BY <1>2, <2>1, <3>1 DEF MemEdge, Cpu!memRegs
      <4>2. ~mem_do_wdata
        BY <1>2, <2>1, <3>1 DEF MemEdge
      <4> QED BY <4>1, <4>2
    <3>3. Fetching
      <4>1. Fetching \/ mem_do_rdata
        BY <3>2 DEF AnyRequest, Fetching
      <4>2. mem_instr' = Fetching
        BY <1>2, <2>1, <4>1 DEF MemEdge
      <4> QED BY <3>1, <4>2
    <3>4. Cpu!next_pc = Target'
      BY <2>1, <3>3, TargetKept
    <3>5. mem_addr' = Align(Cpu!next_pc)
      BY <1>2, <2>1, <3>3 DEF MemEdge
    <3> QED BY <3>4, <3>5
  <2>2. CASE mem_state # 0
    <3>1. mem_addr' = mem_addr /\ mem_instr' = mem_instr
      BY <1>2, <2>2 DEF MemEdge
    <3>2. Target' = Target
      BY TargetKept
    <3>3. mem_state = 3 \/ (mem_state = 1 /\ mem_instr)
      <4>1. CASE mem_state' = 1
        BY <1>2, <2>2, <3>1, <4>1 DEF MemEdge
      <4>2. CASE mem_state' = 3
        <5>1. mem_state = 3 \/ (mem_state = 1 /\ mem_valid /\ mem_ready)
          BY <1>2, <4>2 DEF MemEdge
        <5>2. CASE mem_state = 1 /\ ~mem_instr
          <6>1. mem_state = 1 /\ mem_valid /\ mem_ready /\ ~Fetching
            BY <1>5, <5>1, <5>2
          <6>2. mem_do_rdata
            BY <1>1, <6>1 DEF Core, ControlInv, InterfaceInv, Fetching
          <6>3. Cpu!mem_done
            BY <6>1, <6>2 DEF Cpu!mem_done, Cpu!mem_xfer
          <6> QED BY <1>2, <4>2, <6>3 DEF MemEdge
        <5> QED BY <5>1, <5>2
      <4> QED BY <4>1, <4>2
    <3> QED BY <1>4, <3>1, <3>2, <3>3
  <2> QED BY <2>1, <2>2
<1> QED BY <1>7, <1>8 DEF PrefetchInv

-----------------------------------------------------------------------------
(* The fetch state.                                                        *)

(* The part of the data invariant that the main state machine keeps.       *)
MainInv ==
    /\ reg_pc \in Value /\ reg_next_pc \in Value /\ latched_rd \in Regs
    /\ FetchInv /\ BusyInv /\ OperandInv /\ ExecInv /\ ShiftInv /\ AccessInv

(* The register file becomes what the mapping shows already.               *)
LEMMA RegsStep ==
    ASSUME Core, resetn, Next
    PROVE  /\ cpuregs' = MappedRegs
           /\ MappedRegs \in [Regs -> Value]
<1>1. cpuregs \in [Regs -> Value] /\ latched_rd \in Regs
      /\ (Cpu!cpuregs_write => Cpu!cpuregs_wrdata \in Value)
    BY DEF Core, DataInv, DataTypes, FetchInv, Cpu!cpuregs_write
<1>2. cpuregs' = Cpu!cpuregs_next
    BY DEF Next, Cpu!Edge, Cpu!RegisterFile
<1>3. Cpu!cpuregs_next \in [Regs -> Value]
    BY <1>1 DEF Cpu!cpuregs_next
<1> QED BY <1>2, <1>3 DEF MappedRegs

(* The states in which nothing is executed.                                *)
LEMMA FetchState ==
    ASSUME Core, resetn, Next, cpu_state = "fetch"
    PROVE  /\ ~mem_do_rdata /\ ~mem_do_wdata /\ ~pcpi_valid
           /\ ~trap /\ MemEdge /\ mem' = mem
           /\ Cpu!current_pc \in Value /\ insn1 \in CodeWord
           /\ insn1.rd \in Regs /\ insn1.imm \in Value
           /\ Cpu!FetchWait \/ Cpu!LaunchJal \/ Cpu!Launch
           /\ ~mem_do_wdata' /\ ~pcpi_valid'
           /\ decoder_trigger => ~Fetching /\ ~Cpu!misaligned /\ ~Cpu!mem_done
                 /\ mem_state' = 0 /\ insn1' = insn1 /\ Cpu!current_pc % 4 = 0
           /\ mem_valid' => mem_wstrb' = {}
<1>1. ~mem_do_rdata /\ ~mem_do_wdata /\ ~pcpi_valid /\ ~trap
    BY DEF Core, ControlInv, RequestInv, PortInv, PortState, InterfaceInv
<1>2. MemEdge
    BY <1>1, MemoryEdge DEF Core
<1>3. Cpu!FetchWait \/ Cpu!LaunchJal \/ Cpu!Launch
  <2>1. ~Cpu!LdRs
    BY OperandState DEF Busy
  <2> QED BY <2>1
             DEF Next, Cpu!Edge, Cpu!Main, Cpu!Reset, Cpu!Trapped,
                 Cpu!ExecWait, Cpu!ExecBranch, Cpu!ExecAlu, Cpu!ExecNow,
                 Cpu!Exec, Cpu!ShiftDone, Cpu!ShiftStep, Cpu!Shift, Cpu!StMem,
                 Cpu!LdMem
<1>4. ~mem_do_wdata' /\ ~pcpi_valid'
  <2>1. Cpu!Fetch /\ mem_do_wdata' = ((mem_do_wdata /\ ~Cpu!mem_done) \/ FALSE)
    BY <1>3
       DEF Cpu!FetchWait, Cpu!LaunchJal, Cpu!Launch, Cpu!AskInsn, Cpu!MemDo
  <2>2. pcpi_valid' = pcpi_valid
    BY <2>1 DEF Cpu!Fetch
  <2> QED BY <1>1, <2>1, <2>2
<1>5. ~(mem_valid /\ mem_wstrb # {})
    BY WriteOnly DEF Core
<1>6. mem' = mem
    BY <1>5, MemoryStep DEF MemStep, Core, DataInv
<1>7. decoder_trigger => ~Fetching /\ ~Cpu!misaligned /\ ~Cpu!mem_done
                 /\ mem_state' = 0 /\ insn1' = insn1
  <2> SUFFICES ASSUME decoder_trigger
               PROVE  ~Fetching /\ ~Cpu!misaligned /\ ~Cpu!mem_done
                 /\ mem_state' = 0 /\ insn1' = insn1
    OBVIOUS
  <2>1. ~AnyRequest /\ ~Fetching /\ ~mem_do_rinst
    BY <1>1 DEF Core, ControlInv, DecoderInv, AnyRequest, Fetching
  <2>2. ~Cpu!misaligned /\ ~Cpu!mem_done
    BY <1>1, <2>1 DEF Cpu!misaligned, Cpu!mem_done
  <2>3. mem_state' = 0
    BY <1>2, <2>1 DEF MemEdge, Cpu!memRegs
  <2>4. insn1' = insn1
    BY <2>1, DecoderAdvances DEF DecoderStep
  <2> QED BY <2>1, <2>2, <2>3, <2>4
<1>8. mem_valid' => mem_wstrb' = {}
  <2>1. mem_valid' /\ mem_wstrb' # {} => cpu_state' = "stmem" \/ mem_do_wdata'
    <3>1. ControlInv'
      BY ControlNext DEF Core, IInv
    <3>2. ~trap'
      BY <1>3 DEF Cpu!FetchWait, Cpu!LaunchJal, Cpu!Launch, Cpu!Fetch
    <3> QED BY <3>1, <3>2 DEF ControlInv, InterfaceInv, FlagTypes
  <2>2. cpu_state' # "stmem"
    BY <1>3 DEF Cpu!FetchWait, Cpu!LaunchJal, Cpu!Launch, Cpu!GoTo
  <2> QED BY <1>4, <2>1, <2>2
<1>9. Cpu!current_pc \in Value /\ insn1 \in CodeWord
      /\ (decoder_trigger => Cpu!current_pc % 4 = 0)
    BY DEF Core, DataInv, FetchInv, DataTypes
<1>10. insn1.rd \in Regs /\ insn1.imm \in Value
    BY <1>9 DEF CodeWord, MemWord
<1> QED BY <1>1, <1>2, <1>3, <1>4, <1>6, <1>7, <1>8, <1>9, <1>10

(* The fetch state keeps the data in order: it waits, jumps, or launches   *)
(* an instruction with its operands to come.                               *)
LEMMA FetchData ==
    ASSUME Core, resetn, Next, cpu_state = "fetch"
    PROVE  MainInv'
<1>1. /\ Cpu!current_pc \in Value /\ insn1 \in CodeWord /\ MemEdge
      /\ insn1.rd \in Regs /\ insn1.imm \in Value
      /\ ~mem_do_wdata' /\ ~pcpi_valid'
    BY FetchState
<1>2. CASE Cpu!FetchWait
  <2>1. /\ reg_pc' = Cpu!current_pc /\ reg_next_pc' = Cpu!current_pc
        /\ latched_store' = FALSE /\ latched_branch' = FALSE
        /\ latched_rd' = insn1.rd
        /\ decoder_trigger' = (mem_do_rinst /\ Cpu!mem_done)
        /\ cpu_state' = IF Cpu!misaligned THEN "trap" ELSE "fetch"
    BY <1>2 DEF Cpu!FetchWait, Cpu!Fetch, Cpu!Trigger, Cpu!GoTo
  <2>2. Cpu!current_pc' = Cpu!current_pc /\ Cpu!next_pc' = Cpu!current_pc
    BY <2>1 DEF Cpu!current_pc, Cpu!next_pc
  <2>3. ~Cpu!cpuregs_write'
    BY <2>1 DEF Cpu!cpuregs_write
  <2>4. cpu_state' = "fetch" /\ decoder_trigger'
          => Cpu!current_pc % 4 = 0 /\ mem_state' = 0
    <3> SUFFICES ASSUME cpu_state' = "fetch", mem_do_rinst, Cpu!mem_done
                 PROVE  Cpu!current_pc % 4 = 0 /\ mem_state' = 0
      BY <2>1
    <3>1. reg_pc % 4 = 0
      BY <2>1 DEF Cpu!misaligned
    <3>2. mem_state # 0 /\ mem_state' = 0
      BY <1>1 DEF MemEdge
    <3> QED BY <3>1, <3>2 DEF Core, DataInv, FetchInv
  <2>5. FetchInv'
    BY <1>1, <2>1, <2>2, <2>3, <2>4 DEF FetchInv
  <2>6. BusyInv' /\ OperandInv' /\ ExecInv' /\ ShiftInv' /\ AccessInv'
    BY <1>1, <2>1 DEF BusyInv, Busy, OperandInv, ExecInv, ShiftInv, AccessInv
  <2> QED BY <1>1, <2>1, <2>5, <2>6 DEF MainInv
<1>3. CASE Cpu!LaunchJal
  <2>1. /\ reg_pc' = Cpu!current_pc
        /\ reg_next_pc' = Plus(Cpu!current_pc, insn1.imm)
        /\ latched_store' = FALSE /\ latched_branch' = TRUE
        /\ latched_rd' = insn1.rd /\ decoder_trigger
        /\ decoder_trigger' = (mem_do_rinst /\ Cpu!mem_done)
        /\ cpu_state' = IF Cpu!misaligned THEN "trap" ELSE "fetch"
    BY <1>3, CpuData DEF Cpu!LaunchJal, Cpu!Fetch, Cpu!Trigger, Cpu!GoTo
  <2>2. /\ Cpu!current_pc % 4 = 0 /\ mem_state' = 0
        /\ decoder_trigger' = FALSE /\ cpu_state' = "fetch"
    BY <2>1, FetchState
  <2>3. Cpu!current_pc' = reg_next_pc' /\ Cpu!next_pc' = reg_next_pc'
    BY <2>1 DEF Cpu!current_pc, Cpu!next_pc
  <2>4. reg_next_pc' \in Value
    BY <1>1, <2>1, ValueOps, ValueZero
  <2>5. Cpu!cpuregs_wrdata' \in Value
    BY <1>1, <2>1, CpuData, ValueOps, ValueZero DEF Cpu!cpuregs_wrdata
  <2>6. FetchInv'
    BY <1>1, <2>1, <2>2, <2>3, <2>4, <2>5 DEF FetchInv
  <2>7. BusyInv' /\ OperandInv' /\ ExecInv' /\ ShiftInv' /\ AccessInv'
    BY <1>1, <2>2 DEF BusyInv, Busy, OperandInv, ExecInv, ShiftInv, AccessInv
  <2> QED BY <1>1, <2>1, <2>4, <2>6, <2>7 DEF MainInv
<1>4. CASE Cpu!Launch
  <2>1. /\ reg_pc' = Cpu!current_pc
        /\ reg_next_pc' = Plus(Cpu!current_pc, 4)
        /\ latched_store' = FALSE /\ latched_branch' = FALSE
        /\ latched_stalu' = FALSE
        /\ latched_rd' = insn1.rd /\ decoder_trigger /\ insn1.op # "jal"
        /\ cpu_state' = IF Cpu!misaligned THEN "trap" ELSE "ld_rs1"
        /\ Cpu!MemDo(Cpu!PrefetchAfterLaunch, FALSE, FALSE, FALSE, FALSE)
    BY <1>4, CpuData DEF Cpu!Launch, Cpu!Fetch, Cpu!GoTo
  <2>2. /\ Cpu!current_pc % 4 = 0 /\ mem_state' = 0
        /\ cpu_state' = "ld_rs1" /\ insn1' = insn1
        /\ ~mem_do_rinst' /\ (insn1.op = "jalr" => ~mem_do_prefetch')
    BY <2>1, FetchState DEF Cpu!MemDo, Cpu!PrefetchAfterLaunch
  <2>3. dbg_insn' = insn1
    BY <2>1 DEF Next, History
  <2>4. reg_next_pc' \in Value
    BY <1>1, <2>1, ValueOps, ValueZero
  <2>5. is_lui_auipc_jal' = (insn1.op \in Upper \cup {"jal"})
    BY CpuData DEF Next, Cpu!Edge, Cpu!Decoder
  <2>6. BusyInv'
    BY <1>1, <2>1, <2>2, <2>3 DEF BusyInv, Busy, IsBranch, Operands
  <2>7. FetchInv' /\ OperandInv' /\ ExecInv' /\ ShiftInv' /\ AccessInv'
    BY <1>1, <2>2, <2>5 DEF FetchInv, OperandInv, ExecInv, ShiftInv, AccessInv
  <2> QED BY <1>1, <2>1, <2>4, <2>6, <2>7 DEF MainInv
<1> QED BY <1>2, <1>3, <1>4, FetchState

-----------------------------------------------------------------------------
(* The operand states and the coprocessor.                                 *)

(* The coprocessor computes the reference operation of the host, lane by    *)
(* lane, and bytes of bytes.                                               *)
LEMMA PackedGolden ==
    ASSUME NEW x \in [LaneNo -> ByteNo], NEW y \in [LaneNo -> ByteNo],
    NEW f \in 0 .. 4
    PROVE  /\ XP!Packed(x, y, f) \in [LaneNo -> ByteNo]
           /\ XP!Packed(x, y, f)
                 = [l \in LaneNo |-> IsaOfCore!Lanes4!Golden(f, x[l], y[l], 0)]
<1>1. ASSUME NEW m \in ByteNo, NEW n \in ByteNo
      PROVE  XP!Lane(m, n, f) \in ByteNo
             /\ XP!Lane(m, n, f) = IsaOfCore!Lanes4!Golden(f, m, n, 0)
  <2>1. Base \in Nat /\ Base >= 2
    BY BaseAssumption
  <2>2. CASE f = 2
    <3>1. CASE m + n > Base - 1
      BY <2>1, <2>2, <3>1
         DEF XP!Lane, IsaOfCore!Lanes4!Golden, IsaOfCore!Lanes4!MinOf, ByteNo
    <3>2. CASE m + n <= Base - 1
      <4>1. (m + n) % Base = m + n
        BY <2>1, <3>2 DEF ByteNo
      <4>2. (Base - 1) + 1 = Base
        BY <2>1
      <4>3. XP!Lane(m, n, f) = m + n
        BY <2>1, <2>2, <3>2, <4>1, <4>2 DEF XP!Lane, ByteNo
      <4>4. IsaOfCore!Lanes4!Golden(f, m, n, 0) = m + n
        BY <2>1, <2>2, <3>2
           DEF IsaOfCore!Lanes4!Golden, IsaOfCore!Lanes4!MinOf, ByteNo
      <4> QED BY <2>1, <3>2, <4>3, <4>4 DEF ByteNo
    <3> QED BY <2>1, <3>1, <3>2 DEF ByteNo
  <2>3. CASE f # 2
    BY <2>1, <2>3
       DEF XP!Lane, IsaOfCore!Lanes4!Golden, IsaOfCore!Lanes4!MinOf,
           IsaOfCore!Lanes4!MaxOf, IsaOfCore!Lanes4!Abs, ByteNo
  <2> QED BY <2>2, <2>3
<1> QED BY <1>1 DEF XP!Packed

(* What every edge in an operand state leaves alone.                       *)
LEMMA OperandEdge ==
    ASSUME Core, resetn, Next, Cpu!LdRs
    PROVE  /\ insn1 = dbg_insn /\ insn2 = dbg_insn
           /\ insn1' = dbg_insn /\ insn2' = dbg_insn
           /\ Cpu!cpuregs_rs1 = R1 /\ Cpu!cpuregs_rs2 = R2
           /\ ~trap /\ MemEdge /\ mem' = mem
           /\ mem_state # 2 /\ mem_state' # 2
           /\ mem_valid' => mem_wstrb' = {}
           /\ ~mem_do_rdata /\ ~mem_do_wdata
           /\ mem_do_prefetch => mem_state' # 0
           /\ dbg_insn.op = "jalr" => ~mem_do_prefetch /\ mem_state' = 0
           /\ is_lui_auipc_jal' = (dbg_insn.op \in Upper \cup {"jal"})
           /\ is_lbu_lhu_lw' = (dbg_insn.op \in UnsignedLoads)
           /\ cpu_state = "ld_rs1" =>
                (is_lui_auipc_jal <=> dbg_insn.op \in Upper \cup {"jal"})
           /\ dbg_insn.op # "jal"
<1>1. Operands /\ Busy /\ ~DataRequest /\ ~mem_do_rinst /\ ~Cpu!mem_done
    BY OperandState
<1>2. insn1 = dbg_insn /\ insn2 = dbg_insn /\ ~decoder_trigger
    BY <1>1, BusyState
<1>3. insn1' = dbg_insn /\ insn2' = dbg_insn
    BY <1>1, <1>2, DecoderAdvances DEF DecoderStep
<1>4. Cpu!cpuregs_rs1 = R1 /\ Cpu!cpuregs_rs2 = R2
    BY <1>2 DEF Cpu!cpuregs_rs1, Cpu!cpuregs_rs2, R1, R2
<1>5. ~trap
    BY <1>1 DEF Core, ControlInv, InterfaceInv, Busy
<1>6. MemEdge
    BY <1>5, MemoryEdge DEF Core
<1>7. mem_state # 2 /\ ~(mem_valid /\ mem_wstrb # {})
    BY <1>1, <1>5, WriteOnly
       DEF Core, ControlInv, InterfaceInv, DataRequest, Busy, Operands
<1>8. mem' = mem
    BY <1>7, MemoryStep DEF MemStep, Core, DataInv
<1>9. ~mem_do_rdata /\ ~mem_do_wdata
    BY <1>1 DEF DataRequest
<1>10. mem_do_prefetch => mem_state' # 0
    BY <1>1, <1>6 DEF MemEdge, AnyRequest
<1>11. dbg_insn.op = "jalr" => ~mem_do_prefetch /\ mem_state' = 0
  <2> SUFFICES ASSUME dbg_insn.op = "jalr"
  PROVE ~mem_do_prefetch /\ mem_state' = 0
    OBVIOUS
  <2>1. ~mem_do_prefetch /\ ~AnyRequest /\ mem_state = 0
    BY <1>1, <1>9 DEF Core, DataInv, BusyInv, AnyRequest
  <2> QED BY <1>6, <2>1 DEF MemEdge, Cpu!memRegs
<1>12. mem_state' # 2
  <2>1. CASE mem_state # 0
    BY <1>6, <1>7, <2>1 DEF MemEdge
  <2>2. CASE mem_state = 0 /\ Fetching
    BY <1>6, <2>2 DEF MemEdge
  <2>3. CASE mem_state = 0 /\ ~Fetching
    <3>1. ~AnyRequest
      BY <1>9, <2>3 DEF AnyRequest, Fetching
    <3> QED BY <1>6, <2>3, <3>1 DEF MemEdge, Cpu!memRegs
  <2> QED BY <2>1, <2>2, <2>3
<1>13. mem_valid' => mem_wstrb' = {}
  <2>1. ControlInv' /\ trap' = FALSE
    BY <1>1, ControlNext, BusyEdge DEF Core, IInv
  <2> QED BY <1>12, <2>1 DEF ControlInv, InterfaceInv, FlagTypes
<1>14. /\ is_lui_auipc_jal' = (insn1.op \in Upper \cup {"jal"})
       /\ is_lbu_lhu_lw' = (insn2.op \in UnsignedLoads)
    BY CpuData DEF Next, Cpu!Edge, Cpu!Decoder
<1>15. cpu_state = "ld_rs1" =>
         (is_lui_auipc_jal <=> dbg_insn.op \in Upper \cup {"jal"})
    BY <1>2 DEF Core, DataInv, OperandInv
<1>16. dbg_insn.op # "jal"
    BY <1>1 DEF Core, DataInv, BusyInv
<1> QED BY <1>1, <1>2, <1>3, <1>4, <1>5, <1>6, <1>7, <1>8, <1>9, <1>10, <1>11,
           <1>12, <1>13, <1>14, <1>15, <1>16

(* The parts of the invariant that do not depend on the state entered.     *)
LEMMA BusyStays ==
    ASSUME Core, resetn, Next, Busy
    PROVE  /\ reg_pc' \in Value /\ reg_next_pc' \in Value /\ reg_pc' % 4 = 0
           /\ reg_next_pc' = Plus(reg_pc', 4) /\ reg_next_pc' % 4 = 0
           /\ dbg_insn' \in CodeWord /\ dbg_insn' = dbg_insn
           /\ dbg_insn'.op # "jal"
           /\ R1' = R1 /\ R2' = R2
<1>1. UNCHANGED <<dbg_insn, reg_pc, reg_next_pc, R1, R2>>
    BY BusyEdge
<1>2. /\ reg_pc \in Value /\ reg_next_pc \in Value /\ reg_pc % 4 = 0
      /\ reg_next_pc = Plus(reg_pc, 4) /\ dbg_insn \in CodeWord
      /\ dbg_insn.op # "jal"
    BY DEF Core, DataInv, DataTypes, BusyInv
<1>3. reg_next_pc % 4 = 0
    BY <1>2, NextWord
<1> QED BY <1>1, <1>2, <1>3

(* The coprocessor works on the instruction and the operands on its port.  *)
XpInv ==
    xp_state # "IDLE" =>
        /\ xp_a = Split(R1) /\ xp_b = Split(R2) /\ xp_op = dbg_insn.imm
        /\ xp_state = "DONE" => xp_rd = XP!Packed(xp_a, xp_b, xp_op)

(* The coprocessor gets the operands of the instruction that is executed   *)
(* and packs their result.                                                 *)
LEMMA XpStep ==
    ASSUME Core, resetn, Next, Cpu!LdRs, WITH_PCPI
    PROVE  XpInv'
<1>1. CASE ~pcpi_valid
  <2>1. xp_state' = "IDLE"
    BY <1>1
       DEF Next, Coprocessor, XP!Coprocessor, XP!EdgeReset, XP!EdgeAbort,
           XP!EdgeLatch, XP!EdgeIgnore, XP!EdgeExecute, XP!EdgeFinish
  <2> QED BY <2>1 DEF XpInv
<1>2. CASE pcpi_valid
  <2>1. XP!Coprocessor
    BY DEF Next, Coprocessor
  <2>2. reg_op1 = R1 /\ reg_op2 = R2 /\ XpInv
    BY <1>2 DEF Core, DataInv, OperandInv, XpInv
  <2>3. R1' = R1 /\ R2' = R2 /\ dbg_insn' = dbg_insn /\ insn2 = dbg_insn
    BY BusyStays, OperandState, OperandEdge
  <2>4. CASE XP!EdgeReset \/ XP!EdgeAbort \/ XP!EdgeFinish
    BY <1>2, <2>4 DEF XP!EdgeReset, XP!EdgeAbort, XP!EdgeFinish, XpInv
  <2>5. CASE XP!EdgeLatch
    BY <2>2, <2>3, <2>5 DEF XP!EdgeLatch, XpInv
  <2>6. CASE XP!EdgeIgnore
    BY <2>6 DEF XP!EdgeIgnore, XP!regs, XpInv
  <2>7. CASE XP!EdgeExecute
    BY <2>2, <2>3, <2>7 DEF XP!EdgeExecute, XpInv
  <2> QED BY <2>1, <2>4, <2>5, <2>6, <2>7 DEF XP!Coprocessor
<1> QED BY <1>1, <1>2

(* The operand states lead to the operands.                                *)
LEMMA OperandData ==
    ASSUME Core, resetn, Next, Cpu!LdRs
    PROVE  MainInv'
<1> DEFINE i == dbg_insn
<1>1. /\ Operands /\ Busy /\ ~mem_do_rinst /\ ~Cpu!mem_done /\ ~Cpu!misaligned
      /\ ~latched_branch /\ ~latched_store /\ ~latched_stalu
    BY OperandState
<1>2. /\ insn1 = i /\ insn2 = i /\ insn1' = i /\ insn2' = i
      /\ Cpu!cpuregs_rs1 = R1 /\ Cpu!cpuregs_rs2 = R2
      /\ mem_state' # 2 /\ ~mem_do_rdata /\ ~mem_do_wdata
      /\ mem_do_prefetch => mem_state' # 0
      /\ i.op = "jalr" => ~mem_do_prefetch /\ mem_state' = 0
      /\ is_lui_auipc_jal' = (i.op \in Upper \cup {"jal"})
      /\ is_lbu_lhu_lw' = (i.op \in UnsignedLoads)
      /\ cpu_state = "ld_rs1" =>
           (is_lui_auipc_jal <=> i.op \in Upper \cup {"jal"})
      /\ i.op # "jal"
    BY OperandEdge
<1>3. /\ reg_pc' \in Value /\ reg_next_pc' \in Value /\ reg_pc' % 4 = 0
      /\ reg_next_pc' = Plus(reg_pc', 4) /\ reg_next_pc' % 4 = 0
      /\ i \in CodeWord /\ dbg_insn' = i /\ R1' = R1 /\ R2' = R2
      /\ reg_pc' = reg_pc
    BY <1>1, BusyStays, BusyEdge
<1>4. /\ R1 \in Value /\ R2 \in Value /\ i.op \in Native \cup Foreign
      /\ i.rd \in Regs /\ i.rs2 \in Regs /\ i.imm \in Value
    BY <1>1, BusyState
<1>5. latched_rd \in Regs
      /\ (latched_rd = i.rd \/ (IsBranch /\ latched_rd = 0))
    BY <1>1 DEF Core, DataInv, DataTypes, BusyInv
<1>6. IsBranch' = IsBranch /\ Operand1' = Operand1 /\ Operand2' = Operand2
    BY <1>3 DEF IsBranch, Operand1, Operand2
<1>7. /\ cpu_state = "ld_rs2" => reg_op1 = R1
      /\ pcpi_valid => PortState /\ reg_op1 = R1 /\ reg_op2 = R2
    BY DEF Core, DataInv, OperandInv, ControlInv, PortInv
<1>8. WITH_PCPI => XpInv'
    BY XpStep
<1>9. mem_do_prefetch \in BOOLEAN
    BY DEF Core, ControlInv, FlagTypes, Booleans
<1> HIDE DEF i
<1>10. /\ Cpu!KeepMemDo => ~mem_do_rinst' /\ ~mem_do_wdata' /\ ~mem_do_rdata'
                           /\ mem_do_prefetch' = mem_do_prefetch
       /\ Cpu!AskInsn => ~mem_do_wdata' /\ ~mem_do_rdata'
                         /\ mem_do_prefetch' = mem_do_prefetch
       /\ Cpu!AskPrefetched => ~mem_do_wdata' /\ ~mem_do_rdata'
                               /\ mem_do_rinst' = mem_do_prefetch
                               /\ mem_do_prefetch' = mem_do_prefetch
    BY <1>1, <1>2, <1>9
       DEF Cpu!KeepMemDo, Cpu!AskInsn, Cpu!AskPrefetched, Cpu!MemDo
\* The common part: the operand, exec, shift and access states.
<1>11. ASSUME UNCHANGED <<latched_store, latched_stalu, latched_branch,
                          latched_rd>>,
              cpu_state' \notin {"trap", "fetch"}, ~mem_do_wdata',
              ~mem_do_rdata',
              mem_do_prefetch' = mem_do_prefetch,
              i.op = "jalr" => ~mem_do_rinst'
       PROVE  /\ reg_pc' \in Value /\ reg_next_pc' \in Value
              /\ latched_rd' \in Regs
              /\ BusyInv' /\ FetchInv'
    BY <1>1, <1>2, <1>3, <1>5, <1>6, <1>11 DEF BusyInv, Busy, FetchInv, i
<1>12. ASSUME UNCHANGED latched_rd, cpu_state' = "trap", ~pcpi_valid',
              ~mem_do_wdata'
       PROVE  MainInv'
    BY <1>3, <1>5, <1>12
       DEF MainInv, FetchInv, BusyInv, Busy, OperandInv, ExecInv, ShiftInv,
           AccessInv
<1>13. CASE Cpu!PcpiAnswered
  <2>1. /\ WITH_PCPI /\ XP!pcpi_ready /\ reg_out' = Join(xp_rd)
        /\ UNCHANGED <<latched_stalu, latched_branch, latched_rd>>
        /\ pcpi_valid' = FALSE /\ cpu_state' = "fetch" /\ Cpu!AskInsn
        /\ Cpu!Trigger
    BY <1>1, <1>13
       DEF Cpu!PcpiAnswered, Cpu!Foreigner, Cpu!BothOperands, Cpu!Operand,
           Cpu!GoTo
  <2>2. reg_out' \in Value
    <3>1. pcpi_valid /\ xp_state = "DONE" /\ PixelInsn
      BY <2>1 DEF XP!pcpi_ready, Core, ControlInv, PortInv
    <3>2. XpInv /\ i.imm \in 0 .. 4
      BY <1>2, <1>4, <2>1, <3>1, ValueZero
         DEF Core, DataInv, OperandInv, XpInv, PixelInsn, i, Value
    <3>3. Split(R1) \in [LaneNo -> ByteNo] /\ Split(R2) \in [LaneNo -> ByteNo]
      BY <1>4, SplitType, ValueZero
    <3>4. xp_rd = XP!Packed(Split(R1), Split(R2), i.imm)
      BY <3>1, <3>2 DEF XpInv, i
    <3>5. xp_rd \in [LaneNo -> ByteNo]
      BY <3>2, <3>3, <3>4, PackedGolden
    <3> QED BY <2>1, <3>5, JoinType
  <2>3. ~latched_branch' /\ ~latched_stalu' /\ ~decoder_trigger'
    BY <1>1, <2>1 DEF Cpu!Trigger
  <2>4. Cpu!current_pc' = reg_next_pc' /\ Cpu!next_pc' = reg_next_pc'
        /\ Cpu!cpuregs_wrdata' = reg_out'
    BY <2>3 DEF Cpu!current_pc, Cpu!next_pc, Cpu!cpuregs_wrdata
  <2>5. FetchInv'
    BY <1>3, <2>1, <2>2, <2>3, <2>4 DEF FetchInv
  <2>6. BusyInv' /\ OperandInv' /\ ExecInv' /\ ShiftInv' /\ AccessInv'
    BY <2>1 DEF BusyInv, Busy, OperandInv, ExecInv, ShiftInv, AccessInv
  <2> QED BY <1>3, <1>5, <2>1, <2>5, <2>6 DEF MainInv
<1>14. CASE Cpu!PcpiRefused \/ Cpu!IllegalInsn
  <2>1. ~pcpi_valid' /\ latched_rd' = latched_rd /\ cpu_state' = "trap"
        /\ Cpu!KeepMemDo
    <3>1. CASE Cpu!PcpiRefused
      BY <1>1, <3>1 DEF Cpu!PcpiRefused, Cpu!Foreigner, Cpu!GoTo
    <3>2. CASE Cpu!IllegalInsn
      <4>1. ~pcpi_valid
        BY <1>7, <3>2 DEF Cpu!IllegalInsn, PortState
      <4> QED BY <1>1, <3>2, <4>1 DEF Cpu!IllegalInsn, Cpu!latches, Cpu!GoTo
    <3> QED BY <1>14, <3>1, <3>2
  <2> QED BY <1>10, <1>12, <2>1
<1>15. CASE Cpu!PcpiPending
  <2>1. /\ WITH_PCPI /\ pcpi_valid' = TRUE /\ cpu_state' = cpu_state
        /\ UNCHANGED <<latched_store, latched_stalu, latched_branch,
                       latched_rd>>
        /\ Cpu!KeepMemDo /\ Cpu!BothOperands
    BY <1>1, <1>15 DEF Cpu!PcpiPending, Cpu!Foreigner, Cpu!GoTo
  <2>2. cpu_state' \in {"ld_rs1", "ld_rs2"}
    BY <1>1, <2>1 DEF Operands
  <2>3. reg_op1' = R1 /\ reg_op2' = R2
    BY <1>2, <1>7, <2>1 DEF Cpu!BothOperands
  <2>4. OperandInv'
    BY <1>2, <1>3, <1>8, <2>1, <2>3 DEF OperandInv, XpInv
  <2>5. ExecInv' /\ ShiftInv' /\ AccessInv'
    BY <2>2 DEF ExecInv, ShiftInv, AccessInv
  <2> QED BY <1>10, <1>11, <2>1, <2>2, <2>4, <2>5 DEF MainInv
<1>16. CASE Cpu!OneOperand
  <2>1. /\ cpu_state = "ld_rs1" /\ ~ENABLE_REGS_DUALPORT
        /\ cpu_state' = "ld_rs2" /\ reg_op1' = R1
        /\ UNCHANGED <<latched_store, latched_stalu, latched_branch,
                       latched_rd>>
        /\ Cpu!KeepMemDo /\ pcpi_valid' = pcpi_valid
    BY <1>1, <1>2, <1>16 DEF Cpu!OneOperand, Cpu!LoadRs1, Cpu!latches, Cpu!GoTo
  <2>2. ~pcpi_valid'
    BY <1>7, <2>1 DEF PortState
  <2>3. OperandInv' /\ ExecInv' /\ ShiftInv' /\ AccessInv'
    BY <1>3, <2>1, <2>2 DEF OperandInv, ExecInv, ShiftInv, AccessInv
  <2> QED BY <1>10, <1>11, <2>1, <2>3 DEF MainInv
<1>17. CASE \/ \/ Cpu!UpperOperands \/ Cpu!ImmediateOperands
            \/ Cpu!RegisterOperands
  <2>1. /\ \E w : Cpu!StartExec(w)
        /\ UNCHANGED <<latched_store, latched_stalu, latched_branch,
                       latched_rd>>
        /\ pcpi_valid' = pcpi_valid /\ ~Cpu!instr_trap
    BY <1>17
       DEF Cpu!UpperOperands, Cpu!ImmediateOperands, Cpu!RegisterOperands,
           Cpu!NativeOperands, Cpu!latches
  <2>2. /\ cpu_state' = "exec" /\ (Cpu!KeepMemDo \/ Cpu!AskPrefetched)
        /\ TWO_CYCLE_ALU \/ (TWO_CYCLE_COMPARE /\ IsBranch) => alu_wait'
    BY <1>1, <1>2, <2>1, CpuData DEF Cpu!StartExec, Cpu!GoTo, IsBranch, i
  <2>3. ~pcpi_valid'
    BY <1>7, <2>1 DEF PortState
  <2>4. (alu_wait_2' => alu_wait' /\ SlowBranch) /\ (SlowBranch => alu_wait_2')
    <3>1. CASE Cpu!UpperOperands \/ Cpu!ImmediateOperands
      <4>1. ~IsBranch
        BY <1>2, <3>1, CpuData
           DEF Cpu!UpperOperands, Cpu!ImmediateOperands, IsBranch, i,
               Cpu!LoadRs1, Branches, Upper, Immediates, ShiftImm
      <4>2. alu_wait_2' = FALSE
        BY <3>1 DEF Cpu!UpperOperands, Cpu!ImmediateOperands, Cpu!StartExec
      <4> QED BY <4>1, <4>2 DEF SlowBranch
    <3>2. CASE Cpu!RegisterOperands
      <4>1. alu_wait_2' = (TWO_CYCLE_ALU /\ TWO_CYCLE_COMPARE /\ IsBranch)
        BY <1>2, <3>2, CpuData
           DEF Cpu!RegisterOperands, Cpu!StartExec, IsBranch, i
      <4> QED BY <2>2, <4>1 DEF SlowBranch
    <3> QED BY <1>17, <3>1, <3>2
  <2>5. SlowBranch' = SlowBranch
    BY <1>6 DEF SlowBranch
  <2>6. /\ reg_op1' = Operand1 /\ reg_op2' = Operand2
        /\ i.op \in Upper \cup Immediates \cup Branches \cup RegReg
                \cup (IF BARREL_SHIFTER THEN ShiftImm \cup ShiftReg ELSE {})
    <3> USE CpuData
           DEF Operand1, Operand2, Upper, Immediates, Branches, RegReg,
               ShiftImm, ShiftReg, Stores, i
    <3>1. CASE Cpu!UpperOperands
      BY <1>2, <3>1 DEF Cpu!UpperOperands, Cpu!LoadRs1
    <3>2. CASE Cpu!ImmediateOperands
      BY <1>2, <3>2 DEF Cpu!ImmediateOperands, Cpu!LoadRs1
    <3>3. CASE Cpu!RegisterOperands
      BY <1>2, <1>7, <3>3
         DEF Cpu!RegisterOperands, Cpu!NativeOperands, Cpu!BothOperands
    <3> QED BY <1>17, <3>1, <3>2, <3>3
  <2>7. ExecInv'
    <3>1. latched_store' <=> latched_branch'
      BY <1>1, <2>1
    <3> QED BY <1>3, <1>6, <2>2, <2>4, <2>5, <2>6, <3>1 DEF ExecInv, i
  <2>8. OperandInv' /\ ShiftInv' /\ AccessInv'
    BY <2>2, <2>3 DEF OperandInv, ShiftInv, AccessInv
  <2>9. i.op = "jalr" => ~mem_do_rinst'
    BY <1>2, <1>10, <2>2
  <2> QED BY <1>10, <1>11, <2>1, <2>2, <2>7, <2>8, <2>9 DEF MainInv
<1>18. CASE Cpu!ShiftImmOperands \/ Cpu!ShiftRegOperands
  <2>1. /\ cpu_state' = "shift" /\ Cpu!KeepMemDo
        /\ UNCHANGED <<latched_store, latched_stalu, latched_branch,
                       latched_rd>>
        /\ pcpi_valid' = pcpi_valid /\ ~Cpu!instr_trap
    BY <1>1, <1>18
       DEF Cpu!ShiftImmOperands, Cpu!ShiftRegOperands, Cpu!NativeOperands,
           Cpu!latches, Cpu!GoTo
  <2>2. ~pcpi_valid'
    BY <1>7, <2>1 DEF PortState
  <2>3. /\ reg_op1' = R1 /\ i.op \in ShiftImm \cup ShiftReg
        /\ reg_sh' = (IF i.op \in ShiftImm THEN i.rs2 ELSE R2) % Width
    <3> USE CpuData DEF ShiftImm, ShiftReg, i
    <3>1. CASE Cpu!ShiftImmOperands
      BY <1>2, <3>1 DEF Cpu!ShiftImmOperands, Cpu!LoadRs1
    <3>2. CASE Cpu!ShiftRegOperands
      BY <1>2, <1>7, <3>2
         DEF Cpu!ShiftRegOperands, Cpu!NativeOperands, Cpu!BothOperands
    <3> QED BY <1>18, <3>1, <3>2
  <2>4. reg_sh' \in 0 .. Width
    <3> DEFINE n == IF i.op \in ShiftImm THEN i.rs2 ELSE R2
    <3>1. n \in Int /\ Width \in Nat \ {0}
      <4>1. i.rs2 \in Int
        <5>1. \A r \in Regs : r \in Int
          BY RegsAssumption
        <5>2. i.rs2 \in Regs
          BY <1>4
        <5> QED BY <5>1, <5>2
      <4>2. R2 \in Int
        BY <1>4, ValueZero
      <4> QED BY <4>1, <4>2, WidthAssumption
    <3>2. n % Width \in 0 .. Width - 1
      BY <3>1, Remainder
    <3> HIDE DEF n
    <3> QED BY <2>3, <3>1, <3>2 DEF n
  <2>5. ShiftInv'
    BY <1>3, <1>4, <2>3, <2>4 DEF ShiftInv, i
  <2>6. OperandInv' /\ ExecInv' /\ AccessInv'
    BY <2>1, <2>2 DEF OperandInv, ExecInv, AccessInv
  <2> QED BY <1>10, <1>11, <2>1, <2>5, <2>6 DEF MainInv
<1>19. CASE Cpu!LoadOperands \/ Cpu!StoreOperands
  <2>1. /\ cpu_state' = (IF Cpu!LoadOperands THEN "ldmem" ELSE "stmem")
           /\ Cpu!AskInsn
        /\ cpu_state' \in {"ldmem", "stmem"}
        /\ UNCHANGED <<latched_store, latched_stalu, latched_branch,
                       latched_rd>>
        /\ pcpi_valid' = pcpi_valid /\ ~Cpu!instr_trap
    <3>1. CASE Cpu!LoadOperands
      BY <1>1, <3>1 DEF Cpu!LoadOperands, Cpu!latches, Cpu!GoTo
    <3>2. CASE Cpu!StoreOperands
      <4>1. ~Cpu!LoadOperands
        BY <3>2
           DEF Cpu!LoadOperands, Cpu!StoreOperands, Cpu!Stores, Cpu!Loads,
               Cpu!UnsignedLoads
      <4> QED BY <1>1, <3>2, <4>1
                 DEF Cpu!StoreOperands, Cpu!NativeOperands, Cpu!latches,
                     Cpu!GoTo
    <3> QED BY <1>19, <3>1, <3>2
  <2>2. ~pcpi_valid'
    BY <1>7, <2>1 DEF PortState
  <2>3. cpu_state' = "ldmem" => reg_op1' = R1 /\ i.op \in Loads
    BY <1>2, <2>1, CpuData DEF Cpu!LoadOperands
  <2>4. cpu_state' = "stmem" =>
          reg_op1' = R1 /\ reg_op2' = R2 /\ i.op \in Stores
    BY <1>2, <1>7, <1>19, <2>1, CpuData
       DEF Cpu!StoreOperands, Cpu!NativeOperands, Cpu!BothOperands
  <2>5. i.op # "jalr"
    BY <2>1, <2>3, <2>4 DEF Loads, UnsignedLoads, Stores
  <2>6. AccessInv'
    BY <1>2, <1>3, <1>10, <2>1, <2>3, <2>4 DEF AccessInv, Loaded, i
  <2>7. OperandInv' /\ ExecInv' /\ ShiftInv'
    BY <2>1, <2>2 DEF OperandInv, ExecInv, ShiftInv
  <2> QED BY <1>10, <1>11, <2>1, <2>5, <2>6, <2>7 DEF MainInv
<1> QED BY <1>13, <1>14, <1>15, <1>16, <1>17, <1>18, <1>19 DEF Cpu!LdRs

-----------------------------------------------------------------------------
(* The execution state.                                                    *)

(* What an edge in the execution and shift states leaves alone, and the    *)
(* word that may come from memory on it.                                   *)
LEMMA ExecEdge ==
    ASSUME Core, resetn, Next, cpu_state \in {"exec", "shift"}
    PROVE  /\ Busy /\ insn1 = dbg_insn /\ insn2 = dbg_insn /\ insn2' = dbg_insn
           /\ ~Cpu!mem_done => insn1' = dbg_insn
           /\ MemEdge /\ mem' = mem
           /\ mem_valid' => mem_wstrb' = {}
           /\ ~mem_do_rdata /\ ~mem_do_wdata /\ ~Cpu!misaligned
           /\ Cpu!mem_done => mem_do_rinst /\ mem_state' = 0
           /\ mem_do_prefetch /\ ~Cpu!mem_done => mem_state' # 0
           /\ dbg_insn.op = "jalr" =>
                ~mem_do_prefetch /\ ~mem_do_rinst /\ mem_state' = 0
                /\ ~Cpu!mem_done
           /\ ~pcpi_valid
<1>1. Busy /\ ~DataRequest
    BY BusyState DEF Busy
<1>2. insn1 = dbg_insn /\ insn2 = dbg_insn /\ ~decoder_trigger
    BY <1>1, BusyState
<1>3. Cpu!mem_done => mem_do_rinst
    BY <1>1 DEF Cpu!mem_done, DataRequest
<1>4. insn2' = dbg_insn /\ (~Cpu!mem_done => insn1' = dbg_insn)
    BY <1>1, <1>2, DecoderAdvances DEF DecoderStep
<1>5. ~trap
    BY <1>1 DEF Core, ControlInv, InterfaceInv, Busy
<1>6. MemEdge
    BY <1>5, MemoryEdge DEF Core
<1>7. mem_state # 2 /\ ~(mem_valid /\ mem_wstrb # {})
    BY <1>1, <1>5, WriteOnly
       DEF Core, ControlInv, InterfaceInv, DataRequest, Busy
<1>8. mem' = mem
    BY <1>7, MemoryStep DEF MemStep, Core, DataInv
<1>9. ~mem_do_rdata /\ ~mem_do_wdata /\ ~Cpu!misaligned
    BY <1>1, BusyState DEF DataRequest
<1>10. /\ Cpu!mem_done => mem_state' = 0
       /\ mem_do_prefetch /\ ~Cpu!mem_done => mem_state' # 0
    BY <1>6 DEF MemEdge, AnyRequest
<1>11. dbg_insn.op = "jalr" =>
            ~mem_do_prefetch /\ ~mem_do_rinst /\ mem_state' = 0
            /\ ~Cpu!mem_done
  <2> SUFFICES ASSUME dbg_insn.op = "jalr"
               PROVE  ~mem_do_prefetch /\ ~mem_do_rinst /\ mem_state' = 0
                      /\ ~Cpu!mem_done
    OBVIOUS
  <2>1. ~mem_do_prefetch /\ ~mem_do_rinst /\ ~AnyRequest /\ mem_state = 0
    BY <1>1, <1>9 DEF Core, DataInv, BusyInv, AnyRequest
  <2> QED BY <1>3, <1>6, <2>1 DEF MemEdge, Cpu!memRegs
<1>12. mem_state' # 2
  <2>1. CASE mem_state # 0
    BY <1>6, <1>7, <2>1 DEF MemEdge
  <2>2. CASE mem_state = 0 /\ Fetching
    BY <1>6, <2>2 DEF MemEdge
  <2>3. CASE mem_state = 0 /\ ~Fetching
    <3>1. ~AnyRequest
      BY <1>9, <2>3 DEF AnyRequest, Fetching
    <3> QED BY <1>6, <2>3, <3>1 DEF MemEdge, Cpu!memRegs
  <2> QED BY <2>1, <2>2, <2>3
<1>13. mem_valid' => mem_wstrb' = {}
  <2>1. ControlInv' /\ trap' = FALSE
    BY <1>1, ControlNext, BusyEdge DEF Core, IInv
  <2> QED BY <1>12, <2>1 DEF ControlInv, InterfaceInv, FlagTypes
<1>14. ~pcpi_valid
    BY DEF Core, ControlInv, PortInv, PortState
<1> QED BY <1>1, <1>2, <1>3, <1>4, <1>6, <1>8, <1>9, <1>10, <1>11, <1>13, <1>14

(* What the ALU has to compute.                                            *)
AluValue ==
    CASE dbg_insn.op = "lui" -> dbg_insn.imm
      [] dbg_insn.op = "auipc" -> Plus(reg_pc, dbg_insn.imm)
      [] dbg_insn.op \in Immediates -> Plus(R1, dbg_insn.imm)
      [] dbg_insn.op = "slli" -> ShiftLeft(R1, dbg_insn.rs2 % Width)
      [] dbg_insn.op = "sll" -> ShiftLeft(R1, R2 % Width)
      [] dbg_insn.op = "add" -> Plus(R1, R2)
      [] dbg_insn.op = "sub" -> Minus(R1, R2)

(* The ALU computes the value of the instruction.                          *)
LEMMA AluResult ==
    ASSUME Core, resetn, Next, Cpu!ExecAlu, dbg_insn.op # "fence"
    PROVE  alu_out_q' = AluValue /\ AluValue \in Value
<1>1. cpu_state = "exec" /\ insn1.op \notin Branches
      /\ ~((TWO_CYCLE_ALU \/ TWO_CYCLE_COMPARE) /\ (alu_wait \/ alu_wait_2))
    BY CpuData DEF Cpu!ExecAlu, Cpu!ExecNow, Cpu!Exec
<1>2. Busy /\ insn1 = dbg_insn /\ insn2 = dbg_insn
    BY <1>1, ExecEdge
<1>3. /\ reg_op1 = Operand1 /\ reg_op2 = Operand2
      /\ dbg_insn.op \in Upper \cup Immediates \cup Branches \cup RegReg
                \cup (IF BARREL_SHIFTER THEN ShiftImm \cup ShiftReg ELSE {})
      /\ TWO_CYCLE_ALU => alu_res = Cpu!AddSubShift
    BY <1>1 DEF Core, DataInv, ExecInv
<1>4. /\ R1 \in Value /\ R2 \in Value /\ dbg_insn.imm \in Value
      /\ dbg_insn.rs2 \in Regs /\ reg_pc \in Value
    BY <1>2, BusyState DEF Core, DataInv, DataTypes
<1>5. Operand1 \in Value /\ Operand2 \in Value \cup Regs
    BY <1>4, ValueZero DEF Operand1, Operand2
<1>6. X \notin {reg_op1, reg_op2}
    BY <1>3, <1>5, UndefinedAssumption
<1>7. dbg_insn.op \in Upper \cup Immediates \cup {"add", "sub"}
      \/ (BARREL_SHIFTER /\ dbg_insn.op \in ShiftImm \cup ShiftReg)
    BY <1>1, <1>2, <1>3 DEF RegReg
<1>8. Cpu!alu_out = Cpu!AddSubShift
    BY <1>2, <1>3, <1>7, CpuData DEF Cpu!alu_out
<1>9. alu_out_q' = Cpu!AddSubShift
    BY <1>8 DEF Next, Cpu!Edge, Cpu!Alu
<1>10. Cpu!AddSubShift =
          IF dbg_insn.op = "sub" THEN Minus(Operand1, Operand2)
          ELSE IF dbg_insn.op \in ShiftImm \cup ShiftReg
               THEN ShiftLeft(Operand1, Operand2 % Width)
          ELSE Plus(Operand1, Operand2)
    BY <1>2, <1>3, <1>6, CpuData DEF Cpu!AddSubShift
<1>11. Plus(0, dbg_insn.imm) = dbg_insn.imm
    BY <1>4, ValueRange DEF Plus, Value
<1>12. Cpu!AddSubShift = AluValue
    BY <1>7, <1>10, <1>11
       DEF AluValue, Operand1, Operand2, Upper, Immediates, ShiftImm, ShiftReg
<1>13. /\ reg_pc \in Int /\ R1 \in Int /\ R2 \in Int /\ dbg_insn.imm \in Int
       /\ dbg_insn.rs2 \in Int
  <2>1. \A r \in Regs : r \in Int
    BY RegsAssumption
  <2> QED BY <1>4, <2>1, ValueZero
<1>14. dbg_insn.rs2 % Width \in Nat /\ R2 % Width \in Nat
    BY <1>13, WidthAssumption, Remainder
<1>15. AluValue \in Value
  <2>1. /\ Plus(reg_pc, dbg_insn.imm) \in Value
        /\ Plus(R1, dbg_insn.imm) \in Value
        /\ Plus(R1, R2) \in Value /\ Minus(R1, R2) \in Value
    BY <1>13, ValueOps
  <2>2. ShiftLeft(R1, dbg_insn.rs2 % Width) \in Value
        /\ ShiftLeft(R1, R2 % Width) \in Value
    BY <1>4, <1>14, ShiftType
  <2> QED BY <1>4, <1>7, <2>1, <2>2
             DEF AluValue, Upper, Immediates, ShiftImm, ShiftReg
<1> QED BY <1>9, <1>12, <1>15

(* The comparison of a branch.                                             *)
LEMMA BranchTaken ==
    ASSUME Core, cpu_state = "exec", IsBranch, insn2 = dbg_insn,
           TWO_CYCLE_ALU => ~(alu_wait /\ (SlowBranch => alu_wait_2))
    PROVE  Cpu!alu_out_0 = Taken
<1>1. reg_op1 = R1 /\ reg_op2 = R2
    BY DEF Core, DataInv, ExecInv, Operand1, Operand2, IsBranch, Branches,
           Upper, Immediates, ShiftImm
<1>2. Cpu!alu_eq = (R1 = R2)
    BY <1>1 DEF Core, DataInv, ExecInv, Cpu!alu_eq
<1> QED BY <1>2 DEF Cpu!alu_out_0, Taken

(* A branch is decided by its two operands.                                *)
LEMMA TakenNow ==
    ASSUME Core, resetn, Next, Cpu!ExecBranch
    PROVE  Cpu!taken = Taken /\ IsBranch
<1>1. cpu_state = "exec" /\ insn1.op \in Branches
      /\ ~((TWO_CYCLE_ALU \/ TWO_CYCLE_COMPARE) /\ (alu_wait \/ alu_wait_2))
    BY CpuData DEF Cpu!ExecBranch, Cpu!ExecNow, Cpu!Exec
<1>2. Busy /\ insn1 = dbg_insn /\ insn2 = dbg_insn
    BY <1>1, ExecEdge
<1>3. IsBranch
    BY <1>1, <1>2 DEF IsBranch
<1>4. Cpu!alu_out_0 = Taken
    BY <1>1, <1>2, <1>3, BranchTaken
<1>5. TWO_CYCLE_COMPARE => alu_out_0_q = Taken
    BY <1>1, <1>3 DEF Core, DataInv, ExecInv
<1> QED BY <1>3, <1>4, <1>5 DEF Cpu!taken

(* Execution keeps the data in order.                                      *)
LEMMA ExecData ==
    ASSUME Core, resetn, Next, Cpu!ExecWait \/ Cpu!ExecBranch \/ Cpu!ExecAlu
    PROVE  MainInv'
<1>1. cpu_state = "exec"
    BY DEF Cpu!ExecWait, Cpu!ExecBranch, Cpu!ExecAlu, Cpu!ExecNow, Cpu!Exec
<1>2. /\ Busy /\ insn1 = dbg_insn /\ insn2 = dbg_insn /\ insn2' = dbg_insn
      /\ ~Cpu!mem_done => insn1' = dbg_insn
      /\ ~mem_do_rdata /\ ~mem_do_wdata /\ ~Cpu!misaligned
      /\ Cpu!mem_done => mem_do_rinst /\ mem_state' = 0
      /\ mem_do_prefetch /\ ~Cpu!mem_done => mem_state' # 0
      /\ dbg_insn.op = "jalr" =>
            ~mem_do_prefetch /\ ~mem_do_rinst /\ mem_state' = 0
            /\ ~Cpu!mem_done
      /\ ~pcpi_valid
    BY <1>1, ExecEdge
<1>3. /\ reg_pc' \in Value /\ reg_next_pc' \in Value /\ reg_pc' % 4 = 0
      /\ reg_next_pc' = Plus(reg_pc', 4) /\ reg_next_pc' % 4 = 0
      /\ dbg_insn \in CodeWord /\ dbg_insn' = dbg_insn
      /\ R1' = R1 /\ R2' = R2 /\ reg_pc' = reg_pc /\ dbg_insn.op # "jal"
    BY <1>2, BusyStays, BusyEdge
<1>4. /\ latched_rd \in Regs
         /\ (latched_rd = dbg_insn.rd \/ (IsBranch /\ latched_rd = 0))
      /\ latched_branch => IsBranch
      /\ ~latched_stalu
    BY <1>1, <1>2 DEF Core, DataInv, DataTypes, BusyInv
<1>5. /\ IsBranch' = IsBranch /\ Operand1' = Operand1 /\ Operand2' = Operand2
      /\ SlowBranch' = SlowBranch /\ Taken' = Taken
    BY <1>3 DEF IsBranch, Operand1, Operand2, SlowBranch, Taken
<1>6. /\ reg_op1' = reg_op1 /\ reg_op2' = reg_op2 /\ ~pcpi_valid'
      /\ reg_out' = Plus(reg_pc, dbg_insn.imm)
  <2>1. Cpu!Exec
    BY DEF Cpu!ExecWait, Cpu!ExecBranch, Cpu!ExecAlu, Cpu!ExecNow
  <2>2. reg_out' = Cpu!Plus(reg_pc, insn2.imm) /\ pcpi_valid' = pcpi_valid
        /\ reg_op1' = reg_op1 /\ reg_op2' = reg_op2
    BY <2>1 DEF Cpu!Exec
  <2> QED BY <1>2, <2>2, CpuData
<1>7. /\ alu_res' = Cpu!AddSubShift' /\ alu_eq_r' = (reg_op1' = reg_op2')
      /\ alu_out_0_q' = Cpu!alu_out_0
    BY <1>2, <1>6 DEF Next, Cpu!Edge, Cpu!Alu, Cpu!AddSubShift
<1>8. ~mem_do_rdata' /\ ~mem_do_wdata'
    BY <1>2
       DEF Cpu!ExecWait, Cpu!ExecBranch, Cpu!ExecAlu, Cpu!MemDo, Cpu!KeepMemDo
\* The core stays in the execution state.
<1>9. ASSUME cpu_state' = "exec", ~Cpu!mem_done,
             ~mem_do_prefetch => ~mem_do_prefetch',
             dbg_insn.op = "jalr" => ~mem_do_rinst',
             latched_rd' \in {0, latched_rd}, latched_rd' # latched_rd =>
               IsBranch,
             ~latched_stalu', latched_branch' => IsBranch,
             latched_store' <=> latched_branch', ~alu_wait_2',
             TWO_CYCLE_COMPARE /\ IsBranch /\ ~alu_wait' =>
               Cpu!alu_out_0 = Taken
      PROVE  MainInv'
  <2>1. BusyInv'
    BY <1>2, <1>3, <1>4, <1>5, <1>9 DEF BusyInv, Operands
  <2>2. ExecInv'
    <3>1. dbg_insn.op \in Upper \cup Immediates \cup Branches \cup RegReg
                \cup (IF BARREL_SHIFTER THEN ShiftImm \cup ShiftReg ELSE {})
          /\ reg_op1 = Operand1 /\ reg_op2 = Operand2
      BY <1>1 DEF Core, DataInv, ExecInv
    <3> QED BY <1>3, <1>5, <1>6, <1>7, <1>9, <3>1 DEF ExecInv
  <2>3. latched_rd' \in Regs
    BY <1>4, <1>9, ValueZero
  <2>4. FetchInv' /\ OperandInv' /\ ShiftInv' /\ AccessInv'
    BY <1>6, <1>9 DEF FetchInv, OperandInv, ShiftInv, AccessInv
  <2> QED BY <1>3, <2>1, <2>2, <2>3, <2>4 DEF MainInv
\* It goes back to the fetch state.
<1>10. ASSUME cpu_state' = "fetch", latched_rd' \in Regs,
              Cpu!current_pc' \in Value,
              Cpu!cpuregs_write' => Cpu!cpuregs_wrdata' \in Value,
              decoder_trigger' => Cpu!current_pc' % 4 = 0 /\ mem_state' = 0,
              ~decoder_trigger' /\ (mem_do_rinst' \/ mem_do_prefetch')
              /\ mem_state' = 0
                => Cpu!next_pc' = Cpu!current_pc',
              mem_state' # 0 => Cpu!current_pc' % 4 = 0
       PROVE  MainInv'
    BY <1>3, <1>6, <1>10
       DEF MainInv, FetchInv, BusyInv, Busy, OperandInv, ExecInv, ShiftInv,
           AccessInv
<1>11. CASE Cpu!ExecWait
  <2>1. /\ cpu_state' = "exec" /\ (alu_wait \/ alu_wait_2)
        /\ alu_wait' = alu_wait_2 /\ alu_wait_2' = FALSE
        /\ mem_do_prefetch' = (mem_do_prefetch /\ ~Cpu!mem_done)
        /\ mem_do_rinst' => mem_do_prefetch
        /\ UNCHANGED <<latched_store, latched_stalu, latched_branch,
                       latched_rd>>
    BY <1>2, <1>11 DEF Cpu!ExecWait, Cpu!GoTo, Cpu!MemDo, Cpu!latches
  <2>2. ~Cpu!mem_done
    BY <1>1, <1>2, <2>1 DEF Core, ControlInv, RequestInv
  <2>3. (latched_store <=> latched_branch)
        /\ (alu_wait_2 => alu_wait /\ SlowBranch)
    BY <1>1 DEF Core, DataInv, ExecInv
  <2>4. TWO_CYCLE_COMPARE /\ IsBranch /\ ~alu_wait' => Cpu!alu_out_0 = Taken
    BY <1>1, <1>2, <2>1, BranchTaken DEF SlowBranch
  <2> QED BY <1>2, <1>4, <1>9, <2>1, <2>2, <2>3, <2>4
<1>12. CASE Cpu!ExecBranch
  <2>1. /\ cpu_state' = IF Cpu!mem_done THEN "fetch" ELSE "exec"
        /\ latched_rd' = 0 /\ latched_store' = Cpu!taken
        /\ latched_branch' = Cpu!taken
        /\ latched_stalu' = latched_stalu
        /\ mem_do_prefetch' = (mem_do_prefetch /\ ~Cpu!mem_done)
        /\ decoder_trigger' = (mem_do_rinst /\ Cpu!mem_done /\ ~Cpu!taken)
        /\ alu_wait_2' = FALSE
        /\ ~((TWO_CYCLE_ALU \/ TWO_CYCLE_COMPARE) /\ (alu_wait \/ alu_wait_2))
    BY <1>2, <1>12
       DEF Cpu!ExecBranch, Cpu!ExecNow, Cpu!NoAluWait, Cpu!GoTo, Cpu!MemDo
  <2>2. Cpu!taken = Taken /\ IsBranch /\ dbg_insn.op # "jalr"
    BY <1>12, TakenNow DEF IsBranch, Branches
  <2>3. CASE ~Cpu!mem_done
    <3>1. Cpu!alu_out_0 = Taken
      BY <1>1, <1>2, <2>1, <2>2, BranchTaken
    <3> QED BY <1>4, <1>9, <2>1, <2>2, <2>3, <3>1
  <2>4. CASE Cpu!mem_done
    <3>1. mem_state' = 0 /\ latched_rd' \in Regs /\ ~Cpu!cpuregs_write'
      BY <1>2, <2>1, <2>4, ValueZero DEF Cpu!cpuregs_write
    <3>2. reg_out' \in Value
      <4>1. reg_pc \in Int /\ dbg_insn.imm \in Int
        BY <1>2, BusyState, ValueZero DEF Core, DataInv, DataTypes
      <4> QED BY <1>6, <4>1, ValueOps
    <3>3. Cpu!current_pc' = Cpu!next_pc' /\ Cpu!current_pc' \in Value
          /\ (~Cpu!taken => Cpu!current_pc' = reg_next_pc')
      <4>1. /\ Cpu!current_pc' = IF Cpu!taken THEN ClearBit0(reg_out')
                  ELSE reg_next_pc'
            /\ Cpu!next_pc' = IF Cpu!taken THEN ClearBit0(reg_out')
                  ELSE reg_next_pc'
        BY <1>4, <2>1, CpuData DEF Cpu!current_pc, Cpu!next_pc
      <4>2. ClearBit0(reg_out') \in Value
        BY <3>2, ValueOps, ValueZero
      <4> QED BY <1>3, <4>1, <4>2
    <3> QED BY <1>3, <1>10, <2>1, <2>4, <3>1, <3>3
  <2> QED BY <2>3, <2>4
<1>13. CASE Cpu!ExecAlu
  <2>1. /\ cpu_state' = "fetch" /\ latched_rd' = latched_rd
        /\ latched_branch' = (dbg_insn.op = "jalr")
        /\ latched_store' = TRUE /\ latched_stalu' = TRUE
        /\ dbg_insn.op \notin Branches
        /\ Cpu!KeepMemDo /\ Cpu!Trigger
    BY <1>2, <1>13, CpuData DEF Cpu!ExecAlu, Cpu!GoTo
  <2>2. dbg_insn.op # "fence" => alu_out_q' \in Value
    BY <1>13, AluResult
  <2>3. latched_rd = dbg_insn.rd
    BY <1>4, <2>1 DEF IsBranch
  <2>4. dbg_insn.op = "fence" => dbg_insn.rd = 0
    BY <1>3 DEF CodeWord, MemWord, Fences
  <2>5. CASE dbg_insn.op = "jalr"
    <3>1. mem_state' = 0 /\ ~mem_do_prefetch' /\ ~mem_do_rinst'
          /\ ~decoder_trigger'
      BY <1>2, <2>1, <2>5 DEF Cpu!KeepMemDo, Cpu!MemDo, Cpu!Trigger
    <3>2. Cpu!current_pc' = ClearBit0(alu_out_q')
          /\ Cpu!cpuregs_wrdata' = Plus(reg_pc', 4)
      BY <2>1, <2>5, CpuData DEF Cpu!current_pc, Cpu!cpuregs_wrdata
    <3>3. Cpu!current_pc' \in Value /\ Cpu!cpuregs_wrdata' \in Value
      BY <1>3, <2>2, <2>5, <3>2, ValueOps, ValueZero
    <3> QED BY <1>4, <1>10, <2>1, <3>1, <3>3
  <2>6. CASE dbg_insn.op # "jalr"
    <3>1. Cpu!current_pc' = reg_next_pc' /\ Cpu!next_pc' = reg_next_pc'
          /\ Cpu!cpuregs_wrdata' = alu_out_q'
      BY <2>1, <2>6 DEF Cpu!current_pc, Cpu!next_pc, Cpu!cpuregs_wrdata
    <3>2. Cpu!cpuregs_write' => Cpu!cpuregs_wrdata' \in Value
      BY <2>1, <2>2, <2>3, <2>4, <3>1 DEF Cpu!cpuregs_write
    <3>3. decoder_trigger' => mem_state' = 0
      BY <1>2, <2>1 DEF Cpu!Trigger
    <3> QED BY <1>3, <1>4, <1>10, <2>1, <3>1, <3>2, <3>3
  <2> QED BY <2>5, <2>6
<1> QED BY <1>11, <1>12, <1>13

-----------------------------------------------------------------------------
(* The serial shifter.                                                     *)

(* The serial shifter: the rest of the shift on what it has is the shift.  *)
LEMMA ShiftState ==
    ASSUME Core, resetn, Next, Cpu!ShiftDone \/ Cpu!ShiftStep
    PROVE  /\ cpu_state = "shift" /\ ~mem_do_rinst /\ ~Cpu!mem_done
           /\ ~decoder_trigger' /\ latched_store' = TRUE
           /\ ~latched_branch' /\ ~latched_stalu' /\ ~pcpi_valid'
           /\ latched_rd' = dbg_insn.rd /\ latched_rd' \in Regs
           /\ ~mem_do_rdata' /\ ~mem_do_wdata'
           /\ dbg_insn.op \in ShiftImm \cup ShiftReg
           /\ reg_op1 \in Value /\ reg_sh \in 0 .. Width
<1>1. Cpu!Shift
    BY DEF Cpu!ShiftDone, Cpu!ShiftStep
<1>2. cpu_state = "shift" /\ latched_store' = TRUE
      /\ decoder_trigger' = (mem_do_rinst /\ Cpu!mem_done)
      /\ UNCHANGED <<latched_stalu, latched_branch, latched_rd, pcpi_valid>>
    BY <1>1 DEF Cpu!Shift, Cpu!Trigger
<1>3. ~mem_do_rinst
    BY <1>2 DEF Core, ControlInv, RequestInv
<1>4. Busy /\ ~Cpu!mem_done /\ ~pcpi_valid /\ ~mem_do_rdata /\ ~mem_do_wdata
    BY <1>2, <1>3, ExecEdge
<1>5. dbg_insn.op \in ShiftImm \cup ShiftReg /\ reg_op1 \in Value
      /\ reg_sh \in 0 .. Width
    BY <1>2 DEF Core, DataInv, ShiftInv
<1>6. ~latched_branch /\ ~latched_stalu
      /\ (latched_rd = dbg_insn.rd \/ (IsBranch /\ latched_rd = 0))
    BY <1>2, <1>4 DEF Core, DataInv, BusyInv
<1>7. latched_rd = dbg_insn.rd /\ latched_rd \in Regs
    BY <1>5, <1>6
       DEF IsBranch, Branches, ShiftImm, ShiftReg, Core, DataInv, DataTypes
<1>8. ~mem_do_rdata' /\ ~mem_do_wdata'
    BY <1>4
       DEF Cpu!ShiftDone, Cpu!ShiftStep, Cpu!AskPrefetched, Cpu!KeepMemDo,
           Cpu!MemDo
<1> QED BY <1>2, <1>3, <1>4, <1>5, <1>6, <1>7, <1>8

(* By how much a shift shifts.                                             *)
ShiftAmount == (IF dbg_insn.op \in ShiftImm THEN dbg_insn.rs2 ELSE R2) % Width

(* The serial shifter keeps the data in order.                             *)
LEMMA ShiftData ==
    ASSUME Core, resetn, Next, Cpu!ShiftDone \/ Cpu!ShiftStep
    PROVE  MainInv'
<1>1. /\ cpu_state = "shift" /\ ~mem_do_rinst /\ ~Cpu!mem_done
      /\ ~decoder_trigger' /\ latched_store' = TRUE
      /\ ~latched_branch' /\ ~latched_stalu' /\ ~pcpi_valid'
      /\ latched_rd' = dbg_insn.rd /\ latched_rd' \in Regs
      /\ ~mem_do_rdata' /\ ~mem_do_wdata'
      /\ dbg_insn.op \in ShiftImm \cup ShiftReg
      /\ reg_op1 \in Value /\ reg_sh \in 0 .. Width
    BY ShiftState
<1>2. /\ Busy /\ insn1' = dbg_insn /\ ~Cpu!misaligned
      /\ mem_do_prefetch => mem_state' # 0
    BY <1>1, ExecEdge
<1>3. /\ reg_pc' \in Value /\ reg_next_pc' \in Value /\ reg_pc' % 4 = 0
      /\ reg_next_pc' = Plus(reg_pc', 4) /\ reg_next_pc' % 4 = 0
      /\ dbg_insn \in CodeWord /\ dbg_insn' = dbg_insn
      /\ R1' = R1 /\ R2' = R2 /\ dbg_insn.op # "jal"
    BY <1>2, BusyStays
<1>4. CASE Cpu!ShiftDone
  <2>1. cpu_state' = "fetch" /\ reg_out' = reg_op1
    BY <1>2, <1>4 DEF Cpu!ShiftDone, Cpu!GoTo
  <2>2. Cpu!current_pc' = reg_next_pc' /\ Cpu!next_pc' = reg_next_pc'
        /\ Cpu!cpuregs_wrdata' = reg_out'
    BY <1>1 DEF Cpu!current_pc, Cpu!next_pc, Cpu!cpuregs_wrdata
  <2>3. FetchInv'
    BY <1>1, <1>3, <2>1, <2>2 DEF FetchInv
  <2>4. BusyInv' /\ OperandInv' /\ ExecInv' /\ ShiftInv' /\ AccessInv'
    BY <1>1, <2>1 DEF BusyInv, Busy, OperandInv, ExecInv, ShiftInv, AccessInv
  <2> QED BY <1>1, <1>3, <2>3, <2>4 DEF MainInv
<1>5. CASE Cpu!ShiftStep
  <2> DEFINE k == IF TWO_STAGE_SHIFT /\ reg_sh >= 4 THEN 4 ELSE 1
  <2>1. /\ cpu_state' = "shift" /\ mem_do_prefetch' = mem_do_prefetch
        /\ ~mem_do_rinst'
        /\ reg_op1' = ShiftLeft(reg_op1, k) /\ reg_sh' = reg_sh - k
        /\ reg_sh > 0
    BY <1>1, <1>2, <1>5, CpuData
       DEF Cpu!ShiftStep, Cpu!GoTo, Cpu!KeepMemDo, Cpu!MemDo, Core, ControlInv,
           FlagTypes, Booleans
  <2>2. k \in {1, 4} /\ k <= reg_sh /\ reg_sh \in Nat
    BY <1>1, <2>1
  <2> HIDE DEF k
  <2>3. reg_op1' \in Value /\ reg_sh' \in 0 .. Width
    BY <1>1, <2>1, <2>2, ShiftType, WidthAssumption
  <2>4. ShiftLeft(reg_op1', reg_sh') = ShiftLeft(reg_op1, reg_sh)
    BY <1>1, <2>1, <2>2, ShiftInSteps
  <2>5. ShiftLeft(reg_op1, reg_sh) = ShiftLeft(R1, ShiftAmount)
    BY <1>1 DEF Core, DataInv, ShiftInv, ShiftAmount
  <2>6. ShiftAmount' = ShiftAmount
    BY <1>3 DEF ShiftAmount
  <2>7. ShiftInv'
    <3>1. ShiftLeft(reg_op1', reg_sh') = ShiftLeft(R1', ShiftAmount')
      BY <1>3, <2>4, <2>5, <2>6
    <3> QED BY <1>1, <1>3, <2>3, <3>1 DEF ShiftInv, ShiftAmount
  <2>8. BusyInv'
    BY <1>1, <1>2, <1>3, <2>1 DEF BusyInv, Operands, ShiftImm, ShiftReg
  <2>9. FetchInv' /\ OperandInv' /\ ExecInv' /\ AccessInv'
    BY <1>1, <2>1 DEF FetchInv, OperandInv, ExecInv, AccessInv
  <2> QED BY <1>1, <1>3, <2>7, <2>8, <2>9 DEF MainInv
<1> QED BY <1>4, <1>5

-----------------------------------------------------------------------------
(* Loads and stores.                                                       *)

(* The states that load and store.                                         *)
Accessing == cpu_state \in {"ldmem", "stmem"}

(* A load or store first waits for the next word, then makes its access.   *)
LEMMA AccessEdge ==
    ASSUME Core, resetn, Next, Accessing
    PROVE  /\ Busy /\ ~trap /\ MemEdge /\ ~pcpi_valid
           /\ mem_do_rdata => cpu_state = "ldmem"
           /\ mem_do_wdata => cpu_state = "stmem"
           /\ ~DataRequest =>
                /\ mem_do_prefetch /\ mem_do_rinst /\ ~Cpu!misaligned
                /\ insn1 = dbg_insn /\ insn2 = dbg_insn /\ reg_op1 = R1
                /\ ~Cpu!mem_done => insn1' = dbg_insn
                /\ Cpu!mem_done =>
                    /\ Align(reg_next_pc) \in MemoryAddresses
                    /\ insn1' = mem[Align(reg_next_pc)]
           /\ DataRequest =>
                /\ ~mem_do_prefetch /\ ~mem_do_rinst /\ insn1' = insn1
                /\ Cpu!misaligned <=> Misaligned(reg_op1, mem_wordsize)
                /\ mem_state # 0 => ~Misaligned(reg_op1, mem_wordsize)
                                    /\ mem_addr = Align(reg_op1)
                /\ Cpu!mem_done <=> mem_state # 0 /\ mem_valid /\ mem_ready
                /\ mem_state = 0 => mem_addr' = Align(reg_op1)
           /\ ~(mem_do_wdata /\ Cpu!mem_done) => mem' = mem
<1>1. Busy /\ reg_pc % 4 = 0 /\ ~trap
    BY DEF Accessing, Busy, Core, DataInv, BusyInv, ControlInv, InterfaceInv
<1>2. MemEdge
    BY <1>1, MemoryEdge DEF Core
<1>3. /\ mem_do_rdata => cpu_state = "ldmem"
      /\ mem_do_wdata => cpu_state = "stmem"
      /\ ~pcpi_valid
      /\ DataRequest => ~mem_do_prefetch /\ ~mem_do_rinst
    BY DEF Core, ControlInv, RequestInv, PortInv, PortState, Accessing,
           DataRequest
<1>4. ~DataRequest => mem_do_prefetch /\ mem_do_rinst
    BY DEF Core, ControlInv, RequestInv, FlagTypes, Booleans, Accessing,
           DataRequest
<1>5. ~DataRequest =>
        ~Cpu!misaligned /\ insn1 = dbg_insn /\ insn2 = dbg_insn /\ reg_op1 = R1
  <2>1. ~DataRequest => reg_op1 = R1
    BY DEF Core, DataInv, AccessInv, Loaded, Accessing, DataRequest
  <2> QED BY <1>1, <2>1, BusyState
<1>6. DecoderStep
    BY DecoderAdvances
<1>7. ~DataRequest /\ ~Cpu!mem_done => insn1' = dbg_insn
    BY <1>5, <1>6 DEF DecoderStep
<1>8. ~DataRequest /\ Cpu!mem_done =>
        /\ Align(reg_next_pc) \in MemoryAddresses
        /\ insn1' = mem[Align(reg_next_pc)]
  <2> SUFFICES ASSUME ~DataRequest, Cpu!mem_done
               PROVE  /\ Align(reg_next_pc) \in MemoryAddresses
                      /\ insn1' = mem[Align(reg_next_pc)]
    OBVIOUS
  <2>1. Target = reg_next_pc
    BY <1>1 DEF Target, Busy
  <2>2. /\ Align(reg_next_pc) \in MemoryAddresses
        /\ Cpu!mem_rdata_latched = mem[Align(reg_next_pc)]
    BY <1>1, <1>4, <2>1, FetchedWord DEF Core, Busy
  <2>3. insn1' = Cpu!mem_rdata_latched
    BY <1>4 DEF Next, Cpu!Edge, Cpu!Decoder, Cpu!Cleared
  <2> QED BY <2>2, <2>3
<1>9. DataRequest => insn1' = insn1
    BY <1>3, <1>6 DEF DecoderStep
<1>10. DataRequest => (Cpu!misaligned <=> Misaligned(reg_op1, mem_wordsize))
    BY <1>3, CpuData DEF Cpu!misaligned, DataRequest
<1>11. DataRequest /\ mem_state # 0 =>
            ~Misaligned(reg_op1, mem_wordsize) /\ mem_addr = Align(reg_op1)
    BY DEF Core, DataInv, AccessInv, Loaded, Accessing, DataRequest
<1>12. DataRequest =>
         (Cpu!mem_done <=> mem_state # 0 /\ mem_valid /\ mem_ready)
    BY <1>3 DEF Cpu!mem_done, Cpu!mem_xfer, DataRequest
<1>13. DataRequest /\ mem_state = 0 => mem_addr' = Align(reg_op1)
    BY <1>2, <1>3 DEF MemEdge, Fetching, DataRequest
<1>14. ~(mem_do_wdata /\ Cpu!mem_done) => mem' = mem
  <2> SUFFICES ASSUME ~(mem_do_wdata /\ Cpu!mem_done) PROVE mem' = mem
    OBVIOUS
  <2>1. ~(mem_valid /\ mem_ready /\ mem_wstrb # {})
    BY <1>1, <1>12, WriteOnly DEF Core, Busy, DataRequest
  <2> QED BY <2>1, MemoryStep DEF MemStep, Core, DataInv
<1> QED BY <1>1, <1>2, <1>3, <1>4, <1>5, <1>7, <1>8, <1>9, <1>10, <1>11, <1>12,
           <1>13, <1>14

(* The edge of the state machine in both states.                           *)
LEMMA AccessRegs ==
    ASSUME Core, resetn, Next, Cpu!StMem \/ Cpu!LdMem
    PROVE  LET request == ~DataRequest /\ Cpu!mem_done
               done == DataRequest /\ Cpu!mem_done
           IN  /\ Accessing
               /\ cpu_state' = IF Cpu!misaligned THEN "trap"
                               ELSE IF done THEN "fetch" ELSE cpu_state
               /\ reg_op1' = IF request THEN Plus(R1, dbg_insn.imm)
                     ELSE reg_op1
               /\ mem_wordsize' = IF request THEN Size(dbg_insn.op)
                     ELSE mem_wordsize
               /\ decoder_trigger' <=> Cpu!mem_done
               /\ UNCHANGED <<reg_op2, latched_stalu, latched_branch,
                              latched_rd,
                              pcpi_valid>>
               /\ cpu_state = "stmem" => latched_store' = latched_store
               /\ cpu_state = "ldmem" => latched_store' = TRUE
               /\ mem_do_prefetch' <=> mem_do_prefetch /\ ~Cpu!mem_done
               /\ mem_do_rinst' <=> mem_do_rinst /\ ~Cpu!mem_done
               /\ mem_do_rdata' <=>
                    (mem_do_rdata /\ ~Cpu!mem_done)
                    \/ (cpu_state = "ldmem" /\ request)
               /\ mem_do_wdata' <=>
                    (mem_do_wdata /\ ~Cpu!mem_done)
                    \/ (cpu_state = "stmem" /\ request)
               /\ cpu_state = "ldmem" =>
                    /\ latched_is' =
                         IF request
                         THEN (IF is_lbu_lhu_lw THEN {"lu"} ELSE {})
                              \cup ({dbg_insn.op} \cap {"lh", "lb"})
                         ELSE latched_is
                    /\ done => reg_out' = Cpu!LoadResult
<1> DEFINE request == ~DataRequest /\ Cpu!mem_done
           done == DataRequest /\ Cpu!mem_done
<1>1. Accessing
    BY DEF Accessing, Cpu!StMem, Cpu!LdMem
<1>2. /\ mem_do_rdata => cpu_state = "ldmem"
      /\ mem_do_wdata => cpu_state = "stmem"
      /\ ~DataRequest => mem_do_prefetch /\ mem_do_rinst
                         /\ insn2 = dbg_insn /\ reg_op1 = R1
      /\ DataRequest => ~mem_do_prefetch /\ ~mem_do_rinst
    BY <1>1, AccessEdge
<1>3. /\ cpu_state = "ldmem" => (Cpu!PrefetchIn /\ ~mem_do_rdata <=> request)
      /\ cpu_state = "stmem" => (Cpu!PrefetchIn /\ ~mem_do_wdata <=> request)
      /\ Cpu!AccessDone <=> done
      /\ Cpu!AccessDone \/ (mem_do_rinst /\ Cpu!mem_done) <=> Cpu!mem_done
    BY <1>2 DEF Cpu!PrefetchIn, Cpu!AccessDone, DataRequest
<1> HIDE DEF request, done
<1>4. ASSUME NEW req, Cpu!Access(req), req <=> request
      PROVE  /\ reg_op1' = IF request THEN Plus(R1, dbg_insn.imm) ELSE reg_op1
             /\ mem_wordsize' = IF request THEN Size(dbg_insn.op)
                   ELSE mem_wordsize
             /\ decoder_trigger' <=> Cpu!mem_done
             /\ UNCHANGED <<reg_op2, latched_stalu, latched_branch, latched_rd,
                            pcpi_valid>>
  <2>1. /\ mem_wordsize' = IF req THEN Cpu!Size(insn2.op) ELSE mem_wordsize
        /\ reg_op1' = IF req THEN Cpu!Plus(reg_op1, insn2.imm) ELSE reg_op1
        /\ decoder_trigger'
              = (Cpu!AccessDone \/ (mem_do_rinst /\ Cpu!mem_done))
        /\ UNCHANGED <<reg_op2, latched_stalu, latched_branch, latched_rd,
                       pcpi_valid>>
    BY <1>4 DEF Cpu!Access
  <2>2. request => insn2 = dbg_insn /\ reg_op1 = R1
    BY <1>2 DEF request
  <2>3. decoder_trigger' <=> Cpu!mem_done
    BY <1>3, <2>1
  <2> QED BY <1>4, <2>1, <2>2, <2>3, CpuData
<1>5. CASE Cpu!LdMem
  <2>1. cpu_state = "ldmem"
    BY <1>5 DEF Cpu!LdMem
  <2> DEFINE req == Cpu!PrefetchIn /\ ~mem_do_rdata
  <2>2. /\ Cpu!Access(req)
        /\ Cpu!MemDo(mem_do_prefetch, mem_do_rinst, FALSE, req, FALSE)
        /\ latched_is' =
              IF req THEN (IF is_lbu_lhu_lw THEN {"lu"} ELSE {})
                          \cup ({insn2.op} \cap {"lh", "lb"})
              ELSE latched_is
        /\ reg_out' = IF Cpu!AccessDone THEN Cpu!LoadResult ELSE X
        /\ Cpu!GoTo(IF Cpu!AccessDone THEN "fetch" ELSE "ldmem")
        /\ latched_store' = TRUE
    BY <1>5 DEF Cpu!LdMem
  <2>3. req <=> request
    BY <1>3, <2>1
  <2> HIDE DEF req
  <2>4. request => insn2 = dbg_insn
    BY <1>2 DEF request
  <2>5. cpu_state' = IF Cpu!misaligned THEN "trap" ELSE IF done THEN "fetch"
           ELSE cpu_state
    BY <1>3, <2>1, <2>2 DEF Cpu!GoTo
  <2>6. /\ mem_do_prefetch' <=> mem_do_prefetch /\ ~Cpu!mem_done
        /\ mem_do_rinst' <=> mem_do_rinst /\ ~Cpu!mem_done
        /\ mem_do_rdata' <=> (mem_do_rdata /\ ~Cpu!mem_done) \/ request
        /\ mem_do_wdata' <=> mem_do_wdata /\ ~Cpu!mem_done
    BY <2>2, <2>3 DEF Cpu!MemDo
  <2>7. latched_is' = IF request
                      THEN (IF is_lbu_lhu_lw THEN {"lu"} ELSE {})
                           \cup ({dbg_insn.op} \cap {"lh", "lb"})
                      ELSE latched_is
    BY <2>2, <2>3, <2>4
  <2>8. done => reg_out' = Cpu!LoadResult
    BY <1>3, <2>2
  <2> QED BY <1>1, <1>4, <2>1, <2>2, <2>3, <2>5, <2>6, <2>7, <2>8
             DEF request, done
<1>6. CASE Cpu!StMem
  <2>1. cpu_state = "stmem"
    BY <1>6 DEF Cpu!StMem
  <2> DEFINE req == Cpu!PrefetchIn /\ ~mem_do_wdata
  <2>2. /\ Cpu!Access(req)
        /\ Cpu!MemDo(mem_do_prefetch, mem_do_rinst, FALSE, FALSE, req)
        /\ Cpu!GoTo(IF Cpu!AccessDone THEN "fetch" ELSE "stmem")
        /\ latched_store' = latched_store
    BY <1>6 DEF Cpu!StMem
  <2>3. req <=> request
    BY <1>3, <2>1
  <2> HIDE DEF req
  <2>5. cpu_state' = IF Cpu!misaligned THEN "trap" ELSE IF done THEN "fetch"
           ELSE cpu_state
    BY <1>3, <2>1, <2>2 DEF Cpu!GoTo
  <2>6. /\ mem_do_prefetch' <=> mem_do_prefetch /\ ~Cpu!mem_done
        /\ mem_do_rinst' <=> mem_do_rinst /\ ~Cpu!mem_done
        /\ mem_do_rdata' <=> mem_do_rdata /\ ~Cpu!mem_done
        /\ mem_do_wdata' <=> (mem_do_wdata /\ ~Cpu!mem_done) \/ request
    BY <2>2, <2>3 DEF Cpu!MemDo
  <2> QED BY <1>1, <1>4, <2>1, <2>2, <2>3, <2>5, <2>6 DEF request, done
<1> QED BY <1>5, <1>6

(* Aligned means divisible by the number of bytes.                         *)
LEMMA AlignedAccess ==
    ASSUME NEW a \in Value, NEW o \in Loads \cup Stores
    PROVE  Misaligned(a, Size(o)) <=> a % IsaOfCore!Bytes(o) # 0
<1>1. a \in Int /\ Size(o) \in 0 .. 2
    BY ValueZero DEF Size, Loads, UnsignedLoads, Stores
<1>2. IsaOfCore!Bytes(o) = CASE Size(o) = 0 -> 4 [] Size(o) = 1 -> 2
      [] Size(o) = 2 -> 1
    BY IsaData DEF IsaOfCore!Bytes
<1>3. a % 1 = 0
    BY <1>1
<1> DEFINE z == Size(o)
<1>4. Misaligned(a, z) <=> (z = 0 /\ a % 4 # 0) \/ (z = 1 /\ a % 2 # 0)
    BY DEF Misaligned
<1> HIDE DEF z
<1>5. z \in 0 .. 2
    BY <1>1 DEF z
<1>6. IsaOfCore!Bytes(o) = CASE z = 0 -> 4 [] z = 1 -> 2 [] z = 2 -> 1
    BY <1>2 DEF z
<1>7. Misaligned(a, z) <=> a % IsaOfCore!Bytes(o) # 0
    BY <1>3, <1>4, <1>5, <1>6
<1> QED BY <1>7 DEF z

(* A signed or unsigned byte, half word or word is a value.                *)
LEMMA SignedType ==
    ASSUME NEW v \in Value, NEW n \in Int
    PROVE  SignExtended(v, n) \in Value
<1>1. v \in Int
    BY ValueZero
<1>2. Minus(v, n) \in Value
    BY <1>1, ValueOps
<1> QED BY <1>2 DEF SignExtended

(* What a load puts in its register is what the instruction set says.      *)
LEMMA LoadedValue ==
    ASSUME Core, resetn, Next, cpu_state = "ldmem", mem_do_rdata, Cpu!mem_done
    PROVE  LET a == Plus(R1, dbg_insn.imm)
               n == IsaOfCore!Bytes(dbg_insn.op)
               v == IsaOfCore!LoadValue(dbg_insn.op,
                                        IsaOfCore!LoadBytes(mem, a, n))
           IN  /\ dbg_insn.op \in Loads /\ a % n = 0
               /\ Align(a) \in MemoryAddresses
               /\ Cpu!LoadResult = v /\ v \in Value
<1> DEFINE o == dbg_insn.op
           a == Plus(R1, dbg_insn.imm)
           n == IsaOfCore!Bytes(o)
           w == Selected(mem[Align(a)].imm, a, Size(o))
           v == IsaOfCore!LoadValue(o, IsaOfCore!LoadBytes(mem, a, n))
<1>1. Busy /\ mem_state # 0 /\ mem_valid /\ mem_ready
      /\ ~Misaligned(reg_op1, mem_wordsize) /\ mem_addr = Align(reg_op1)
    BY AccessEdge DEF Accessing, DataRequest
<1>2. /\ o \in Loads /\ reg_op1 = a /\ mem_wordsize = Size(o)
      /\ latched_is = IF o \in UnsignedLoads THEN {"lu"} ELSE {o}
    BY DEF Core, DataInv, AccessInv, Loaded
<1>3. a \in Value
    BY <1>1, BusyState, ValueOps, ValueZero
<1>4. Align(a) \in MemoryAddresses /\ mem_rdata = mem[Align(a)]
      /\ mem[Align(a)] \in CodeWord
    BY <1>1, <1>2 DEF Core, DataInv, BusInv, DataTypes, mem_rdata
<1>5. mem[Align(a)].imm \in Value
    BY <1>4 DEF CodeWord, MemWord
<1>6. Cpu!LoadResult = CASE "lu" \in latched_is -> w
                         [] "lh" \in latched_is -> SignExtended(w, Base * Base)
                         [] "lb" \in latched_is -> SignExtended(w, Base)
  <2>1. Cpu!Selected(mem_rdata.imm, reg_op1, mem_wordsize) = w
    BY <1>2, <1>4, CpuData
  <2> HIDE DEF w
  <2> QED BY <2>1, CpuData DEF Cpu!LoadResult
<1> HIDE DEF a, o
<1>7. a % n = 0
  <2>1. Misaligned(a, Size(o)) <=> a % n # 0
    BY <1>2, <1>3, AlignedAccess
  <2> QED BY <1>1, <1>2, <2>1
<1>8. /\ IsaOfCore!LoadBytes(mem, a, n) = w
      /\ Size(o) = 1 => w \in 0 .. Base * Base - 1
      /\ Size(o) = 2 => w \in ByteNo
      /\ Size(o) = 0 => w = mem[Align(a)].imm
      /\ Size(o) \in 0 .. 2
  <2>1. Size(o) = 0 => w = mem[Align(a)].imm
    BY DEF Selected
  <2> QED BY <1>1, <1>2, <1>3, <1>5, <2>1, SelectedBytes
<1> HIDE DEF w, n
<1>9. w \in Value
  <2>1. 0 .. Base * Base - 1 \subseteq Value /\ ByteNo \subseteq Value
    <3>1. Base * Base >= Base /\ Base * Base * Base * Base >= Base * Base
          /\ Base \in Nat /\ Base * Base \in Nat /\ V \in Nat
      <4>1. Base \in Nat /\ Base >= 1
        BY BaseAssumption
      <4>2. Base * Base >= Base /\ Base * Base \in Nat
        BY <4>1
      <4> DEFINE b2 == Base * Base
      <4>3. b2 \in Nat /\ b2 >= 1
        BY <4>1, <4>2
      <4> HIDE DEF b2
      <4>4. b2 * b2 >= b2
        BY <4>3
      <4>5. Base * Base * Base * Base = b2 * b2
        BY <4>1 DEF b2
      <4> QED BY <4>1, <4>2, <4>4, <4>5, ValueRange DEF b2
    <3> QED BY <3>1 DEF Value, V, ByteNo
  <2> QED BY <1>5, <1>8, <2>1
<1>10. v = IF o \in {"lb", "lh"}
           THEN SignExtended(w, IsaOfCore!Power[n]) ELSE w
    BY <1>8, IsaData DEF IsaOfCore!LoadValue, n
<1>11. /\ o = "lb" => IsaOfCore!Power[n] = Base
       /\ o = "lh" => IsaOfCore!Power[n] = Base * Base
    BY IsaData DEF IsaOfCore!Power, IsaOfCore!Bytes, n, Size, Scale, LaneNo
<1> HIDE DEF v
<1>12. Cpu!LoadResult = v
    BY <1>2, <1>6, <1>10, <1>11 DEF Loads, UnsignedLoads
<1>13. v \in Value
  <2>1. Base \in Int /\ Base * Base \in Int
    BY BaseAssumption
  <2>2. SignExtended(w, Base) \in Value
        /\ SignExtended(w, Base * Base) \in Value
    BY <1>9, <2>1, SignedType
  <2> QED BY <1>9, <1>10, <1>11, <2>2
<1> QED BY <1>2, <1>4, <1>7, <1>12, <1>13 DEF a, n, o, v

(* Loads and stores keep the data in order: while the transfer is waited   *)
(* for and when it is answered.                                            *)
LEMMA AccessData ==
    ASSUME Core, resetn, Next, Cpu!StMem \/ Cpu!LdMem
    PROVE  MainInv'
<1> DEFINE request == ~DataRequest /\ Cpu!mem_done
           done == DataRequest /\ Cpu!mem_done
<1>1. /\ Accessing
      /\ cpu_state' = IF Cpu!misaligned THEN "trap"
                      ELSE IF done THEN "fetch" ELSE cpu_state
      /\ reg_op1' = IF request THEN Plus(R1, dbg_insn.imm) ELSE reg_op1
      /\ mem_wordsize' = IF request THEN Size(dbg_insn.op) ELSE mem_wordsize
      /\ decoder_trigger' <=> Cpu!mem_done
      /\ UNCHANGED <<reg_op2, latched_stalu, latched_branch, latched_rd,
                     pcpi_valid>>
      /\ cpu_state = "stmem" => latched_store' = latched_store
      /\ cpu_state = "ldmem" => latched_store' = TRUE
      /\ mem_do_prefetch' <=> mem_do_prefetch /\ ~Cpu!mem_done
      /\ mem_do_rinst' <=> mem_do_rinst /\ ~Cpu!mem_done
      /\ mem_do_rdata' <=>
            (mem_do_rdata /\ ~Cpu!mem_done) \/ (cpu_state = "ldmem" /\ request)
      /\ mem_do_wdata' <=>
            (mem_do_wdata /\ ~Cpu!mem_done) \/ (cpu_state = "stmem" /\ request)
      /\ cpu_state = "ldmem" =>
            /\ latched_is' =
                 IF request
                 THEN (IF is_lbu_lhu_lw THEN {"lu"} ELSE {})
                      \cup ({dbg_insn.op} \cap {"lh", "lb"})
                 ELSE latched_is
            /\ done => reg_out' = Cpu!LoadResult
    BY AccessRegs
<1>2. /\ Busy /\ ~pcpi_valid /\ MemEdge
      /\ mem_do_rdata => cpu_state = "ldmem"
      /\ mem_do_wdata => cpu_state = "stmem"
      /\ ~DataRequest =>
            /\ mem_do_prefetch /\ mem_do_rinst /\ ~Cpu!misaligned
            /\ insn2 = dbg_insn /\ reg_op1 = R1
            /\ ~Cpu!mem_done => insn1' = dbg_insn
            /\ Cpu!mem_done =>
                /\ Align(reg_next_pc) \in MemoryAddresses
                /\ insn1' = mem[Align(reg_next_pc)]
      /\ DataRequest =>
            /\ ~mem_do_prefetch /\ ~mem_do_rinst /\ insn1' = insn1
            /\ Cpu!misaligned <=> Misaligned(reg_op1, mem_wordsize)
            /\ mem_state # 0 => ~Misaligned(reg_op1, mem_wordsize)
                                /\ mem_addr = Align(reg_op1)
            /\ Cpu!mem_done <=> mem_state # 0 /\ mem_valid /\ mem_ready
            /\ mem_state = 0 => mem_addr' = Align(reg_op1)
      /\ ~(mem_do_wdata /\ Cpu!mem_done) => mem' = mem
    BY <1>1, AccessEdge
<1>3. /\ reg_pc' \in Value /\ reg_next_pc' \in Value /\ reg_pc' % 4 = 0
      /\ reg_next_pc' = Plus(reg_pc', 4) /\ reg_next_pc' % 4 = 0
      /\ dbg_insn \in CodeWord /\ dbg_insn' = dbg_insn /\ dbg_insn.op # "jal"
      /\ R1' = R1 /\ R2' = R2 /\ reg_next_pc' = reg_next_pc
    BY <1>2, BusyStays, BusyEdge
<1>4. /\ cpu_state = "ldmem" => dbg_insn.op \in Loads
      /\ cpu_state = "stmem" => dbg_insn.op \in Stores /\ reg_op2 = R2
      /\ Loaded
      /\ cpu_state = "ldmem" /\ ~mem_do_rdata =>
            (is_lbu_lhu_lw <=> dbg_insn.op \in UnsignedLoads)
      /\ cpu_state = "ldmem" /\ mem_do_rdata =>
            latched_is = IF dbg_insn.op \in UnsignedLoads THEN {"lu"}
                                                          ELSE {dbg_insn.op}
      /\ cpu_state = "stmem" /\ mem_state = 2 =>
            /\ mem_wstrb = Strobe(reg_op1, mem_wordsize)
            /\ mem_wdata = Replicated(reg_op2, mem_wordsize)
    BY <1>1 DEF Core, DataInv, AccessInv, Accessing
<1>5. dbg_insn.op \notin Branches \cup {"jalr"}
    BY <1>1, <1>4 DEF Branches, Loads, UnsignedLoads, Stores, Accessing
<1>6. /\ latched_rd' = dbg_insn.rd /\ latched_rd' \in Regs
      /\ ~latched_branch' /\ ~latched_stalu'
      /\ cpu_state = "stmem" => ~latched_store'
    BY <1>1, <1>2, <1>5
       DEF Core, DataInv, DataTypes, BusyInv, IsBranch, Accessing
<1>7. is_lbu_lhu_lw' = (insn2.op \in UnsignedLoads)
    BY CpuData DEF Next, Cpu!Edge, Cpu!Decoder
<1>8. ControlInv' /\ trap' = FALSE
    BY <1>2, ControlNext, BusyEdge DEF Core, IInv
<1>9. mem_state' = 2 => mem_do_wdata'
    BY <1>8 DEF ControlInv, InterfaceInv
<1>10. ~pcpi_valid'
    BY <1>1, <1>2
\* The core stays in the state.
<1>11. ASSUME cpu_state' = cpu_state,
              mem_do_prefetch' => mem_state' # 0,
              ~mem_do_rdata' /\ ~mem_do_wdata' => insn1' = dbg_insn,
              Loaded',
              cpu_state = "ldmem" /\ ~mem_do_rdata' =>
                  (is_lbu_lhu_lw' <=> dbg_insn.op \in UnsignedLoads),
              cpu_state = "ldmem" /\ mem_do_rdata' =>
                  latched_is' = IF dbg_insn.op \in UnsignedLoads THEN {"lu"}
                                                                 ELSE {dbg_insn.op},
              cpu_state = "stmem" /\ mem_state' = 2 =>
                  /\ mem_wstrb' = Strobe(reg_op1', mem_wordsize')
                  /\ mem_wdata' = Replicated(reg_op2', mem_wordsize')
       PROVE  MainInv'
  <2>1. BusyInv'
    BY <1>1, <1>3, <1>5, <1>6, <1>11 DEF BusyInv, Operands, Accessing
  <2>2. AccessInv'
    BY <1>1, <1>3, <1>4, <1>11 DEF AccessInv, Accessing
  <2>3. FetchInv' /\ OperandInv' /\ ExecInv' /\ ShiftInv'
    BY <1>1, <1>10, <1>11
       DEF FetchInv, OperandInv, ExecInv, ShiftInv, Accessing
  <2> QED BY <1>3, <1>6, <2>1, <2>2, <2>3 DEF MainInv
<1>12. CASE Cpu!misaligned
  <2>1. DataRequest /\ mem_state = 0 /\ ~Cpu!mem_done /\ cpu_state' = "trap"
    BY <1>1, <1>2, <1>12
  <2>2. mem_state' # 0
    BY <1>2, <2>1 DEF MemEdge, AnyRequest, DataRequest
  <2> QED BY <1>3, <1>6, <1>10, <2>1, <2>2
             DEF MainInv, FetchInv, BusyInv, Busy, OperandInv, ExecInv,
                 ShiftInv, AccessInv
<1>13. CASE ~Cpu!misaligned /\ done
  <2>1. cpu_state' = "fetch" /\ mem_state' = 0
    BY <1>1, <1>2, <1>13 DEF MemEdge
  <2>2. Cpu!current_pc' = reg_next_pc' /\ Cpu!next_pc' = reg_next_pc'
        /\ Cpu!cpuregs_wrdata' = reg_out'
    BY <1>6 DEF Cpu!current_pc, Cpu!next_pc, Cpu!cpuregs_wrdata
  <2>3. Cpu!cpuregs_write' => Cpu!cpuregs_wrdata' \in Value
    <3> SUFFICES ASSUME Cpu!cpuregs_write' PROVE reg_out' \in Value
      BY <2>2
    <3>1. latched_store'
      BY <1>6 DEF Cpu!cpuregs_write
    <3>2. cpu_state = "ldmem" /\ mem_do_rdata
      BY <1>1, <1>2, <1>6, <1>13, <3>1 DEF Accessing, DataRequest
    <3>3. Cpu!LoadResult \in Value
      BY <1>13, <3>2, LoadedValue
    <3> QED BY <1>1, <1>13, <3>2, <3>3
  <2>4. FetchInv'
    BY <1>1, <1>3, <1>13, <2>1, <2>2, <2>3 DEF FetchInv
  <2>5. BusyInv' /\ OperandInv' /\ ExecInv' /\ ShiftInv' /\ AccessInv'
    BY <1>10, <2>1 DEF BusyInv, Busy, OperandInv, ExecInv, ShiftInv, AccessInv
  <2> QED BY <1>3, <1>6, <2>4, <2>5 DEF MainInv
<1>14. CASE ~Cpu!misaligned /\ request
  <2>1. /\ cpu_state' = cpu_state /\ mem_state' = 0 /\ ~mem_do_prefetch'
        /\ mem_do_rdata' <=> cpu_state = "ldmem"
        /\ mem_do_wdata' <=> cpu_state = "stmem"
        /\ mem' = mem
    BY <1>1, <1>2, <1>14 DEF MemEdge, DataRequest
  <2>2. Loaded'
    BY <1>1, <1>2, <1>3, <1>14, <2>1 DEF Loaded, Accessing
  <2>3. cpu_state = "ldmem" =>
            latched_is' = IF dbg_insn.op \in UnsignedLoads THEN {"lu"}
                                                           ELSE {dbg_insn.op}
    BY <1>1, <1>4, <1>14 DEF Loads, UnsignedLoads, DataRequest
  <2> QED BY <1>1, <1>11, <2>1, <2>2, <2>3 DEF Accessing
<1>15. CASE ~Cpu!misaligned /\ ~Cpu!mem_done /\ ~DataRequest
  <2>1. /\ cpu_state' = cpu_state /\ insn1' = dbg_insn
        /\ ~mem_do_rdata' /\ ~mem_do_wdata' /\ reg_op1' = R1
    BY <1>1, <1>2, <1>15 DEF DataRequest
  <2>2. mem_state' # 0
    BY <1>2, <1>15 DEF MemEdge, AnyRequest
  <2>3. Loaded'
    BY <1>3, <2>1 DEF Loaded
  <2> QED BY <1>2, <1>7, <1>9, <1>11, <1>15, <2>1, <2>2, <2>3
<1>16. CASE ~Cpu!misaligned /\ ~Cpu!mem_done /\ DataRequest
  <2>1. /\ cpu_state' = cpu_state /\ insn1' = insn1 /\ ~mem_do_prefetch'
        /\ mem_do_rdata' <=> mem_do_rdata
        /\ mem_do_wdata' <=> mem_do_wdata
        /\ reg_op1' = reg_op1 /\ mem_wordsize' = mem_wordsize /\ mem' = mem
        /\ latched_is' = latched_is \/ cpu_state # "ldmem"
    BY <1>1, <1>2, <1>16 DEF DataRequest
  <2>2. mem_addr' = Align(reg_op1)
    BY <1>2, <1>16 DEF MemEdge
  <2>3. Loaded'
    <3>1. /\ Align(reg_next_pc) \in MemoryAddresses
          /\ insn1 = mem[Align(reg_next_pc)]
          /\ reg_op1 = Plus(R1, dbg_insn.imm)
          /\ mem_wordsize = Size(dbg_insn.op)
      BY <1>4, <1>16 DEF Loaded, DataRequest
    <3> QED BY <1>2, <1>3, <1>16, <2>1, <2>2, <3>1 DEF Loaded, DataRequest
  <2>4. cpu_state = "stmem" /\ mem_state' = 2 =>
            /\ mem_wstrb' = Strobe(reg_op1', mem_wordsize')
            /\ mem_wdata' = Replicated(reg_op2', mem_wordsize')
    <3> SUFFICES ASSUME cpu_state = "stmem", mem_state' = 2
                 PROVE  /\ mem_wstrb' = Strobe(reg_op1', mem_wordsize')
                        /\ mem_wdata' = Replicated(reg_op2', mem_wordsize')
      OBVIOUS
    <3>1. mem_do_wdata
      BY <1>2, <1>16 DEF DataRequest
    <3>2. CASE mem_state = 0
      BY <1>1, <1>2, <2>1, <3>1, <3>2 DEF MemEdge
    <3>3. CASE mem_state # 0
      <4>1. mem_state = 2 /\ mem_wstrb' = mem_wstrb /\ mem_wdata' = mem_wdata
        BY <1>2, <3>3 DEF MemEdge
      <4> QED BY <1>1, <1>4, <2>1, <4>1
    <3> QED BY <3>2, <3>3
  <2> QED BY <1>2, <1>4, <1>11, <1>16, <2>1, <2>3, <2>4 DEF DataRequest
<1> QED BY <1>12, <1>13, <1>14, <1>15, <1>16

-----------------------------------------------------------------------------
(* The trap state.                                                         *)

(* A core that trapped stands still, but for the transfer on the bus.      *)
LEMMA TrapState ==
    ASSUME Core, resetn, Next, cpu_state = "trap"
    PROVE  /\ Cpu!Trapped /\ cpu_state' = "trap" /\ cpuregs' = cpuregs
           /\ UNCHANGED <<reg_pc, reg_next_pc, latched_rd>> /\ ~pcpi_valid'
           /\ mem_do_wdata' <=> mem_do_wdata /\ ~Cpu!mem_done
<1>1. Cpu!Trapped
  <2>1. ~Cpu!LdRs
    BY OperandState DEF Busy
  <2> QED BY <2>1
             DEF Next, Cpu!Edge, Cpu!Main, Cpu!Reset, Cpu!FetchWait,
                 Cpu!LaunchJal, Cpu!Launch, Cpu!Fetch, Cpu!ExecWait,
                 Cpu!ExecBranch, Cpu!ExecAlu, Cpu!ExecNow, Cpu!Exec,
                 Cpu!ShiftDone, Cpu!ShiftStep, Cpu!Shift, Cpu!StMem, Cpu!LdMem
<1>2. cpu_state' = "trap"
      /\ UNCHANGED <<reg_pc, reg_next_pc, latched_rd, pcpi_valid>>
      /\ mem_do_wdata' = ((mem_do_wdata /\ ~Cpu!mem_done) \/ FALSE)
    BY <1>1
       DEF Cpu!Trapped, Cpu!GoTo, Cpu!pcs, Cpu!latches, Cpu!KeepMemDo,
           Cpu!MemDo
<1>3. ~pcpi_valid
    BY DEF Core, ControlInv, PortInv, PortState
<1>4. cpuregs' = cpuregs
    BY DEF Next, Cpu!Edge, Cpu!RegisterFile, Cpu!cpuregs_next,
           Cpu!cpuregs_write
<1> QED BY <1>1, <1>2, <1>3, <1>4

(* A core that trapped keeps its data in order.                            *)
LEMMA TrapData ==
    ASSUME Core, resetn, Next, cpu_state = "trap"
    PROVE  MainInv'
<1>1. /\ cpu_state' = "trap" /\ ~pcpi_valid'
      /\ UNCHANGED <<reg_pc, reg_next_pc, latched_rd>>
      /\ mem_do_wdata' <=> mem_do_wdata /\ ~Cpu!mem_done
    BY TrapState
<1>2. mem_do_wdata' => mem_state' # 0
  <2> SUFFICES ASSUME mem_do_wdata, ~Cpu!mem_done PROVE mem_state' # 0
    BY <1>1
  <2>1. mem_state # 0
    BY DEF Core, DataInv, AccessInv
  <2>2. CASE trap
    BY <2>1, <2>2 DEF Next, Cpu!Edge, Cpu!MemoryInterface, Cpu!MemHalted
  <2>3. CASE ~trap
    BY <2>3, MemoryEdge DEF Core, MemEdge, AnyRequest
  <2> QED BY <2>2, <2>3
<1>3. /\ reg_pc' \in Value /\ reg_next_pc' \in Value /\ latched_rd' \in Regs
    BY <1>1 DEF Core, DataInv, DataTypes
<1> QED BY <1>1, <1>2, <1>3
           DEF MainInv, FetchInv, BusyInv, Busy, OperandInv, ExecInv, ShiftInv,
               AccessInv

-----------------------------------------------------------------------------
(* Every edge keeps the core in order.                                     *)

(* A stutter changes nothing that the invariant is about.                  *)
LEMMA InitStutter ==
    ASSUME UNCHANGED vars
    PROVE  Init' <=> Init
BY DEF vars, Cpu!coreVars, Cpu!memRegs, Cpu!decodeRegs, Cpu!mainRegs,
       Cpu!memDo, Cpu!triggers, Cpu!aluWaits, Cpu!aluRegs, Cpu!timer, Cpu!pcs,
       Cpu!latches, xpVars, Init, Cpu!PowerUp

(* A stutter changes nothing that the data invariant is about.             *)
LEMMA DataStutter ==
    ASSUME UNCHANGED vars
    PROVE  DataInv' <=> DataInv
<1> USE DEF vars, Cpu!coreVars, Cpu!memRegs, Cpu!decodeRegs, Cpu!mainRegs,
            Cpu!memDo, Cpu!triggers, Cpu!aluWaits, Cpu!aluRegs, Cpu!timer,
            Cpu!pcs, Cpu!latches, xpVars
<1>1. UNCHANGED <<Cpu!current_pc, Cpu!next_pc, R1, R2, IsBranch, Busy,
                  Operands>>
    BY DEF Cpu!current_pc, Cpu!next_pc, R1, R2, Cpu!ReadReg, IsBranch, Busy,
           Operands
<1>2. UNCHANGED <<DataTypes, BusInv, PrefetchInv>>
    BY <1>1 DEF DataTypes, BusInv, PrefetchInv, Target
<1>3. UNCHANGED <<FetchInv, BusyInv>>
    BY <1>1 DEF FetchInv, BusyInv, Cpu!cpuregs_write, Cpu!cpuregs_wrdata
<1>4. UNCHANGED <<OperandInv, ShiftInv>>
    BY <1>1 DEF OperandInv, ShiftInv
<1>5. UNCHANGED ExecInv
    BY <1>1 DEF ExecInv, Operand1, Operand2, SlowBranch, Cpu!AddSubShift, Taken
<1>6. UNCHANGED AccessInv
    BY <1>1 DEF AccessInv, Loaded
<1> QED BY <1>2, <1>3, <1>4, <1>5, <1>6 DEF DataInv

(* The edge of a core out of reset.                                        *)
LEMMA CoreNext ==
    ASSUME Core, Next, resetn
    PROVE  Core'
<1>1. ControlInv'
    BY ControlNext DEF Core, IInv
<1>2. MainInv'
  <2>1. CASE cpu_state = "fetch"
    BY <2>1, FetchData
  <2>2. CASE cpu_state = "trap"
    BY <2>2, TrapData
  <2>3. CASE Busy
    BY <2>3, BusyEdge, OperandData, ExecData, ShiftData, AccessData
  <2> QED BY <2>1, <2>2, <2>3 DEF Busy
<1>3. BusInv' /\ PrefetchInv'
    BY BusStepData, PrefetchStep
<1>4. DataTypes'
  <2>1. mem' \in [MemoryAddresses -> CodeWord]
    BY MemoryStep DEF Core, DataInv, MemStep
  <2>2. /\ insn1' \in CodeWord /\ insn2' \in CodeWord
        /\ mem_rdata_q' \in CodeWord
    BY WordsStep DEF Core, DataInv
  <2>3. cpuregs' \in [Regs -> Value]
    BY RegsStep
  <2> QED BY <1>2, <2>1, <2>2, <2>3 DEF DataTypes, MainInv
<1> QED BY <1>1, <1>2, <1>3, <1>4 DEF Core, DataInv, MainInv

(* The edge that ends the power-up, or is a reset, needs only the types.   *)
LEMMA CoreTypes == CoreInv => DataTypes /\ BusInv /\ (resetn => Core)
BY InitTypes DEF CoreInv, Core, DataInv, Init

(* From power-up on the data of the core is that of the program, in every  *)
(* execution: the word in the decoder, the prefetched word, the operands,  *)
(* the addresses and the bytes on the bus are those of the instruction     *)
(* that is executed, and what a reset cuts off leaves nothing behind.      *)
THEOREM CoreInOrder == Spec => []CoreInv
<1>1. Init => CoreInv
    BY DEF CoreInv
<1>2. CoreInv /\ [Next]_vars => CoreInv'
  <2> SUFFICES ASSUME CoreInv, [Next]_vars PROVE CoreInv'
    OBVIOUS
  <2>1. CASE UNCHANGED vars
    BY <2>1, InitStutter, ControlStutter, DataStutter DEF CoreInv, Core
  <2>2. CASE Next /\ resetn
    BY <2>2, CoreTypes, CoreNext DEF CoreInv
  <2>3. CASE Next /\ ~resetn
    BY <2>3, CoreTypes, ResetStep, DataReset DEF CoreInv, Core
  <2> QED BY <2>1, <2>2, <2>3
<1> QED BY <1>1, <1>2, PTL DEF Spec

-----------------------------------------------------------------------------
(* The bytes of a store.                                                   *)

(* A store of the bus is a store of its bytes.                             *)
LEMMA WrittenBytes ==
    ASSUME NEW a \in MemoryAddresses, NEW d, NEW s, s \subseteq LaneNo, s # {},
           NEW m, m = [w \in MemoryAddresses |-> m[w]]
    PROVE  IsaOfCore!StoreBytes(m, [x \in {a + l : l \in s} |-> d[x - a]])
             = [m EXCEPT ![a] = Written(@, s, d)]
<1> DEFINE bytes == [x \in {a + l : l \in s} |-> d[x - a]]
<1>1. \A w \in MemoryAddresses : w \in Int /\ w % 4 = 0
    BY ProgramsAssumption, ValueRange DEF Value
<1>2. DOMAIN m = MemoryAddresses /\ DOMAIN bytes = {a + l : l \in s}
    OBVIOUS
<1>3. ASSUME NEW w \in MemoryAddresses, NEW l \in LaneNo
      PROVE  w + l \in DOMAIN bytes <=> w = a /\ l \in s
  <2>1. a \in Int /\ w \in Int /\ a % 4 = 0 /\ w % 4 = 0
    BY <1>1
  <2>2. \A k \in LaneNo : w + l = a + k => w = a /\ l = k
    <3> DEFINE p == w \div 4
               q == a \div 4
    <3>1. p \in Int /\ q \in Int /\ w = 4 * p /\ a = 4 * q
      BY <2>1
    <3> HIDE DEF p, q
    <3> QED BY <3>1 DEF LaneNo
  <2>3. w + l \in DOMAIN bytes <=> \E k \in s : w + l = a + k
    BY <1>2
  <2>4. w = a /\ l \in s => \E k \in s : w + l = a + k
    OBVIOUS
  <2>5. (\E k \in s : w + l = a + k) => w = a /\ l \in s
    BY <2>2
  <2> QED BY <2>3, <2>4, <2>5
<1>4. \A l \in s : bytes[a + l] = d[l]
    BY <1>1 DEF LaneNo
<1> HIDE DEF bytes
<1>5. IsaOfCore!StoreBytes(m, bytes) =
        [w \in MemoryAddresses |->
            IF \E l \in LaneNo : w + l \in DOMAIN bytes
            THEN DataWord(Join([l \in LaneNo |->
                    IF w + l \in DOMAIN bytes THEN bytes[w + l]
                                              ELSE Split(m[w].imm)[l]]))
            ELSE m[w]]
    BY <1>2, IsaData DEF IsaOfCore!StoreBytes
<1>6. ASSUME NEW w \in MemoryAddresses, w # a
      PROVE  ~ \E l \in LaneNo : w + l \in DOMAIN bytes
    BY <1>3, <1>6
<1>7. \E l \in LaneNo : a + l \in DOMAIN bytes
    BY <1>3
<1>8. [l \in LaneNo |-> IF a + l \in DOMAIN bytes THEN bytes[a + l]
                                                  ELSE Split(m[a].imm)[l]]
        = [l \in LaneNo |-> IF l \in s THEN d[l] ELSE Split(m[a].imm)[l]]
    BY <1>3, <1>4
<1>9. IsaOfCore!StoreBytes(m, bytes)
        = [w \in MemoryAddresses |-> IF w = a THEN Written(m[a], s, d)
           ELSE m[w]]
    BY <1>5, <1>6, <1>7, <1>8 DEF Written
<1>10. [m EXCEPT ![a] = Written(@, s, d)]
        = [w \in MemoryAddresses |-> IF w = a THEN Written(m[a], s, d)
           ELSE m[w]]
    OBVIOUS
<1> QED BY <1>9, <1>10 DEF bytes

-----------------------------------------------------------------------------
(* What the instruction set sees of the core.                              *)

(* The core owes no late store.                                            *)
LEMMA NoLate ==
    /\ ~Halted \/ ~mem_valid \/ mem_wstrb = {} =>
         MappedLate = IsaOfCore!NoBytes
    /\ (~Halted \/ ~mem_valid \/ mem_wstrb = {})' =>
         MappedLate' = IsaOfCore!NoBytes
<1>1. ASSUME NEW a, NEW f
      PROVE  [x \in {a + l : l \in {}} |-> f[x - a]] = [x \in {} |-> 0]
    OBVIOUS
<1>2. ASSUME NEW a, NEW f, NEW s, s = {}
      PROVE  [x \in {a + l : l \in s} |-> f[x - a]] = [x \in {} |-> 0]
    BY <1>1, <1>2
<1> QED BY <1>2 DEF MappedLate, Halted, IsaOfCore!NoBytes

(* What the instruction set sees of the three kinds of states.             *)
FetchView ==
    /\ MappedPc = Cpu!current_pc /\ ~Halted /\ MappedLate = IsaOfCore!NoBytes
    /\ decoder_trigger => MappedIr = insn1
    /\ ~decoder_trigger =>
          MappedIr = IsaOfCore!FetchFrom(mem, Cpu!current_pc)

BusyView ==
    /\ MappedPc = reg_pc /\ ~Halted /\ MappedLate = IsaOfCore!NoBytes
    /\ MappedIr = dbg_insn /\ MappedRegs = cpuregs

TrapView ==
    /\ MappedPc = reg_pc /\ Halted /\ MappedIr = NoWord /\ MappedRegs = cpuregs

(* Each state is seen by the instruction set as its view says.             *)
LEMMA Views ==
    /\ cpu_state = "fetch" => FetchView
    /\ Busy => BusyView
    /\ cpu_state = "trap" => TrapView
    /\ (cpu_state = "fetch")' => FetchView'
    /\ Busy' => BusyView'
    /\ (cpu_state = "trap")' => TrapView'
<1>1. (cpu_state = "fetch" => FetchView)
      /\ ((cpu_state = "fetch")' => FetchView')
    BY NoLate, IsaData
       DEF FetchView, MappedPc, MappedIr, Halted, IsaOfCore!FetchFrom
<1>2. (Busy => BusyView) /\ (Busy' => BusyView')
    BY NoLate
       DEF BusyView, Busy, MappedPc, MappedIr, MappedRegs, Halted,
           Cpu!cpuregs_next, Cpu!cpuregs_write
<1>3. (cpu_state = "trap" => TrapView) /\ ((cpu_state = "trap")' => TrapView')
    BY DEF TrapView, MappedPc, MappedIr, MappedRegs, Halted, Cpu!cpuregs_next,
           Cpu!cpuregs_write
<1> QED BY <1>1, <1>2, <1>3

(* A word of the program is a word.                                        *)
LEMMA CodeIsWord == \A w \in CodeWord : w # NoWord
BY UndefinedAssumption DEF CodeWord

(* A step of the instruction set, or none.                                 *)
IsaStep == IsaOfCore!Next \/ UNCHANGED IsaOfCore!vars

(* Waiting for a word is no step; a jump is made when it is launched.      *)
LEMMA FetchIsa ==
    ASSUME Core, resetn, Next, cpu_state = "fetch"
    PROVE  IsaStep
<1>1. /\ Cpu!current_pc \in Value /\ insn1 \in CodeWord /\ MemEdge
      /\ mem' = mem /\ insn1.rd \in Regs
    BY FetchState
<1>2. FetchView
    BY Views
<1>3. cpuregs' = MappedRegs
    BY RegsStep
<1>4. mem_valid' => mem_wstrb' = {}
    BY FetchState
<1>5. MappedLate' = IsaOfCore!NoBytes
    BY <1>4, NoLate
<1>6. CASE Cpu!FetchWait
  <2>1. /\ reg_pc' = Cpu!current_pc /\ reg_next_pc' = Cpu!current_pc
        /\ latched_store' = FALSE /\ latched_branch' = FALSE
        /\ ~decoder_trigger
        /\ decoder_trigger' = (mem_do_rinst /\ Cpu!mem_done)
        /\ cpu_state' = IF Cpu!misaligned THEN "trap" ELSE "fetch"
    BY <1>6 DEF Cpu!FetchWait, Cpu!Fetch, Cpu!Trigger, Cpu!GoTo
  <2>2. Cpu!current_pc' = Cpu!current_pc
    BY <2>1 DEF Cpu!current_pc
  <2>3. MappedRegs' = MappedRegs
    BY <1>3, <2>1 DEF MappedRegs, Cpu!cpuregs_next, Cpu!cpuregs_write
  <2>4. CASE cpu_state' = "fetch"
    <3>1. FetchView'
      BY <2>4, Views
    <3>2. MappedPc' = MappedPc /\ Halted' = Halted /\ MappedLate' = MappedLate
      BY <1>2, <3>1, <2>2, <2>1, <2>4 DEF FetchView, Halted
    <3>3. MappedIr' = MappedIr
      <4>1. CASE decoder_trigger'
        <5>1. Target = Cpu!current_pc
          BY DEF Target
        <5>2. /\ Align(Cpu!current_pc) \in MemoryAddresses
              /\ Cpu!mem_rdata_latched = mem[Align(Cpu!current_pc)]
          BY <2>1, <4>1, <5>1, FetchedWord DEF Core
        <5>3. insn1' = Cpu!mem_rdata_latched
          BY <2>1, <4>1 DEF Next, Cpu!Edge, Cpu!Decoder, Cpu!Cleared
        <5>4. DOMAIN mem = MemoryAddresses
          BY DEF Core, DataInv, DataTypes
        <5> QED BY <1>2, <2>1, <3>1, <4>1, <5>2, <5>3, <5>4, IsaData
                   DEF FetchView, IsaOfCore!FetchFrom
      <4>2. CASE ~decoder_trigger'
        BY <1>1, <1>2, <2>1, <2>2, <3>1, <4>2
           DEF FetchView, IsaOfCore!FetchFrom
      <4> QED BY <4>1, <4>2
    <3> QED BY <1>1, <2>3, <3>2, <3>3 DEF IsaStep, IsaOfCore!vars
  <2>5. CASE cpu_state' = "trap"
    <3>1. TrapView'
      BY <2>5, Views
    <3>2. mem_do_rinst /\ reg_pc % 4 # 0
      BY <2>1, <2>5, FetchState DEF Cpu!misaligned
    <3>3. reg_pc = Cpu!current_pc
      BY <3>2 DEF Core, DataInv, FetchInv
    <3>4. ~Halted /\ MappedPc % 4 # 0 /\ MappedPc' = MappedPc /\ Halted' = TRUE
          /\ MappedIr' = NoWord
      BY <1>2, <2>1, <2>5, <3>1, <3>2, <3>3 DEF FetchView, TrapView, Halted
    <3>5. IsaOfCore!MisalignedPc
      BY <1>1, <1>5, <2>3, <3>4 DEF IsaOfCore!MisalignedPc, IsaOfCore!Stop
    <3> QED BY <3>5 DEF IsaStep, IsaOfCore!Next
  <2> QED BY <2>1, <2>4, <2>5
<1>7. CASE Cpu!LaunchJal
  <2>1. /\ reg_pc' = Cpu!current_pc
        /\ reg_next_pc' = Plus(Cpu!current_pc, insn1.imm)
        /\ latched_store' = FALSE /\ latched_branch' = TRUE
        /\ latched_rd' = insn1.rd /\ decoder_trigger /\ insn1.op = "jal"
        /\ decoder_trigger' = (mem_do_rinst /\ Cpu!mem_done)
        /\ cpu_state' = IF Cpu!misaligned THEN "trap" ELSE "fetch"
    BY <1>7, CpuData DEF Cpu!LaunchJal, Cpu!Fetch, Cpu!Trigger, Cpu!GoTo
  <2>2. /\ Cpu!current_pc % 4 = 0
        /\ decoder_trigger' = FALSE /\ cpu_state' = "fetch"
    BY <2>1, FetchState
  <2>3. Cpu!current_pc' = reg_next_pc'
    BY <2>1 DEF Cpu!current_pc
  <2>4. FetchView'
    BY <2>2, Views
  <2>5. MappedRegs' = IF insn1.rd # 0
                      THEN [MappedRegs EXCEPT ![insn1.rd] = Plus(Cpu!current_pc, 4)]
                      ELSE MappedRegs
    <3>1. Cpu!cpuregs_write' = (insn1.rd # 0)
      BY <2>1, <2>2 DEF Cpu!cpuregs_write
    <3>2. Cpu!cpuregs_wrdata' = Plus(Cpu!current_pc, 4)
      BY <2>1, CpuData DEF Cpu!cpuregs_wrdata
    <3>3. MappedRegs' = IF Cpu!cpuregs_write'
                        THEN [cpuregs' EXCEPT ![latched_rd'] = Cpu!cpuregs_wrdata']
                        ELSE cpuregs'
      BY DEF MappedRegs, Cpu!cpuregs_next
    <3> QED BY <1>3, <2>1, <3>1, <3>2, <3>3
  <2>6. IsaOfCore!Running /\ MappedIr = insn1
    BY <1>1, <1>2, <2>1, <2>2, CodeIsWord DEF FetchView, IsaOfCore!Running
  <2>7. MappedRegs'
           = IsaOfCore!SetReg(MappedIr.rd, IsaOfCore!Plus(MappedPc, 4))
    BY <1>2, <2>5, <2>6, IsaData DEF FetchView, IsaOfCore!SetReg
  <2>8. IsaOfCore!Goto(IsaOfCore!Plus(MappedPc, MappedIr.imm))
    <3>1. MappedPc' = Plus(MappedPc, MappedIr.imm)
      BY <1>2, <2>1, <2>3, <2>4, <2>6 DEF FetchView
    <3>2. MappedIr' = IsaOfCore!FetchFrom(mem, MappedPc')
      BY <1>1, <2>2, <2>4 DEF FetchView, IsaOfCore!FetchFrom
    <3>3. Halted' = Halted /\ MappedLate' = MappedLate
      BY <1>2, <1>5, <2>2 DEF FetchView, Halted
    <3> QED BY <3>1, <3>2, <3>3, IsaData DEF IsaOfCore!Goto
  <2>9. IsaOfCore!Jump
    BY <1>1, <2>1, <2>6, <2>7, <2>8 DEF IsaOfCore!Jump
  <2> QED BY <2>9 DEF IsaStep, IsaOfCore!Next
<1>8. CASE Cpu!Launch
  <2>1. /\ reg_pc' = Cpu!current_pc /\ decoder_trigger
        /\ cpu_state' = IF Cpu!misaligned THEN "trap" ELSE "ld_rs1"
    BY <1>8 DEF Cpu!Launch, Cpu!Fetch, Cpu!GoTo
  <2>2. cpu_state' = "ld_rs1" /\ dbg_insn' = insn1
    BY <2>1, FetchState DEF Next, History
  <2>3. BusyView'
    BY <2>2, Views DEF Busy
  <2> QED BY <1>1, <1>2, <1>3, <2>1, <2>2, <2>3
             DEF FetchView, BusyView, IsaStep, IsaOfCore!vars, Halted
<1> QED BY <1>6, <1>7, <1>8, FetchState

-----------------------------------------------------------------------------
(* Instructions that wait, stop and end.                                   *)

(* The instruction in execution is that of the instruction set, with its    *)
(* operands.                                                               *)
LEMMA BusyRunning ==
    ASSUME Core, Busy
    PROVE  /\ IsaOfCore!Running /\ BusyView
           /\ IsaOfCore!Reg(dbg_insn.rs1) = R1
           /\ IsaOfCore!Reg(dbg_insn.rs2) = R2
<1>1. BusyView
    BY Views
<1>2. dbg_insn \in CodeWord /\ reg_pc % 4 = 0
    BY DEF Core, DataInv, BusyInv
<1>3. IsaOfCore!Running
    BY <1>1, <1>2, CodeIsWord DEF IsaOfCore!Running, BusyView
<1>4. IsaOfCore!Reg(dbg_insn.rs1) = R1 /\ IsaOfCore!Reg(dbg_insn.rs2) = R2
    BY <1>1 DEF BusyView, IsaOfCore!Reg, R1, R2, Cpu!ReadReg
<1> QED BY <1>1, <1>3, <1>4

(* Execution takes its time.                                               *)
LEMMA Waits ==
    ASSUME Core, resetn, Next, Busy, Busy', mem' = mem
    PROVE  IsaStep
<1>1. BusyView /\ BusyView'
    BY Views
<1> QED BY <1>1, BusyEdge DEF BusyView, IsaStep, IsaOfCore!vars, Halted

(* A core that traps in an instruction is a halted instruction set.        *)
LEMMA Stops ==
    ASSUME Core, resetn, Next, Busy, cpu_state' = "trap", mem' = mem,
           NEW bytes, MappedLate' = bytes
    PROVE  IsaOfCore!Stop(bytes)
<1>1. BusyView /\ TrapView'
    BY Views
<1> QED BY <1>1, BusyEdge DEF BusyView, TrapView, IsaOfCore!Stop, Halted

(* The next word is there when the core comes back to the fetch state, or   *)
(* is read then.                                                           *)
LEMMA FetchedNext ==
    ASSUME Core, resetn, Next, Busy, mem_do_rinst, Cpu!mem_done
    PROVE  insn1' = IsaOfCore!FetchFrom(mem, reg_next_pc)
<1>1. Target = reg_next_pc
    BY DEF Target, Busy
<1>2. /\ Align(reg_next_pc) \in MemoryAddresses
      /\ Cpu!mem_rdata_latched = mem[Align(reg_next_pc)]
    BY <1>1, FetchedWord DEF Core, Busy
<1>3. insn1' = Cpu!mem_rdata_latched
    BY DEF Next, Cpu!Edge, Cpu!Decoder, Cpu!Cleared
<1>4. DOMAIN mem = MemoryAddresses
    BY DEF Core, DataInv, DataTypes
<1> QED BY <1>2, <1>3, <1>4, IsaData DEF IsaOfCore!FetchFrom

(* The next instruction is fetched or still to be fetched.                 *)
NextWordKnown ==
    /\ decoder_trigger' => insn1' = IsaOfCore!FetchFrom(mem, reg_next_pc)
    /\ ~decoder_trigger' => mem' = mem

(* An instruction that does not jump goes to the next one and hands its    *)
(* result to the register file.                                            *)
LEMMA Sequential ==
    ASSUME Core, resetn, Next, Busy, cpu_state' = "fetch", ~latched_branch',
           NextWordKnown
    PROVE  /\ IsaOfCore!Goto(IsaOfCore!Plus(MappedPc, 4))
           /\ MappedRegs' =
                IF latched_store' /\ latched_rd' # 0
                THEN [cpuregs EXCEPT ![latched_rd'] =
                          IF latched_stalu' THEN alu_out_q' ELSE reg_out']
                ELSE cpuregs
<1>1. BusyView /\ FetchView'
    BY Views
<1>2. Cpu!current_pc' = reg_next_pc /\ reg_next_pc = Plus(reg_pc, 4)
    BY BusyEdge DEF Cpu!current_pc, Core, DataInv, BusyInv
<1>3. MappedPc' = Plus(MappedPc, 4) /\ MappedPc' = reg_next_pc
    BY <1>1, <1>2 DEF FetchView, BusyView
<1>4. MappedIr' = IsaOfCore!FetchFrom(mem, MappedPc')
    BY <1>1, <1>2, <1>3 DEF FetchView, NextWordKnown, IsaOfCore!FetchFrom
<1>5. IsaOfCore!Goto(IsaOfCore!Plus(MappedPc, 4))
    BY <1>1, <1>3, <1>4, IsaData
       DEF IsaOfCore!Goto, FetchView, BusyView, Halted
<1>6. cpuregs' = cpuregs
    BY BusyEdge
<1>7. Cpu!cpuregs_write' <=> latched_store' /\ latched_rd' # 0
    BY DEF Cpu!cpuregs_write
<1>8. Cpu!cpuregs_wrdata' = IF latched_stalu' THEN alu_out_q' ELSE reg_out'
    BY DEF Cpu!cpuregs_wrdata
<1>9. MappedRegs' = IF Cpu!cpuregs_write'
                    THEN [cpuregs' EXCEPT ![latched_rd'] = Cpu!cpuregs_wrdata']
                    ELSE cpuregs'
    BY DEF MappedRegs, Cpu!cpuregs_next
<1> QED BY <1>5, <1>6, <1>7, <1>8, <1>9

(* An instruction that ends with a result in its register is one step of   *)
(* the instruction set.                                                    *)
LEMMA Completes ==
    ASSUME Core, resetn, Next, Busy, cpu_state' = "fetch", ~latched_branch',
           NextWordKnown, mem' = mem, latched_rd' = dbg_insn.rd,
           NEW v, dbg_insn.rd # 0 =>
             latched_store' /\ v = IF latched_stalu' THEN alu_out_q'
                ELSE reg_out'
    PROVE  IsaOfCore!Result(v)
<1>1. BusyView
    BY Views
<1>2. IsaOfCore!Goto(IsaOfCore!Plus(MappedPc, 4))
    BY Sequential
<1>3. MappedRegs' = IF dbg_insn.rd # 0
                    THEN [cpuregs EXCEPT ![dbg_insn.rd] = v]
                    ELSE cpuregs
    BY Sequential
<1>4. MappedRegs' = IsaOfCore!SetReg(MappedIr.rd, v)
    BY <1>1, <1>3 DEF BusyView, IsaOfCore!SetReg
<1> QED BY <1>2, <1>4 DEF IsaOfCore!Result

(* The operand states: a pixel instruction is over, an instruction nobody   *)
(* has stops the core, and all others go on.                               *)
LEMMA OperandIsa ==
    ASSUME Core, resetn, Next, Cpu!LdRs
    PROVE  IsaStep
<1>1. /\ Operands /\ Busy /\ ~mem_do_rinst /\ ~Cpu!mem_done /\ ~Cpu!misaligned
      /\ ~latched_branch /\ ~latched_stalu
    BY OperandState
<1>2. /\ insn1 = dbg_insn /\ insn2 = dbg_insn /\ mem' = mem
      /\ mem_valid' => mem_wstrb' = {}
    BY OperandEdge
<1>3. /\ IsaOfCore!Running /\ BusyView
      /\ IsaOfCore!Reg(dbg_insn.rs1) = R1 /\ IsaOfCore!Reg(dbg_insn.rs2) = R2
    BY <1>1, BusyRunning
<1>4. /\ R1 \in Value /\ R2 \in Value /\ dbg_insn.op \in Native \cup Foreign
      /\ dbg_insn.imm \in Value
    BY <1>1, BusyState
<1>5. CASE Cpu!PcpiAnswered
  <2>1. /\ WITH_PCPI /\ XP!pcpi_ready /\ reg_out' = Join(xp_rd)
        /\ Cpu!instr_trap
        /\ UNCHANGED <<latched_stalu, latched_branch, latched_rd>>
        /\ latched_store' = (WITH_PCPI /\ XP!pcpi_wr)
        /\ cpu_state' = "fetch" /\ Cpu!Trigger
    BY <1>1, <1>5
       DEF Cpu!PcpiAnswered, Cpu!Foreigner, Cpu!BothOperands, Cpu!Operand,
           Cpu!GoTo
  <2>2. pcpi_valid /\ xp_state = "DONE" /\ PixelInsn
    BY <2>1 DEF XP!pcpi_ready, Core, ControlInv, PortInv
  <2>3. XpInv /\ dbg_insn.imm \in 0 .. 4 /\ dbg_insn.op = "xpix"
        /\ dbg_insn.imm <= 4
    BY <1>2, <1>4, <2>1, <2>2, ValueZero
       DEF Core, DataInv, OperandInv, XpInv, PixelInsn, Value
  <2>4. Split(R1) \in [LaneNo -> ByteNo] /\ Split(R2) \in [LaneNo -> ByteNo]
    BY <1>4, SplitType, ValueZero
  <2>5. xp_rd = XP!Packed(Split(R1), Split(R2), dbg_insn.imm)
    BY <2>2, <2>3 DEF XpInv
  <2> DEFINE w == [l \in LaneNo |->
                IsaOfCore!Lanes4!Golden(dbg_insn.imm, Split(R1)[l],
                                        Split(R2)[l], 0)]
  <2>6. xp_rd = w
    BY <2>3, <2>4, <2>5, PackedGolden
  <2>7. NextWordKnown
    BY <1>1, <1>2, <2>1 DEF NextWordKnown, Cpu!Trigger
  <2>8. latched_rd = dbg_insn.rd
    BY <1>1, <2>3 DEF Core, DataInv, BusyInv, IsBranch, Branches
  <2>9. latched_store' /\ ~latched_branch' /\ ~latched_stalu'
    BY <1>1, <2>1 DEF XP!pcpi_wr
  <2>10. IsaOfCore!Result(Join(w))
    <3>1. reg_out' = Join(w)
      BY <2>1, <2>6
    <3> HIDE DEF w
    <3>2. latched_rd' = dbg_insn.rd
      BY <2>1, <2>8
    <3>3. IsaOfCore!Result(reg_out')
      BY <1>1, <1>2, <2>1, <2>7, <2>9, <3>2, Completes
    <3> QED BY <3>1, <3>3
  <2>11. MappedIr = dbg_insn
    BY <1>3 DEF BusyView
  <2>12. IsaOfCore!Pixel
    <3>1. IsaOfCore!Join(w) = Join(w)
      BY IsaData
    <3>2. [l \in IsaOfCore!LaneNo |-> IsaOfCore!Lanes4!Golden(MappedIr.imm,
                IsaOfCore!Split(IsaOfCore!Reg(MappedIr.rs1))[l],
                IsaOfCore!Split(IsaOfCore!Reg(MappedIr.rs2))[l], 0)] = w
      BY <1>3, <2>11, IsaData
    <3> HIDE DEF w
    <3> QED BY <1>3, <2>1, <2>3, <2>10, <2>11, <3>1, <3>2 DEF IsaOfCore!Pixel
  <2> QED BY <2>12 DEF IsaStep, IsaOfCore!Next
<1>6. CASE Cpu!PcpiRefused \/ Cpu!IllegalInsn
  <2>1. cpu_state' = "trap" /\ Cpu!instr_trap
    BY <1>1, <1>6 DEF Cpu!PcpiRefused, Cpu!IllegalInsn, Cpu!Foreigner, Cpu!GoTo
  <2>2. dbg_insn.op \in Foreign
    BY <1>2, <1>4, <2>1, CpuData DEF Cpu!instr_trap, Native, Upper, Immediates
  <2>3. ~(WITH_PCPI /\ dbg_insn.op = "xpix" /\ dbg_insn.imm <= 4)
    <3>1. CASE Cpu!PcpiRefused
      <4>1. pcpi_timeout \/ dbg_insn.op = "ebreak"
        BY <1>2, <3>1 DEF Cpu!PcpiRefused
      <4>2. WITH_PCPI /\ PixelInsn => ~pcpi_timeout
        BY <1>1 DEF Core, ControlInv, PortInv, Operands
      <4> QED BY <1>2, <4>1, <4>2 DEF PixelInsn
    <3>2. CASE Cpu!IllegalInsn
      BY <3>2 DEF Cpu!IllegalInsn
    <3> QED BY <1>6, <3>1, <3>2
  <2>4. MappedLate' = IsaOfCore!NoBytes
    BY <1>2, NoLate
  <2>5. IsaOfCore!Stop(IsaOfCore!NoBytes)
    BY <1>1, <1>2, <2>1, <2>4, Stops
  <2>6. IsaOfCore!Illegal
    BY <1>3, <2>2, <2>3, <2>5, IsaData DEF IsaOfCore!Illegal, BusyView
  <2> QED BY <2>6 DEF IsaStep, IsaOfCore!Next
<1>7. CASE ~(Cpu!PcpiAnswered \/ Cpu!PcpiRefused \/ Cpu!IllegalInsn)
  <2>1. cpu_state' \notin {"trap", "fetch"}
    BY <1>1, <1>7
       DEF Cpu!LdRs, Cpu!PcpiPending, Cpu!OneOperand, Cpu!UpperOperands,
           Cpu!ImmediateOperands, Cpu!ShiftImmOperands, Cpu!LoadOperands,
           Cpu!StoreOperands, Cpu!ShiftRegOperands, Cpu!RegisterOperands,
           Cpu!StartExec, Cpu!GoTo, Operands
  <2> QED BY <1>1, <1>2, <2>1, Waits DEF Busy
<1> QED BY <1>5, <1>6, <1>7

-----------------------------------------------------------------------------
(* The execution state and the shifter.                                    *)

(* The next word when execution ends.                                      *)
LEMMA ExecNextWord ==
    ASSUME Core, resetn, Next, cpu_state \in {"exec", "shift"},
           decoder_trigger' => mem_do_rinst /\ Cpu!mem_done
    PROVE  NextWordKnown
<1>1. Busy /\ mem' = mem
    BY ExecEdge
<1> QED BY <1>1, FetchedNext DEF NextWordKnown

(* Computation, fence, jump and branch.                                    *)
LEMMA ExecIsa ==
    ASSUME Core, resetn, Next, Cpu!ExecWait \/ Cpu!ExecBranch \/ Cpu!ExecAlu
    PROVE  IsaStep
<1>1. cpu_state = "exec"
    BY DEF Cpu!ExecWait, Cpu!ExecBranch, Cpu!ExecAlu, Cpu!ExecNow, Cpu!Exec
<1>2. /\ Busy /\ insn1 = dbg_insn /\ insn2 = dbg_insn /\ mem' = mem
      /\ ~Cpu!misaligned
      /\ mem_valid' => mem_wstrb' = {}
      /\ Cpu!mem_done => mem_do_rinst
      /\ dbg_insn.op = "jalr" => ~Cpu!mem_done
    BY <1>1, ExecEdge
<1>3. /\ IsaOfCore!Running /\ BusyView
      /\ IsaOfCore!Reg(dbg_insn.rs1) = R1 /\ IsaOfCore!Reg(dbg_insn.rs2) = R2
    BY <1>2, BusyRunning
<1>4. MappedIr = dbg_insn /\ MappedPc = reg_pc /\ MappedRegs = cpuregs
    BY <1>3 DEF BusyView
<1>5. /\ latched_rd = dbg_insn.rd \/ (IsBranch /\ latched_rd = 0)
      /\ ~latched_stalu /\ dbg_insn \in CodeWord
    BY <1>2 DEF Core, DataInv, BusyInv
<1>6. cpuregs' = cpuregs
    BY <1>2, BusyEdge
<1>7. CASE cpu_state' = "exec"
    BY <1>2, <1>7, Waits DEF Busy
<1>8. CASE Cpu!ExecBranch /\ cpu_state' # "exec"
  <2>1. /\ cpu_state' = IF Cpu!mem_done THEN "fetch" ELSE "exec"
        /\ latched_rd' = 0 /\ latched_store' = Cpu!taken
        /\ latched_branch' = Cpu!taken
        /\ latched_stalu' = latched_stalu
        /\ decoder_trigger' = (mem_do_rinst /\ Cpu!mem_done /\ ~Cpu!taken)
        /\ reg_out' = Plus(reg_pc, insn2.imm)
    BY <1>2, <1>8, CpuData DEF Cpu!ExecBranch, Cpu!ExecNow, Cpu!Exec, Cpu!GoTo
  <2>2. Cpu!taken = Taken /\ IsBranch
    BY <1>8, TakenNow
  <2>3. cpu_state' = "fetch" /\ FetchView'
    BY <1>8, <2>1, Views
  <2>4. MappedRegs' = MappedRegs
    BY <1>4, <1>6, <2>1 DEF MappedRegs, Cpu!cpuregs_next, Cpu!cpuregs_write
  <2>5. IsaOfCore!Goto(IF Taken THEN ClearBit0(Plus(reg_pc, dbg_insn.imm))
                                ELSE Plus(reg_pc, 4))
    <3>1. CASE Taken
      <4> DEFINE target == ClearBit0(Plus(reg_pc, dbg_insn.imm))
      <4>1. Cpu!current_pc' = target /\ ~decoder_trigger'
        BY <1>2, <1>5, <2>1, <2>2, <3>1, CpuData DEF Cpu!current_pc
      <4> HIDE DEF target
      <4>2. MappedPc' = target /\ MappedIr' = IsaOfCore!FetchFrom(mem, target)
        BY <1>2, <2>3, <4>1 DEF FetchView, IsaOfCore!FetchFrom
      <4>3. Halted' = Halted /\ MappedLate' = MappedLate
        BY <1>3, <2>3 DEF FetchView, BusyView, Halted
      <4>4. IsaOfCore!Goto(target)
        BY <4>2, <4>3 DEF IsaOfCore!Goto
      <4> QED BY <3>1, <4>4 DEF target
    <3>2. CASE ~Taken
      <4>1. NextWordKnown
        BY <1>1, <2>1, ExecNextWord
      <4>2. IsaOfCore!Goto(IsaOfCore!Plus(MappedPc, 4))
        BY <1>2, <2>1, <2>2, <2>3, <3>2, <4>1, Sequential
      <4> QED BY <1>4, <3>2, <4>2, IsaData
    <3> QED BY <3>1, <3>2
  <2>6. IsaOfCore!Branch
    <3>1. IsaOfCore!Goto(IF Taken
                         THEN IsaOfCore!ClearBit0(IsaOfCore!Plus(MappedPc,
                                                                 MappedIr.imm))
                         ELSE IsaOfCore!Plus(MappedPc, 4))
      BY <1>4, <2>5, IsaData
    <3> QED BY <1>2, <1>3, <1>4, <2>2, <2>4, <3>1, IsaData
               DEF IsaOfCore!Branch, Taken, IsBranch
  <2> QED BY <2>6 DEF IsaStep, IsaOfCore!Next
<1>9. CASE Cpu!ExecAlu
  <2>1. /\ cpu_state' = "fetch" /\ latched_rd' = latched_rd
        /\ latched_branch' = (dbg_insn.op = "jalr")
        /\ latched_store' = TRUE /\ latched_stalu' = TRUE
        /\ dbg_insn.op \notin Branches
        /\ decoder_trigger' = (mem_do_rinst /\ Cpu!mem_done)
        /\ reg_pc' = reg_pc
    BY <1>2, <1>9, CpuData
       DEF Cpu!ExecAlu, Cpu!ExecNow, Cpu!Exec, Cpu!pcs, Cpu!GoTo, Cpu!Trigger
  <2>2. latched_rd' = dbg_insn.rd
    BY <1>5, <2>1 DEF IsBranch
  <2>3. dbg_insn.op # "fence" => alu_out_q' = AluValue
    BY <1>9, AluResult
  <2>4. NextWordKnown
    BY <1>1, <2>1, ExecNextWord
  <2>5. FetchView'
    BY <2>1, Views
  <2>6. CASE dbg_insn.op = "jalr"
    <3> DEFINE target == ClearBit0(Plus(R1, dbg_insn.imm))
    <3>1. AluValue = Plus(R1, dbg_insn.imm)
      BY <2>6 DEF AluValue, Immediates
    <3>2. Cpu!current_pc' = target /\ ~decoder_trigger'
      BY <1>2, <2>1, <2>3, <2>6, <3>1, CpuData DEF Cpu!current_pc
    <3>3. target = IsaOfCore!ClearBit0(IsaOfCore!Address)
      BY <1>3, <1>4, IsaData DEF IsaOfCore!Address
    <3> HIDE DEF target
    <3>4. MappedPc' = target /\ MappedIr' = IsaOfCore!FetchFrom(mem, target)
      BY <1>2, <2>5, <3>2 DEF FetchView, IsaOfCore!FetchFrom
    <3>5. Halted' = Halted /\ MappedLate' = MappedLate
      BY <1>3, <2>5 DEF FetchView, BusyView, Halted
    <3>6. IsaOfCore!Goto(target)
      BY <3>4, <3>5 DEF IsaOfCore!Goto
    <3>7. MappedRegs'
             = IsaOfCore!SetReg(MappedIr.rd, IsaOfCore!Plus(MappedPc, 4))
      <4>1. Cpu!cpuregs_write' <=> dbg_insn.rd # 0
        BY <2>1, <2>2 DEF Cpu!cpuregs_write
      <4>2. Cpu!cpuregs_wrdata' = Plus(reg_pc, 4)
        BY <2>1, <2>6, CpuData DEF Cpu!cpuregs_wrdata
      <4>3. MappedRegs' = IF Cpu!cpuregs_write'
                          THEN [cpuregs' EXCEPT ![latched_rd'] = Cpu!cpuregs_wrdata']
                          ELSE cpuregs'
        BY DEF MappedRegs, Cpu!cpuregs_next
      <4> QED BY <1>4, <1>6, <2>2, <4>1, <4>2, <4>3, IsaData
                 DEF IsaOfCore!SetReg
    <3>8. IsaOfCore!Jump
      BY <1>2, <1>3, <1>4, <2>6, <3>3, <3>6, <3>7 DEF IsaOfCore!Jump
    <3> QED BY <3>8 DEF IsaStep, IsaOfCore!Next
  <2>7. CASE dbg_insn.op = "fence"
    <3>1. dbg_insn.rd = 0
      BY <1>5, <2>7 DEF CodeWord, MemWord, Fences
    <3>2. IsaOfCore!Goto(IsaOfCore!Plus(MappedPc, 4)) /\ MappedRegs' = cpuregs
      BY <1>2, <2>1, <2>2, <2>4, <2>7, <3>1, Sequential
    <3>3. IsaOfCore!Fence
      BY <1>2, <1>3, <1>4, <2>7, <3>2 DEF IsaOfCore!Fence
    <3> QED BY <3>3 DEF IsaStep, IsaOfCore!Next
  <2>8. CASE dbg_insn.op \notin {"jalr", "fence"}
    <3>1. IsaOfCore!Result(AluValue)
      <4>1. IsaOfCore!Result(alu_out_q')
        BY <1>2, <2>1, <2>2, <2>4, <2>8, Completes
      <4> QED BY <2>3, <2>8, <4>1
    <3>2. dbg_insn.op \in Upper \cup Immediates \cup {"add", "sub"}
             \cup ShiftImm \cup ShiftReg
      BY <1>1, <2>1, <2>8 DEF Core, DataInv, ExecInv, RegReg
    <3>3. IsaOfCore!Compute
      <4> HIDE DEF IsaOfCore!Result
      <4>1. CASE dbg_insn.op = "lui"
        <5>1. AluValue = dbg_insn.imm
          BY <4>1 DEF AluValue, Immediates
        <5> QED BY <1>3, <1>4, <3>1, <4>1, <5>1 DEF IsaOfCore!Compute
      <4>2. CASE dbg_insn.op = "auipc"
        <5>1. AluValue = IsaOfCore!Plus(MappedPc, MappedIr.imm)
          BY <1>4, <4>2, IsaData DEF AluValue, Immediates
        <5> QED BY <1>3, <1>4, <3>1, <4>2, <5>1 DEF IsaOfCore!Compute
      <4>3. CASE dbg_insn.op = "addi"
        <5>1. AluValue = IsaOfCore!Plus(IsaOfCore!Reg(MappedIr.rs1),
                                        MappedIr.imm)
          BY <1>3, <1>4, <4>3, IsaData DEF AluValue, Immediates
        <5> QED BY <1>3, <1>4, <3>1, <4>3, <5>1 DEF IsaOfCore!Compute
      <4>4. CASE dbg_insn.op = "slli"
        <5>1. AluValue = IsaOfCore!ShiftLeft(IsaOfCore!Reg(MappedIr.rs1),
                                             MappedIr.rs2 % Width)
          BY <1>3, <1>4, <4>4, IsaData DEF AluValue, Immediates
        <5> QED BY <1>3, <1>4, <3>1, <4>4, <5>1 DEF IsaOfCore!Compute
      <4>5. CASE dbg_insn.op = "sll"
        <5>1. AluValue = IsaOfCore!ShiftLeft(IsaOfCore!Reg(MappedIr.rs1),
                                             IsaOfCore!Reg(MappedIr.rs2) % Width)
          BY <1>3, <1>4, <4>5, IsaData DEF AluValue, Immediates
        <5> QED BY <1>3, <1>4, <3>1, <4>5, <5>1 DEF IsaOfCore!Compute
      <4>6. CASE dbg_insn.op = "add"
        <5>1. AluValue = IsaOfCore!Plus(IsaOfCore!Reg(MappedIr.rs1),
                                        IsaOfCore!Reg(MappedIr.rs2))
          BY <1>3, <1>4, <4>6, IsaData DEF AluValue, Immediates
        <5> QED BY <1>3, <1>4, <3>1, <4>6, <5>1 DEF IsaOfCore!Compute
      <4>7. CASE dbg_insn.op = "sub"
        <5>1. AluValue = IsaOfCore!Minus(IsaOfCore!Reg(MappedIr.rs1),
                                         IsaOfCore!Reg(MappedIr.rs2))
          BY <1>3, <1>4, <4>7, IsaData DEF AluValue, Immediates
        <5> QED BY <1>3, <1>4, <3>1, <4>7, <5>1 DEF IsaOfCore!Compute
      <4> QED BY <2>8, <3>2, <4>1, <4>2, <4>3, <4>4, <4>5, <4>6, <4>7
                 DEF Upper, Immediates, ShiftImm, ShiftReg
    <3> QED BY <3>3 DEF IsaStep, IsaOfCore!Next
  <2> QED BY <2>6, <2>7, <2>8
<1>10. CASE Cpu!ExecWait
    BY <1>2, <1>7, <1>10 DEF Cpu!ExecWait, Cpu!GoTo
<1> QED BY <1>7, <1>8, <1>9, <1>10

(* A shift is over when no place is left; until then nothing is seen.      *)
LEMMA ShiftIsa ==
    ASSUME Core, resetn, Next, Cpu!ShiftDone \/ Cpu!ShiftStep
    PROVE  IsaStep
<1>1. /\ cpu_state = "shift" /\ ~decoder_trigger' /\ latched_store' = TRUE
      /\ ~latched_branch' /\ ~latched_stalu'
      /\ latched_rd' = dbg_insn.rd
      /\ dbg_insn.op \in ShiftImm \cup ShiftReg /\ reg_op1 \in Value
    BY ShiftState
<1>2. Busy /\ mem' = mem /\ ~Cpu!misaligned
    BY <1>1, ExecEdge
<1>3. CASE Cpu!ShiftStep
  <2>1. Busy'
    BY <1>2, <1>3 DEF Cpu!ShiftStep, Cpu!GoTo, Busy
  <2> QED BY <1>2, <2>1, Waits
<1>4. CASE Cpu!ShiftDone
  <2>1. cpu_state' = "fetch" /\ reg_out' = reg_op1 /\ reg_sh = 0
    BY <1>2, <1>4 DEF Cpu!ShiftDone, Cpu!GoTo
  <2>2. NextWordKnown
    BY <1>1, ExecNextWord
  <2>3. IsaOfCore!Result(reg_op1)
    <3>1. IsaOfCore!Result(reg_out')
      BY <1>1, <1>2, <2>1, <2>2, Completes
    <3> QED BY <2>1, <3>1
  <2>4. reg_op1 = ShiftLeft(R1, ShiftAmount)
    <3>1. ShiftLeft(reg_op1, 0) = reg_op1
      BY <1>1, ShiftType
    <3>2. ShiftLeft(reg_op1, reg_sh) = ShiftLeft(R1, ShiftAmount)
      BY <1>1 DEF Core, DataInv, ShiftInv, ShiftAmount
    <3> QED BY <2>1, <3>1, <3>2
  <2>5. /\ IsaOfCore!Running /\ MappedIr = dbg_insn
        /\ IsaOfCore!Reg(dbg_insn.rs1) = R1 /\ IsaOfCore!Reg(dbg_insn.rs2) = R2
    BY <1>2, BusyRunning DEF BusyView
  <2>6. CASE dbg_insn.op = "slli"
    <3>1. reg_op1 = IsaOfCore!ShiftLeft(IsaOfCore!Reg(MappedIr.rs1),
                                        MappedIr.rs2 % Width)
      BY <2>4, <2>5, <2>6, IsaData DEF ShiftAmount, ShiftImm
    <3> QED BY <2>3, <2>5, <2>6, <3>1
               DEF IsaOfCore!Compute, IsaStep, IsaOfCore!Next
  <2>7. CASE dbg_insn.op = "sll"
    <3>1. reg_op1 = IsaOfCore!ShiftLeft(IsaOfCore!Reg(MappedIr.rs1),
                                        IsaOfCore!Reg(MappedIr.rs2) % Width)
      BY <2>4, <2>5, <2>7, IsaData DEF ShiftAmount, ShiftImm
    <3> QED BY <2>3, <2>5, <2>7, <3>1
               DEF IsaOfCore!Compute, IsaStep, IsaOfCore!Next
  <2> QED BY <1>1, <2>6, <2>7 DEF ShiftImm, ShiftReg
<1> QED BY <1>3, <1>4

-----------------------------------------------------------------------------
(* Loads and stores.                                                       *)

(* The bytes on the bus are those of the store.                            *)
LEMMA StoreMade ==
    ASSUME Core, cpu_state = "stmem", mem_do_wdata, mem_valid, mem_ready,
           mem' = [mem EXCEPT ![mem_addr] = Written(@, mem_wstrb, mem_wdata)]
    PROVE  IsaOfCore!Stored
<1>1. Busy /\ mem_state = 2
    BY DEF Busy, Core, ControlInv, InterfaceInv, RequestInv, FlagTypes
<1>2. /\ dbg_insn.op \in Stores /\ reg_op1 = Plus(R1, dbg_insn.imm)
      /\ reg_op1 \in Value /\ reg_op2 = R2
      /\ mem_wordsize = Size(dbg_insn.op)
      /\ Strobe(reg_op1, mem_wordsize) \subseteq LaneNo
      /\ Strobe(reg_op1, mem_wordsize) # {}
    BY StoreState
<1>3. /\ ~Misaligned(reg_op1, mem_wordsize) /\ mem_addr = Align(reg_op1)
      /\ mem_wstrb = Strobe(reg_op1, mem_wordsize)
      /\ mem_wdata = Replicated(reg_op2, mem_wordsize)
      /\ mem_addr \in MemoryAddresses
      /\ mem \in [MemoryAddresses -> CodeWord]
    BY <1>1 DEF Core, DataInv, AccessInv, Loaded, BusInv, DataTypes
<1>4. /\ IsaOfCore!Running /\ MappedIr = dbg_insn
      /\ IsaOfCore!Reg(dbg_insn.rs1) = R1 /\ IsaOfCore!Reg(dbg_insn.rs2) = R2
    BY <1>1, BusyRunning DEF BusyView
<1>5. IsaOfCore!Address = reg_op1
    BY <1>2, <1>4, IsaData DEF IsaOfCore!Address
<1> DEFINE n == IsaOfCore!Bytes(dbg_insn.op)
           bytes == [x \in {mem_addr + l : l \in mem_wstrb} |->
                         mem_wdata[x - mem_addr]]
<1>6. reg_op1 % n = 0
  <2>1. Misaligned(reg_op1, Size(dbg_insn.op)) <=> reg_op1 % n # 0
    BY <1>2, AlignedAccess
  <2> QED BY <1>2, <1>3, <2>1
<1>7. IsaOfCore!BytesOf(reg_op1 - (reg_op1 % n), R2, n) = bytes
    BY <1>2, <1>3, StrobedBytes
<1>8. reg_op1 - (reg_op1 % n) = reg_op1
    BY <1>2, <1>6, ValueZero
<1>9. IsaOfCore!StoreBytes(mem, bytes)
          = [mem EXCEPT ![mem_addr] = Written(@, mem_wstrb, mem_wdata)]
  <2>1. mem = [w \in MemoryAddresses |-> mem[w]]
    BY <1>3
  <2>2. mem_addr \in MemoryAddresses /\ mem_wstrb \subseteq LaneNo
        /\ mem_wstrb # {}
    BY <1>2, <1>3
  <2> QED BY <2>1, <2>2, WrittenBytes
<1> HIDE DEF n, bytes
<1>10. mem' = IsaOfCore!StoreBytes(mem, IsaOfCore!BytesOf(reg_op1, R2, n))
    BY <1>7, <1>8, <1>9
<1>11. Align(reg_op1) \in DOMAIN mem
    BY <1>3
<1>12. n = IsaOfCore!Bytes(MappedIr.op)
    BY <1>4 DEF n
<1> QED BY <1>2, <1>4, <1>5, <1>6, <1>10, <1>11, <1>12, IsaData
           DEF IsaOfCore!Stored

(* Loads and stores.                                                       *)
LEMMA AccessIsa ==
    ASSUME Core, resetn, Next, Cpu!StMem \/ Cpu!LdMem
    PROVE  IsaStep
<1> DEFINE request == ~DataRequest /\ Cpu!mem_done
           done == DataRequest /\ Cpu!mem_done
<1>1. /\ Accessing
      /\ cpu_state' = IF Cpu!misaligned THEN "trap"
                      ELSE IF done THEN "fetch" ELSE cpu_state
      /\ decoder_trigger' <=> Cpu!mem_done
      /\ UNCHANGED <<latched_stalu, latched_branch, latched_rd>>
      /\ cpu_state = "stmem" => latched_store' = latched_store
      /\ cpu_state = "ldmem" => latched_store' = TRUE
      /\ cpu_state = "ldmem" /\ done => reg_out' = Cpu!LoadResult
    BY AccessRegs
<1>2. /\ Busy /\ MemEdge
      /\ mem_do_rdata => cpu_state = "ldmem"
      /\ mem_do_wdata => cpu_state = "stmem"
      /\ ~DataRequest => ~Cpu!misaligned
      /\ DataRequest =>
            /\ ~mem_do_prefetch /\ ~mem_do_rinst /\ insn1' = insn1
            /\ Cpu!misaligned <=> Misaligned(reg_op1, mem_wordsize)
            /\ mem_state # 0 => ~Misaligned(reg_op1, mem_wordsize)
            /\ Cpu!mem_done <=> mem_state # 0 /\ mem_valid /\ mem_ready
            /\ mem_state = 0 => mem_addr' = Align(reg_op1)
      /\ ~(mem_do_wdata /\ Cpu!mem_done) => mem' = mem
    BY <1>1, AccessEdge
<1>3. /\ IsaOfCore!Running /\ BusyView /\ MappedIr = dbg_insn
      /\ MappedRegs = cpuregs
      /\ IsaOfCore!Reg(dbg_insn.rs1) = R1 /\ IsaOfCore!Reg(dbg_insn.rs2) = R2
    BY <1>2, BusyRunning DEF BusyView
<1>4. /\ cpu_state = "ldmem" => dbg_insn.op \in Loads
      /\ cpu_state = "stmem" => dbg_insn.op \in Stores
      /\ DataRequest => /\ Align(reg_next_pc) \in MemoryAddresses
                        /\ insn1 = mem[Align(reg_next_pc)]
                        /\ reg_op1 = Plus(R1, dbg_insn.imm)
                        /\ mem_wordsize = Size(dbg_insn.op)
      /\ mem \in [MemoryAddresses -> CodeWord]
    BY <1>1
       DEF Core, DataInv, AccessInv, Accessing, Loaded, DataRequest, DataTypes
<1>5. dbg_insn.op \in Loads \cup Stores
      /\ dbg_insn.op \notin Branches \cup {"jalr"}
    BY <1>1, <1>4 DEF Branches, Loads, UnsignedLoads, Stores, Accessing
<1>6. /\ latched_rd' = dbg_insn.rd /\ ~latched_branch' /\ ~latched_stalu'
      /\ cpu_state = "stmem" => ~latched_store'
    BY <1>1, <1>2, <1>5 DEF Core, DataInv, BusyInv, IsBranch, Accessing
<1>7. DataRequest => IsaOfCore!Address = reg_op1
    BY <1>3, <1>4, IsaData DEF IsaOfCore!Address
<1>8. ControlInv' /\ trap' = FALSE
    BY <1>2, ControlNext, BusyEdge DEF Core, IInv
<1>9. reg_op1 \in Value \/ ~DataRequest
    BY <1>2, <1>4, BusyState, ValueOps, ValueZero
<1>10. CASE ~Cpu!misaligned /\ ~done
  <2>1. Busy'
    BY <1>1, <1>2, <1>10 DEF Busy
  <2> QED BY <1>2, <1>10, <2>1, Waits DEF DataRequest
<1>11. CASE ~Cpu!misaligned /\ done
  <2>1. cpu_state' = "fetch" /\ ~latched_branch'
    BY <1>1, <1>6, <1>11
  <2>2. NextWordKnown
    <3>1. insn1' = IsaOfCore!FetchFrom(mem, reg_next_pc)
      BY <1>2, <1>4, <1>11, IsaData DEF IsaOfCore!FetchFrom
    <3> QED BY <1>1, <1>11, <3>1 DEF NextWordKnown
  <2>3. CASE cpu_state = "ldmem"
    <3>1. mem_do_rdata /\ mem' = mem
      BY <1>2, <1>11, <2>3 DEF DataRequest
    <3> DEFINE n == IsaOfCore!Bytes(dbg_insn.op)
               v == IsaOfCore!LoadValue(dbg_insn.op,
                                        IsaOfCore!LoadBytes(mem, reg_op1, n))
    <3>2. /\ reg_op1 % n = 0 /\ Align(reg_op1) \in MemoryAddresses
          /\ Cpu!LoadResult = v
      BY <1>4, <1>11, <2>3, <3>1, LoadedValue
    <3>3. IsaOfCore!Result(reg_out')
      BY <1>1, <1>2, <1>6, <2>1, <2>2, <2>3, <3>1, Completes
    <3>4. reg_out' = v
      BY <1>1, <1>11, <2>3, <3>2
    <3>5. v = IsaOfCore!LoadValue(MappedIr.op, IsaOfCore!LoadBytes(mem,
                  IsaOfCore!Address, IsaOfCore!Bytes(MappedIr.op)))
      BY <1>3, <1>7, <1>11
    <3>6. IsaOfCore!Align(IsaOfCore!Address) \in DOMAIN mem
          /\ IsaOfCore!Address % IsaOfCore!Bytes(MappedIr.op) = 0
      BY <1>3, <1>4, <1>7, <1>11, <3>2, IsaData
    <3>7. MappedIr.op \in IsaOfCore!Loads
      BY <1>3, <1>4, <2>3, IsaData
    <3> HIDE DEF v
    <3>8. IsaOfCore!Load
      BY <1>3, <3>3, <3>4, <3>5, <3>6, <3>7 DEF IsaOfCore!Load
    <3> QED BY <3>8 DEF IsaStep, IsaOfCore!Next
  <2>4. CASE cpu_state = "stmem"
    <3>1. mem_do_wdata /\ mem_valid /\ mem_ready
      BY <1>2, <1>11, <2>4 DEF DataRequest
    <3>2. mem_wstrb # {}
      BY <1>2, <1>11, <2>4, <3>1
         DEF Core, ControlInv, InterfaceInv, RequestInv, FlagTypes, Busy
    <3>3. mem' = [mem EXCEPT ![mem_addr] = Written(@, mem_wstrb, mem_wdata)]
      BY <3>1, <3>2, MemoryStep DEF MemStep, Core, DataInv
    <3>4. IsaOfCore!Stored
      BY <2>4, <3>1, <3>3, StoreMade
    <3>5. IsaOfCore!Goto(IsaOfCore!Plus(MappedPc, 4))
          /\ MappedRegs' = MappedRegs
      BY <1>2, <1>3, <1>6, <2>1, <2>2, <2>4, Sequential
    <3>6. IsaOfCore!Store
      BY <3>4, <3>5 DEF IsaOfCore!Store
    <3> QED BY <3>6 DEF IsaStep, IsaOfCore!Next
  <2> QED BY <1>1, <2>3, <2>4 DEF Accessing
<1>12. CASE Cpu!misaligned
  <2>1. /\ DataRequest /\ mem_state = 0 /\ ~Cpu!mem_done /\ cpu_state' = "trap"
        /\ mem' = mem /\ mem_addr' = Align(reg_op1)
    BY <1>1, <1>2, <1>12
  <2> DEFINE o == dbg_insn.op
             n == IsaOfCore!Bytes(o)
  <2>2. reg_op1 % n # 0
    <3>1. Misaligned(reg_op1, Size(o)) <=> reg_op1 % n # 0
      BY <1>5, <1>9, <2>1, AlignedAccess
    <3> QED BY <1>2, <1>4, <1>12, <2>1, <3>1
  <2>3. IsaOfCore!Address % IsaOfCore!Bytes(MappedIr.op) # 0
    BY <1>3, <1>7, <2>1, <2>2
  <2>4. CASE mem_do_rdata
    <3>1. mem_wstrb' = {}
      BY <1>2, <2>1, <2>4 DEF MemEdge
    <3>2. IsaOfCore!Stop(IsaOfCore!NoBytes)
      BY <1>2, <2>1, <3>1, NoLate, Stops
    <3>3. MappedIr.op \in IsaOfCore!Loads
      BY <1>2, <1>3, <1>4, <2>4, IsaData
    <3>4. IsaOfCore!MisalignedLoad
      BY <1>3, <2>3, <3>2, <3>3 DEF IsaOfCore!MisalignedLoad
    <3> QED BY <3>4 DEF IsaStep, IsaOfCore!Next
  <2>5. CASE mem_do_wdata
    <3>1. /\ mem_state' = 2 /\ mem_wstrb' = Strobe(reg_op1, mem_wordsize)
          /\ mem_wdata' = Replicated(reg_op2, mem_wordsize)
      BY <1>2, <2>1, <2>5 DEF MemEdge
    <3>2. mem_valid'
      BY <1>8, <3>1 DEF ControlInv, InterfaceInv
    <3>3. o \in Stores /\ reg_op1 \in Value /\ reg_op2 = R2
          /\ mem_wordsize = Size(o)
      BY <1>2, <2>5, StoreState
    <3> DEFINE bytes == IsaOfCore!BytesOf(reg_op1 - (reg_op1 % n), R2, n)
    <3>4. bytes = [x \in {mem_addr' + l : l \in mem_wstrb'} |->
                       mem_wdata'[x - mem_addr']]
      BY <2>1, <3>1, <3>3, StrobedBytes
    <3>5. MappedLate' = bytes
      BY <2>1, <3>2, <3>4 DEF MappedLate
    <3> HIDE DEF bytes
    <3>6. IsaOfCore!Stop(bytes)
      BY <1>2, <2>1, <3>5, Stops
    <3>7. bytes = IsaOfCore!BytesOf(IsaOfCore!Address
                      - (IsaOfCore!Address % IsaOfCore!Bytes(MappedIr.op)),
                      IsaOfCore!Reg(MappedIr.rs2),
                      IsaOfCore!Bytes(MappedIr.op))
      BY <1>3, <1>7, <2>1 DEF bytes
    <3>8. MappedIr.op \in IsaOfCore!Stores
      BY <1>3, <3>3, IsaData
    <3>9. IsaOfCore!MisalignedStore
      BY <1>3, <2>3, <3>6, <3>7, <3>8 DEF IsaOfCore!MisalignedStore
    <3> QED BY <3>9 DEF IsaStep, IsaOfCore!Next
  <2> QED BY <2>1, <2>4, <2>5 DEF DataRequest
<1> QED BY <1>10, <1>11, <1>12

-----------------------------------------------------------------------------
(* The trap state.                                                         *)

(* A core that stopped in a store still makes it.                          *)
LEMMA LateMade ==
    ASSUME Core, cpu_state = "trap", mem_valid, mem_ready, mem_wstrb # {},
           mem' = [mem EXCEPT ![mem_addr] = Written(@, mem_wstrb, mem_wdata)]
    PROVE  mem' = IsaOfCore!StoreBytes(mem, MappedLate)
           /\ MappedLate # IsaOfCore!NoBytes
<1> DEFINE D == {mem_addr + l : l \in mem_wstrb}
           bytes == [x \in D |-> mem_wdata[x - mem_addr]]
<1>1. mem_addr \in MemoryAddresses /\ mem_wstrb \subseteq LaneNo
      /\ mem \in [MemoryAddresses -> CodeWord]
    BY DEF Core, DataInv, BusInv, DataTypes
<1>2. MappedLate = bytes
    BY DEF MappedLate
<1>3. IsaOfCore!StoreBytes(mem, bytes)
          = [mem EXCEPT ![mem_addr] = Written(@, mem_wstrb, mem_wdata)]
  <2>1. mem = [w \in MemoryAddresses |-> mem[w]]
    BY <1>1
  <2> QED BY <1>1, <2>1, WrittenBytes
<1>4. bytes # IsaOfCore!NoBytes
  <2>1. D # {}
    OBVIOUS
  <2>2. DOMAIN bytes = D
    OBVIOUS
  <2>3. DOMAIN IsaOfCore!NoBytes = {}
    BY DEF IsaOfCore!NoBytes
  <2> HIDE DEF bytes, D
  <2> QED BY <2>1, <2>2, <2>3
<1> HIDE DEF bytes
<1> QED BY <1>2, <1>3, <1>4

(* The core stands still.                                                  *)
LEMMA TrapIsa ==
    ASSUME Core, resetn, Next, cpu_state = "trap"
    PROVE  IsaStep
<1>1. cpu_state' = "trap" /\ cpuregs' = cpuregs /\ reg_pc' = reg_pc
    BY TrapState
<1>2. TrapView /\ TrapView'
    BY <1>1, Views
<1>3. UNCHANGED <<MappedPc, MappedIr, MappedRegs, Halted>>
    BY <1>1, <1>2 DEF TrapView, Halted
<1>4. MemStep
    BY MemoryStep DEF Core, DataInv
<1>5. /\ mem_state = 0 => ~mem_valid
      /\ ~trap /\ mem_state = 1 => mem_wstrb = {}
      /\ ~trap /\ mem_state = 3 => ~mem_valid
      /\ mem_do_wdata => mem_state # 0
      /\ mem_state \in 0 .. 3
    BY DEF Core, ControlInv, InterfaceInv, FlagTypes, DataInv, AccessInv
<1>6. \/ ~mem_valid' \/ mem_wstrb' = {}
      \/ UNCHANGED <<mem_valid, mem_addr, mem_wstrb, mem_wdata>> /\ mem_valid
         /\ ~mem_ready
  <2> USE <1>5 DEF Cpu!memRegs, Cpu!mem_xfer, Cpu!mem_la_write
  <2>1. CASE Cpu!MemHalted
    BY <2>1 DEF Cpu!MemHalted
  <2>2. CASE ~trap /\ (Cpu!MemIdle \/ Cpu!MemWait)
    BY <2>2 DEF Cpu!MemIdle, Cpu!MemWait
  <2>3. CASE ~trap /\ (Cpu!MemStartRead \/ Cpu!MemStartWrite)
    BY <2>3 DEF Cpu!MemStartRead, Cpu!MemStartWrite
  <2>4. CASE ~trap /\ (Cpu!MemReadDone \/ Cpu!MemWriteDone
             \/ Cpu!MemPrefetched)
    BY <2>4 DEF Cpu!MemReadDone, Cpu!MemWriteDone, Cpu!MemPrefetched
  <2> QED BY <2>1, <2>2, <2>3, <2>4 DEF Next, Cpu!Edge, Cpu!MemoryInterface
<1>7. CASE mem_valid /\ mem_ready /\ mem_wstrb # {}
  <2>1. mem' = [mem EXCEPT ![mem_addr] = Written(@, mem_wstrb, mem_wdata)]
    BY <1>4, <1>7 DEF MemStep
  <2>2. mem' = IsaOfCore!StoreBytes(mem, MappedLate)
        /\ MappedLate # IsaOfCore!NoBytes
    BY <1>7, <2>1, LateMade
  <2>3. MappedLate' = IsaOfCore!NoBytes
    BY <1>6, <1>7, NoLate
  <2>4. IsaOfCore!LateWrite
    BY <1>2, <1>3, <2>2, <2>3 DEF IsaOfCore!LateWrite, TrapView
  <2> QED BY <2>4 DEF IsaStep, IsaOfCore!Next
<1>8. CASE ~(mem_valid /\ mem_ready /\ mem_wstrb # {})
  <2>1. mem' = mem
    BY <1>4, <1>8 DEF MemStep
  <2>2. MappedLate' = MappedLate
    <3>1. CASE UNCHANGED <<mem_valid, mem_addr, mem_wstrb, mem_wdata>>
      BY <1>1, <3>1 DEF MappedLate
    <3>2. CASE (~mem_valid' \/ mem_wstrb' = {})
               /\ (~mem_valid \/ mem_wstrb = {})
      BY <3>2, NoLate
    <3>3. CASE (~mem_valid' \/ mem_wstrb' = {}) /\ mem_valid /\ mem_wstrb # {}
               /\ ~mem_ready
      <4>1. CASE Cpu!MemHalted
        BY <3>3, <4>1, <1>1 DEF Cpu!MemHalted, MappedLate
      <4>2. CASE ~trap
        <5>1. mem_state = 2
          BY <1>5, <3>3, <4>2
        <5>2. ~Cpu!MemHalted
          BY <4>2 DEF Cpu!MemHalted
        <5>3. UNCHANGED Cpu!memRegs
          BY <3>3, <5>1, <5>2
             DEF Next, Cpu!Edge, Cpu!MemoryInterface, Cpu!MemIdle,
                 Cpu!MemStartRead, Cpu!MemStartWrite, Cpu!MemReadDone,
                 Cpu!MemWriteDone, Cpu!MemPrefetched, Cpu!MemWait, Cpu!mem_xfer
        <5> QED BY <1>1, <5>3 DEF Cpu!memRegs, MappedLate
      <4> QED BY <4>1, <4>2 DEF Next, Cpu!Edge, Cpu!MemoryInterface
    <3> QED BY <1>6, <1>8, <3>1, <3>2, <3>3
  <2> QED BY <1>3, <2>1, <2>2 DEF IsaStep, IsaOfCore!vars
<1> QED BY <1>7, <1>8

-----------------------------------------------------------------------------
(* The reset.                                                              *)

(* A register on its way to the register file when the reset comes is lost; *)
(* no other is.                                                            *)
LEMMA ResetRegs ==
    ASSUME DataTypes, Core \/ Init, Next, ~resetn
    PROVE  /\ MappedRegs' \in [Regs -> Value] /\ MappedRegs'[2] = STACKADDR
           /\ \E lost \in Regs : \A r \in Regs \ {2, lost} :
                 MappedRegs'[r] = MappedRegs[r]
<1>1. cpuregs \in [Regs -> Value] /\ latched_rd \in Regs
    BY DEF DataTypes
<1>2. Cpu!Reset /\ cpuregs' = cpuregs
    BY DEF Next, Cpu!Edge, Cpu!Main, Cpu!RegisterFile
<1>3. MappedRegs' = [cpuregs EXCEPT ![2] = STACKADDR]
  <2>1. /\ cpu_state' = "fetch" /\ latched_store' = TRUE
        /\ latched_stalu' = FALSE /\ latched_branch' = FALSE
        /\ latched_rd' = 2 /\ reg_out' = STACKADDR
    BY <1>2 DEF Cpu!Reset
  <2>2. Cpu!cpuregs_write' /\ Cpu!cpuregs_wrdata' = STACKADDR
    BY <2>1 DEF Cpu!cpuregs_write, Cpu!cpuregs_wrdata
  <2> QED BY <1>2, <2>1, <2>2 DEF MappedRegs, Cpu!cpuregs_next
<1>4. \A r \in Regs \ {2, latched_rd} : MappedRegs[r] = cpuregs[r]
    BY <1>1 DEF MappedRegs, Cpu!cpuregs_next
<1>5. MappedRegs' \in [Regs -> Value] /\ MappedRegs'[2] = STACKADDR
    BY <1>1, <1>3, ValueZero, StackAssumption
<1>6. \A r \in Regs \ {2, latched_rd} : MappedRegs'[r] = MappedRegs[r]
    BY <1>1, <1>3, <1>4
<1> QED BY <1>1, <1>5, <1>6

(* A store on the bus when the reset comes may be made, whole or not.      *)
LEMMA ResetMem ==
    ASSUME DataTypes, BusInv, Core \/ Init, Next, ~resetn
    PROVE  \/ mem' = mem
           \/ IsaOfCore!Stored
           \/ mem' = IsaOfCore!StoreBytes(mem, MappedLate)
<1>1. MemStep
    BY MemoryStep
<1>2. CASE Init
  <2>1. ~mem_ready
    BY <1>2, InitTypes
  <2> QED BY <1>1, <2>1 DEF MemStep
<1>3. CASE Core /\ mem' # mem
  <2>1. /\ mem_valid /\ mem_ready /\ mem_wstrb # {}
        /\ mem' = [mem EXCEPT ![mem_addr] = Written(@, mem_wstrb, mem_wdata)]
    BY <1>1, <1>3 DEF MemStep
  <2>2. \/ cpu_state = "trap"
        \/ cpu_state = "stmem" /\ mem_do_wdata
    BY <1>3, <2>1, WriteOnly DEF Core
  <2> QED BY <1>3, <2>1, <2>2, StoreMade, LateMade
<1> QED BY <1>2, <1>3

(* A reset, at any edge and in any state, is the reset of the instruction  *)
(* set.                                                                    *)
LEMMA ResetIsa ==
    ASSUME DataTypes, BusInv, Core \/ Init, Next, ~resetn
    PROVE  IsaOfCore!Reset
<1>1. /\ cpu_state' = "fetch" /\ decoder_trigger' = FALSE
      /\ latched_branch' = FALSE /\ reg_next_pc' = 0
  <2>1. Cpu!Reset
    BY DEF Next, Cpu!Edge, Cpu!Main
  <2> QED BY <2>1 DEF Cpu!Reset, Cpu!Trigger, Cpu!mem_done
<1>2. Cpu!current_pc' = 0
    BY <1>1 DEF Cpu!current_pc
<1>3. FetchView'
    BY <1>1, Views
<1>4. /\ MappedPc' = 0 /\ Halted' = FALSE /\ MappedLate' = IsaOfCore!NoBytes
      /\ MappedIr' = IsaOfCore!FetchFrom(mem', 0)
  <2>1. MappedIr' = IsaOfCore!FetchFrom(mem, Cpu!current_pc)'
    BY <1>1, <1>3 DEF FetchView
  <2>2. IsaOfCore!FetchFrom(mem, Cpu!current_pc)'
           = IsaOfCore!FetchFrom(mem', 0)
    BY <1>2 DEF IsaOfCore!FetchFrom
  <2> QED BY <1>1, <1>2, <1>3, <2>1, <2>2 DEF FetchView, Halted
<1>5. /\ MappedRegs' \in [Regs -> IsaOfCore!Value]
      /\ MappedRegs'[2] = STACKADDR
      /\ \E lost \in Regs : \A r \in Regs \ {2, lost} :
            MappedRegs'[r] = MappedRegs[r]
    BY ResetRegs, IsaData
<1> QED BY <1>4, <1>5, ResetMem DEF IsaOfCore!Reset

-----------------------------------------------------------------------------
(* The core implements the instruction set.                                *)

(* A stutter changes nothing that the instruction set sees.                *)
LEMMA IsaStutter ==
    ASSUME UNCHANGED vars
    PROVE  UNCHANGED IsaOfCore!vars
<1> USE DEF vars, Cpu!coreVars, Cpu!memRegs, Cpu!decodeRegs, Cpu!mainRegs,
            Cpu!memDo, Cpu!triggers, Cpu!latches, Cpu!pcs, Cpu!aluRegs
<1>1. Cpu!current_pc' = Cpu!current_pc
    BY DEF Cpu!current_pc
<1>2. UNCHANGED <<MappedPc, MappedIr, Halted, mem>>
    BY <1>1 DEF MappedPc, MappedIr, Halted
<1>3. MappedRegs' = MappedRegs
    BY DEF MappedRegs, Cpu!cpuregs_next, Cpu!cpuregs_write, Cpu!cpuregs_wrdata
<1>4. MappedLate' = MappedLate
    BY DEF MappedLate
<1> QED BY <1>2, <1>3, <1>4 DEF IsaOfCore!vars

(* Before the first reset the registers hold values, and nothing is late.  *)
LEMMA InitIsa == Init => IsaOfCore!Init
<1> SUFFICES ASSUME Init PROVE IsaOfCore!Init
    OBVIOUS
<1>1. /\ cpu_state \in {"trap", "fetch"} /\ reg_pc = 0 /\ reg_next_pc = 0
      /\ ~latched_branch /\ ~latched_store /\ mem_wstrb = {}
    BY DEF Init, Cpu!PowerUp
<1>2. MappedPc = 0 /\ Halted \in BOOLEAN
    BY <1>1 DEF MappedPc, Cpu!current_pc, Halted
<1>3. MappedLate = IsaOfCore!NoBytes
    BY <1>1, NoLate
<1>4. MappedRegs = cpuregs
    BY <1>1 DEF MappedRegs, Cpu!cpuregs_next, Cpu!cpuregs_write
<1>5. cpuregs \in [Regs -> Value]
    BY InitTypes DEF DataTypes
<1> QED BY <1>2, <1>3, <1>4, <1>5, ValueZero, IsaData DEF IsaOfCore!Init

(* Every edge is one step of the instruction set, or none.                 *)
LEMMA CoreStep ==
    ASSUME CoreInv, Next
    PROVE  IsaStep
<1>1. CASE ~resetn
  <2>1. IsaOfCore!Reset
    BY <1>1, CoreTypes, ResetIsa DEF CoreInv
  <2> QED BY <2>1 DEF IsaStep, IsaOfCore!Next
<1>2. CASE resetn
  <2>1. Core
    BY <1>2, CoreTypes
  <2>2. CASE cpu_state = "fetch"
    BY <1>2, <2>1, <2>2, FetchIsa
  <2>3. CASE cpu_state = "trap"
    BY <1>2, <2>1, <2>3, TrapIsa
  <2>4. CASE Busy
    BY <1>2, <2>1, <2>4, BusyEdge, OperandIsa, ExecIsa, ShiftIsa, AccessIsa
  <2> QED BY <2>2, <2>3, <2>4 DEF Busy
<1> QED BY <1>1, <1>2

(* The core implements its instruction set: with any program and any       *)
(* parameters, whatever the memory, the coprocessor and the reset do,      *)
(* registers and memory go through one instruction after the other.  The   *)
(* prefetch, the decoder stages, the coprocessor port and the waiting are  *)
(* stutters of the mapping, and a reset is the Reset of the instruction    *)
(* set.                                                                    *)
THEOREM CoreImplementsIsa == Spec => ImplementsIsa
<1>1. Init => IsaOfCore!Init
    BY InitIsa
<1>2. CoreInv /\ [Next]_vars => [IsaOfCore!Next]_IsaOfCore!vars
  <2>1. CASE UNCHANGED vars
    BY <2>1, IsaStutter
  <2> QED BY <2>1, CoreStep DEF IsaStep
<1> QED BY <1>1, <1>2, CoreInOrder, PTL DEF Spec, ImplementsIsa, IsaOfCore!Spec
=============================================================================

----------------------------- MODULE PicoSystem -----------------------------
(***************************************************************************)
(* The core with a memory on its native interface and the XPix coprocessor *)
(* on its PCPI port.  The memory (NativeMemory, which SocBus implements)   *)
(* answers after any number of cycles, and not at all at an address it     *)
(* does not have.  The reset can come at any edge.                         *)
(***************************************************************************)
EXTENDS PicoData

CONSTANTS
    X, NoWord,
    WITH_PCPI, ENABLE_REGS_DUALPORT, BARREL_SHIFTER, TWO_STAGE_SHIFT,
    TWO_CYCLE_ALU, TWO_CYCLE_COMPARE, TimeoutMax,
    Programs    \* the initial contents of the memory, words at multiples of 4

ASSUME UndefinedAssumption == X \notin Value \cup Regs /\ NoWord \notin MemWord
ASSUME ParameterAssumption ==
    {WITH_PCPI, ENABLE_REGS_DUALPORT, BARREL_SHIFTER, TWO_STAGE_SHIFT,
     TWO_CYCLE_ALU, TWO_CYCLE_COMPARE} \subseteq BOOLEAN
ASSUME TimeoutAssumption == TimeoutMax \in Nat \ {0}

VARIABLES
    resetn, mem_ready,
    mem_state, mem_valid, mem_instr, mem_addr, mem_wdata, mem_wstrb,
    mem_wordsize, mem_rdata_q,
    mem_do_prefetch, mem_do_rinst, mem_do_rdata, mem_do_wdata,
    insn1, insn2, is_lui_auipc_jal, is_lbu_lhu_lw,
    decoder_trigger, decoder_pseudo_trigger,
    cpu_state, trap, reg_pc, reg_next_pc, reg_op1, reg_op2, reg_out, reg_sh,
    latched_store, latched_stalu, latched_branch, latched_rd, latched_is,
    alu_res, alu_eq_r, alu_out_q, alu_out_0_q, alu_wait, alu_wait_2,
    cpuregs, pcpi_valid, pcpi_timeout_counter, pcpi_timeout,
    xp_state, xp_a, xp_b, xp_op, xp_rd,     \* the coprocessor
    mem,                                    \* the memory
    dbg_insn                                \* history: the word launched last

xpVars == <<xp_state, xp_a, xp_b, xp_op, xp_rd>>

\* The coprocessor; the port shows it the instruction of the second stage.
XP == INSTANCE XPixPcpi WITH
        Top <- Base - 1, Lanes <- LaneNo,
        state <- xp_state, a <- xp_a, b <- xp_b, op <- xp_op, pcpi_rd <- xp_rd,
        pcpi_insn <- [xpix |-> insn2.op = "xpix", funct3 |-> insn2.imm],
        pcpi_rs1 <- Split(reg_op1), pcpi_rs2 <- Split(reg_op2),
        offered <- 0

\* The word on the bus; outside the memory it is nothing.
mem_rdata == IF mem_addr \in DOMAIN mem THEN mem[mem_addr] ELSE NoWord

MemoryAddresses == UNION {DOMAIN p : p \in Programs}

\* Memory has the same addresses whatever it holds.
ASSUME ProgramsAssumption ==
    /\ Programs \subseteq [MemoryAddresses -> CodeWord]
    /\ \A a \in MemoryAddresses : a \in Value /\ a % 4 = 0

NativeBus == INSTANCE NativeMemory WITH
        Addresses <- MemoryAddresses,
        valid <- mem_valid, addr <- mem_addr, wstrb <- mem_wstrb,
        wdata <- mem_wdata, ready <- mem_ready, rdata <- mem_rdata

\* The core.  Without the coprocessor its port is tied to zero.
Cpu == INSTANCE PicoCore WITH
        pcpi_int_wait <- WITH_PCPI /\ XP!pcpi_wait,
        pcpi_int_ready <- WITH_PCPI /\ XP!pcpi_ready,
        pcpi_int_wr <- WITH_PCPI /\ XP!pcpi_wr,
        pcpi_int_rd <- Join(xp_rd)

vars == <<resetn, mem_ready, Cpu!coreVars, xpVars, mem, dbg_insn>>

-----------------------------------------------------------------------------
Init ==
    /\ resetn = FALSE
    /\ mem_ready = FALSE
    /\ Cpu!PowerUp
    /\ xp_state \in IF WITH_PCPI THEN XP!States ELSE {"IDLE"}
    /\ xp_a = XP!Zero /\ xp_b = XP!Zero
    /\ xp_op = 0 /\ xp_rd = XP!Zero
    /\ mem \in Programs
    /\ dbg_insn = NoWord

Coprocessor == IF WITH_PCPI THEN XP!Coprocessor ELSE UNCHANGED xpVars

\* Ready may be tied to one, but an address without memory never gets it.
Memory == mem_ready' \in BOOLEAN /\ NativeBus!Store /\ NativeBus!Answer

History ==
    dbg_insn' = IF resetn /\ cpu_state = "fetch" /\ decoder_trigger
                THEN insn1 ELSE dbg_insn

Next ==
    /\ Cpu!Edge
    /\ Memory /\ Coprocessor /\ History
    /\ resetn' \in BOOLEAN

Spec == Init /\ [][Next]_vars

(* The clock runs and does not stay in a reset, and the memory acknowledges *)
(* a transfer sooner or later if the address exists.                       *)
FairSpec ==
    Spec /\ WF_vars(Next /\ resetn') /\ WF_vars(Next /\ resetn' /\ mem_ready')

-----------------------------------------------------------------------------
(* The core implements the instruction set.  An instruction is over when   *)
(* the core is back in the fetch state (a jump: when it is launched).      *)

MappedPc == IF cpu_state = "fetch" THEN Cpu!current_pc ELSE reg_pc

MappedRegs == Cpu!cpuregs_next

Halted == cpu_state = "trap"

MappedIr ==
    CASE cpu_state = "trap" -> NoWord
      [] cpu_state = "fetch" /\ decoder_trigger -> insn1
      [] cpu_state = "fetch" /\ ~decoder_trigger ->
            IF Align(Cpu!current_pc) \in DOMAIN mem
            THEN mem[Align(Cpu!current_pc)] ELSE NoWord
      [] OTHER -> dbg_insn

MappedLate ==
    IF cpu_state = "trap" /\ mem_valid
    THEN [x \in {mem_addr + l : l \in mem_wstrb} |-> mem_wdata[x - mem_addr]]
    ELSE [x \in {} |-> 0]

IsaOfCore == INSTANCE Isa WITH
    pc <- MappedPc, ir <- MappedIr, regs <- MappedRegs, halted <- Halted,
    late <- MappedLate

(* Whatever the prefetch, the two decoder stages, the waiting for the bus  *)
(* and for the coprocessor and the resets do, what registers and memory    *)
(* go through is one instruction of the ISA after the other.               *)
ImplementsIsa == IsaOfCore!Spec

-----------------------------------------------------------------------------
(* The assertions of the source on the memory interface (picorv32.v, the   *)
(* block before the state machine and those within it): at most one kind   *)
(* of request, and each state of the interface has the request, the valid  *)
(* line and the strobes it was entered with.                               *)
RequestsMatchState ==
    resetn /\ ~trap =>
        /\ mem_do_wdata => ~(mem_do_prefetch \/ mem_do_rinst \/ mem_do_rdata)
        /\ mem_do_rdata => ~(mem_do_prefetch \/ mem_do_rinst)
        /\ mem_state \in {2, 3} => mem_valid \/ mem_do_prefetch
        /\ mem_state = 1 =>
            /\ mem_wstrb = {} /\ mem_valid
            /\ mem_do_prefetch \/ mem_do_rinst \/ mem_do_rdata
            /\ mem_instr = (mem_do_prefetch \/ mem_do_rinst)
        /\ mem_state = 2 => mem_wstrb # {} /\ mem_do_wdata
        /\ mem_state = 3 => mem_wstrb = {} /\ mem_do_prefetch

(* The native interface as documented: a transfer stays up, with its       *)
(* address, data and strobes, until it is acknowledged, also when the core *)
(* traps in the middle of it; and the look-ahead announces exactly the     *)
(* transfers that follow (the clocked assertions under FORMAL).            *)
BusProtocol ==
    [][resetn =>
        /\ mem_valid /\ ~mem_ready =>
            mem_valid' /\ UNCHANGED <<mem_addr, mem_wdata, mem_wstrb, mem_instr>>
        /\ Cpu!mem_la_read \/ Cpu!mem_la_write =>
            /\ ~mem_valid \/ mem_ready
            /\ mem_valid' /\ mem_addr' = Cpu!mem_la_addr
        /\ ~mem_valid /\ mem_valid' => Cpu!mem_la_read \/ Cpu!mem_la_write
      ]_vars

(* The second decoder stage decodes the word the first one decoded: no     *)
(* load, store or discarded prefetch slips in between.                     *)
StagesAgree ==
    resetn /\ cpu_state # "trap" /\ Cpu!SecondStage => mem_rdata_q = insn1

(* The timeout of the core does not run while the coprocessor works on a   *)
(* pixel instruction, whatever request was refused, answered or reset      *)
(* before it, and the coprocessor answers nothing else.                    *)
TimeoutSparesPixels ==
    WITH_PCPI /\ resetn /\ pcpi_valid =>
        /\ insn2.op = "xpix" /\ insn2.imm <= 4 =>
               ~pcpi_timeout /\ pcpi_timeout_counter = TimeoutMax
        /\ XP!pcpi_ready => insn2.op = "xpix" /\ insn2.imm <= 4

(* The core never stops for another reason than a trap or an address that  *)
(* has no memory: once it is not reset any more, it launches an            *)
(* instruction again and again, whatever the last reset cut off.  In       *)
(* particular the timeout ends the wait for an answer that never comes,    *)
(* and no prefetch or access waits for a transfer that was not started.    *)
Progress ==
    <>[]resetn =>
        []<>( \/ cpu_state = "fetch" /\ decoder_trigger
              \/ cpu_state = "trap"
              \/ mem_valid /\ mem_addr \notin DOMAIN mem )
=============================================================================

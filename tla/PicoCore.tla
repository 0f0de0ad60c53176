------------------------------ MODULE PicoCore ------------------------------
(***************************************************************************)
(* The PicoRV32 core (picorv32.v), one step per clock edge: the native     *)
(* memory interface with its prefetch, the two decoder stages, the         *)
(* register file port, the PCPI timeout and the main state machine.        *)
(* Verilog's register names are kept.  The constants are the parameters    *)
(* of the Verilog module; those not listed have the values of the SoC:     *)
(* traps on misaligned accesses and illegal instructions, no interrupts,   *)
(* no compressed instructions, no trace.                                   *)
(*                                                                         *)
(* What a Verilog assignment of 'bx leaves in a register is the value X:   *)
(* no module that reads it as a number can be evaluated.                   *)
(***************************************************************************)
EXTENDS PicoData

CONSTANTS
    X,                      \* the undefined value
    WITH_PCPI,              \* ENABLE_PCPI: foreign instructions go to PCPI
    ENABLE_REGS_DUALPORT, BARREL_SHIFTER, TWO_STAGE_SHIFT,
    TWO_CYCLE_ALU, TWO_CYCLE_COMPARE,
    TimeoutMax              \* reload value of the PCPI timeout, 15

VARIABLES
    \* inputs
    resetn, mem_ready, mem_rdata, pcpi_int_wait, pcpi_int_ready,
    pcpi_int_wr, pcpi_int_rd,
    \* memory interface
    mem_state, mem_valid, mem_instr, mem_addr, mem_wdata, mem_wstrb,
    mem_wordsize, mem_rdata_q,
    mem_do_prefetch, mem_do_rinst, mem_do_rdata, mem_do_wdata,
    \* decoder: the words the first and the second stage last decoded
    insn1, insn2, is_lui_auipc_jal, is_lbu_lhu_lw,
    decoder_trigger, decoder_pseudo_trigger,
    \* main state machine
    cpu_state, trap, reg_pc, reg_next_pc, reg_op1, reg_op2, reg_out, reg_sh,
    latched_store, latched_stalu, latched_branch, latched_rd,
    latched_is,     \* which of latched_is_lu, latched_is_lh, latched_is_lb
    alu_res, alu_eq_r, alu_out_q, alu_out_0_q, alu_wait, alu_wait_2,
    cpuregs,
    \* co-processor port
    pcpi_valid, pcpi_timeout_counter, pcpi_timeout

inputs == <<resetn, mem_ready, mem_rdata,
            pcpi_int_wait, pcpi_int_ready, pcpi_int_wr, pcpi_int_rd>>
memRegs == <<mem_state, mem_valid, mem_instr, mem_addr, mem_wdata, mem_wstrb>>
memDo == <<mem_do_prefetch, mem_do_rinst, mem_do_rdata, mem_do_wdata>>
decodeRegs == <<mem_rdata_q, insn1, insn2, is_lui_auipc_jal, is_lbu_lhu_lw>>
triggers == <<decoder_trigger, decoder_pseudo_trigger>>
latches == <<latched_store, latched_stalu, latched_branch, latched_rd>>
pcs == <<reg_pc, reg_next_pc>>
aluRegs == <<alu_res, alu_eq_r, alu_out_q, alu_out_0_q>>
aluWaits == <<alu_wait, alu_wait_2>>
timer == <<pcpi_timeout_counter, pcpi_timeout>>
mainRegs == <<cpu_state, trap, pcs, reg_op1, reg_op2, reg_out, reg_sh, latches,
              latched_is,
              aluWaits, pcpi_valid, mem_wordsize, memDo, triggers>>
coreVars == <<memRegs, decodeRegs, mainRegs, aluRegs, cpuregs, timer>>

CpuStates == {"trap", "fetch", "ld_rs1", "ld_rs2", "exec", "shift", "stmem",
              "ldmem"}

-----------------------------------------------------------------------------
(* Memory interface, combinational part.                                   *)

next_pc == IF latched_store /\ latched_branch THEN ClearBit0(reg_out)
                                              ELSE reg_next_pc

mem_xfer == mem_valid /\ mem_ready

mem_done ==
    /\ resetn
    /\ \/ mem_xfer /\ mem_state # 0
          /\ (mem_do_rinst \/ mem_do_rdata \/ mem_do_wdata)
       \/ mem_state = 3 /\ mem_do_rinst

mem_la_write == resetn /\ mem_state = 0 /\ mem_do_wdata
mem_la_read ==
    resetn /\ mem_state = 0 /\ (mem_do_rinst \/ mem_do_prefetch \/ mem_do_rdata)
mem_la_addr ==
    IF mem_do_prefetch \/ mem_do_rinst THEN Align(next_pc) ELSE Align(reg_op1)

mem_rdata_latched == IF mem_xfer THEN mem_rdata ELSE mem_rdata_q

-----------------------------------------------------------------------------
(* Memory interface, the state machine: 0 idle, 1 reading, 2 writing,      *)
(* 3 holding a prefetched word nobody has asked for yet.                   *)

\* Mutant: a trap withdraws the transfer in progress.
MemHaltedDrops ==
    /\ ~resetn \/ trap
    /\ mem_state' = IF resetn THEN mem_state ELSE 0
    /\ mem_valid' = FALSE
    /\ UNCHANGED <<mem_instr, mem_addr, mem_wdata, mem_wstrb>>

MemHalted ==
    /\ ~resetn \/ trap
    /\ mem_state' = IF resetn THEN mem_state ELSE 0
    /\ mem_valid' = (mem_valid /\ resetn /\ ~mem_ready)
    /\ UNCHANGED <<mem_instr, mem_addr, mem_wdata, mem_wstrb>>

MemIdle ==
    /\ mem_state = 0 /\ ~mem_la_read /\ ~mem_la_write
    /\ UNCHANGED memRegs

MemStartRead ==
    /\ mem_state = 0 /\ mem_la_read /\ ~mem_la_write
    /\ mem_state' = 1 /\ mem_valid' = TRUE
    /\ mem_instr' = (mem_do_prefetch \/ mem_do_rinst)
    /\ mem_addr' = mem_la_addr
    /\ mem_wstrb' = {}
    /\ UNCHANGED mem_wdata

MemStartWrite ==
    /\ mem_state = 0 /\ mem_la_write
    /\ mem_state' = 2 /\ mem_valid' = TRUE
    /\ mem_instr' = FALSE
    /\ mem_addr' = mem_la_addr
    /\ mem_wstrb' = Strobe(reg_op1, mem_wordsize)
    /\ mem_wdata' = Replicated(reg_op2, mem_wordsize)

MemWait ==
    /\ mem_state \in {1, 2} /\ ~mem_xfer
    /\ UNCHANGED memRegs

\* Mutant: a finished load is taken for a prefetch.
MemReadDoneKeepsLoad ==
    /\ mem_state = 1 /\ mem_xfer
    /\ mem_valid' = FALSE
    /\ mem_state' = IF mem_do_rinst THEN 0 ELSE 3
    /\ UNCHANGED <<mem_instr, mem_addr, mem_wdata, mem_wstrb>>

MemReadDone ==
    /\ mem_state = 1 /\ mem_xfer
    /\ mem_valid' = FALSE
    /\ mem_state' = IF mem_do_rinst \/ mem_do_rdata THEN 0 ELSE 3
    /\ UNCHANGED <<mem_instr, mem_addr, mem_wdata, mem_wstrb>>

MemWriteDone ==
    /\ mem_state = 2 /\ mem_xfer
    /\ mem_valid' = FALSE
    /\ mem_state' = 0
    /\ UNCHANGED <<mem_instr, mem_addr, mem_wdata, mem_wstrb>>

MemPrefetched ==
    /\ mem_state = 3
    /\ mem_state' = IF mem_do_rinst THEN 0 ELSE 3
    /\ UNCHANGED <<mem_valid, mem_instr, mem_addr, mem_wdata, mem_wstrb>>

MemoryInterface ==
    \/ MemHalted
    \/ /\ resetn /\ ~trap
       /\ \/ MemIdle \/ MemStartRead \/ MemStartWrite \/ MemWait
          \/ MemReadDone \/ MemWriteDone \/ MemPrefetched

-----------------------------------------------------------------------------
(* Decoder.  The first stage works on the word as it arrives, the second   *)
(* one edge later on the copy in mem_rdata_q.  The pseudo trigger that     *)
(* ends a load or a store starts an instruction that went through both     *)
(* stages before; mem_rdata_q holds data by then.                          *)

\* Mutant: the second stage does not know of pseudo triggers.
SecondStageAlways == decoder_trigger

SecondStage == decoder_trigger /\ ~decoder_pseudo_trigger

\* The reset takes some classes of instructions out of the stages.
Cleared(word, classes) ==
    IF ~resetn /\ word.op \in classes THEN [word EXCEPT !.op = "data"] ELSE word

Decoder ==
    /\ mem_rdata_q' = IF mem_xfer THEN mem_rdata ELSE mem_rdata_q
    /\ insn1' = Cleared(IF mem_do_rinst /\ mem_done THEN mem_rdata_latched
                                                   ELSE insn1,
                        Branches)
    /\ insn2' = Cleared(IF SecondStage THEN mem_rdata_q ELSE insn2,
                        Branches \cup {"addi"} \cup ShiftReg \cup RegReg)
    /\ is_lui_auipc_jal' = (insn1.op \in Upper \cup {"jal"})
    /\ is_lbu_lhu_lw' = (insn2.op \in UnsignedLoads)

-----------------------------------------------------------------------------
(* Main state machine, combinational part.                                 *)

instr_trap ==
    ~(insn1.op \in Upper \cup {"jal", "jalr"}
      \/ insn2.op \in Native \ (Upper \cup {"jal", "jalr"}))

ReadReg(r) == IF r = 0 THEN 0 ELSE cpuregs[r]
cpuregs_rs1 == ReadReg(insn1.rs1)
cpuregs_rs2 == ReadReg(insn1.rs2)

AddSubShift ==
    IF X \in {reg_op1, reg_op2} THEN X
    ELSE IF insn2.op = "sub" THEN Minus(reg_op1, reg_op2)
    ELSE IF insn2.op \in ShiftImm \cup ShiftReg
         THEN ShiftLeft(reg_op1, reg_op2 % Width)
    ELSE Plus(reg_op1, reg_op2)

alu_out ==
    IF \/ insn2.op \in Upper \cup Immediates \cup {"jal", "add", "sub"}
       \/ BARREL_SHIFTER /\ insn2.op \in ShiftImm \cup ShiftReg
    THEN IF TWO_CYCLE_ALU THEN alu_res ELSE AddSubShift
    ELSE X

alu_eq == IF TWO_CYCLE_ALU THEN alu_eq_r ELSE reg_op1 = reg_op2
alu_out_0 == IF insn2.op = "beq" THEN alu_eq ELSE ~alu_eq

Alu ==
    /\ alu_res' = AddSubShift
    /\ alu_eq_r' = (reg_op1 = reg_op2)
    /\ alu_out_q' = alu_out
    /\ alu_out_0_q' = alu_out_0

\* Where execution goes on; what next_pc is on most edges, but not on all.
current_pc ==
    IF latched_branch /\ latched_store
    THEN ClearBit0(IF latched_stalu THEN alu_out_q ELSE reg_out)
    ELSE reg_next_pc

\* The register write of the fetch state.
cpuregs_write ==
    cpu_state = "fetch" /\ (latched_branch \/ latched_store) /\ latched_rd # 0
cpuregs_wrdata == IF latched_branch THEN Plus(reg_pc, 4)
                  ELSE IF latched_stalu THEN alu_out_q ELSE reg_out
cpuregs_next == IF cpuregs_write
                THEN [cpuregs EXCEPT ![latched_rd] = cpuregs_wrdata]
                ELSE cpuregs

RegisterFile == cpuregs' = IF resetn THEN cpuregs_next ELSE cpuregs

\* Mutant: the timer runs although the coprocessor asks to wait.
PcpiTimerImpatient ==
    IF ~WITH_PCPI THEN UNCHANGED timer
    ELSE /\ pcpi_timeout_counter' =
              IF resetn /\ pcpi_valid
              THEN IF pcpi_timeout_counter > 0 THEN pcpi_timeout_counter - 1
                                               ELSE 0
              ELSE TimeoutMax
         /\ pcpi_timeout' = (resetn /\ pcpi_timeout_counter = 0)

\* Mutant: the count stops one short of its end.
PcpiTimerStuck ==
    IF ~WITH_PCPI THEN UNCHANGED timer
    ELSE /\ pcpi_timeout_counter' =
              IF resetn /\ pcpi_valid /\ ~pcpi_int_wait
              THEN IF pcpi_timeout_counter > 1 THEN pcpi_timeout_counter - 1
                                               ELSE 1
              ELSE TimeoutMax
         /\ pcpi_timeout' = (resetn /\ pcpi_timeout_counter = 0)

\* The timeout of a foreign instruction nobody waits for.
PcpiTimer ==
    IF ~WITH_PCPI THEN UNCHANGED timer
    ELSE /\ pcpi_timeout_counter' =
              IF resetn /\ pcpi_valid /\ ~pcpi_int_wait
              THEN IF pcpi_timeout_counter > 0 THEN pcpi_timeout_counter - 1
                                               ELSE 0
              ELSE TimeoutMax
         /\ pcpi_timeout' = (resetn /\ pcpi_timeout_counter = 0)

-----------------------------------------------------------------------------
(* The overrides at the end of the always block.                           *)

\* A misaligned access or instruction address: the core traps.
misaligned ==
    \/ (mem_do_rdata \/ mem_do_wdata) /\ Misaligned(reg_op1, mem_wordsize)
    \/ mem_do_rinst /\ reg_pc % 4 # 0

GoTo(s) == cpu_state' = IF misaligned THEN "trap" ELSE s

\* mem_done clears all requests; the set_mem_do_* requests come after it.
MemDo(prefetch, rinst, setr, setd, setw) ==
    /\ mem_do_prefetch' = (prefetch /\ ~mem_done)
    /\ mem_do_rinst' = ((rinst /\ ~mem_done) \/ setr)
    /\ mem_do_rdata' = ((mem_do_rdata /\ ~mem_done) \/ setd)
    /\ mem_do_wdata' = ((mem_do_wdata /\ ~mem_done) \/ setw)

KeepMemDo == MemDo(mem_do_prefetch, mem_do_rinst, FALSE, FALSE, FALSE)
AskInsn == MemDo(mem_do_prefetch, TRUE, FALSE, FALSE, FALSE)
\* mem_do_rinst <= mem_do_prefetch: the prefetched word is wanted now.
AskPrefetched ==
    MemDo(mem_do_prefetch, mem_do_prefetch, FALSE, FALSE, FALSE)

\* decoder_trigger unless the state overrides it
Trigger ==
    /\ decoder_trigger' = (mem_do_rinst /\ mem_done)
    /\ decoder_pseudo_trigger' = FALSE

NoAluWait == alu_wait' = FALSE /\ alu_wait_2' = FALSE

-----------------------------------------------------------------------------
(* Reset and trap.                                                         *)

Reset ==
    /\ ~resetn
    /\ cpu_state' = "fetch" /\ trap' = FALSE
    /\ reg_pc' = 0 /\ reg_next_pc' = 0
    /\ latched_store' = TRUE /\ latched_rd' = 2 /\ reg_out' = STACKADDR
    /\ latched_stalu' = FALSE /\ latched_branch' = FALSE
    /\ latched_is' = {}
    /\ pcpi_valid' = FALSE
    /\ reg_sh' = X /\ NoAluWait
    /\ mem_do_prefetch' = FALSE /\ mem_do_rinst' = FALSE
    /\ mem_do_rdata' = FALSE /\ mem_do_wdata' = FALSE
    /\ Trigger
    /\ UNCHANGED <<reg_op1, reg_op2, mem_wordsize>>

Trapped ==
    /\ cpu_state = "trap"
    /\ trap' = TRUE
    /\ GoTo("trap")
    /\ KeepMemDo /\ Trigger
    /\ reg_out' = X /\ reg_sh' = X /\ NoAluWait
    /\ UNCHANGED <<pcs, reg_op1, reg_op2, latches, latched_is, pcpi_valid,
                   mem_wordsize>>

-----------------------------------------------------------------------------
(* cpu_state_fetch: results of the last instruction are written back and   *)
(* the next one is launched when it is decoded.                            *)

Fetch ==
    /\ cpu_state = "fetch"
    /\ trap' = FALSE
    /\ mem_wordsize' = 0
    /\ reg_pc' = current_pc
    /\ latched_store' = FALSE /\ latched_stalu' = FALSE
    /\ latched_is' = {}
    /\ latched_rd' = insn1.rd
    /\ reg_out' = X /\ reg_sh' = X /\ NoAluWait
    /\ Trigger
    /\ UNCHANGED <<reg_op1, reg_op2, pcpi_valid>>

FetchWait ==
    /\ Fetch /\ ~decoder_trigger
    /\ reg_next_pc' = current_pc
    /\ latched_branch' = FALSE
    /\ AskInsn
    /\ GoTo("fetch")

LaunchJal ==
    /\ Fetch /\ decoder_trigger /\ insn1.op = "jal"
    /\ reg_next_pc' = Plus(current_pc, insn1.imm)
    /\ latched_branch' = TRUE
    /\ AskInsn
    /\ GoTo("fetch")

\* Everything else prefetches, but for jalr.
PrefetchAlways == TRUE  \* mutant

PrefetchAfterLaunch == insn1.op # "jalr"

Launch ==
    /\ Fetch /\ decoder_trigger /\ insn1.op # "jal"
    /\ reg_next_pc' = Plus(current_pc, 4)
    /\ latched_branch' = FALSE
    /\ MemDo(PrefetchAfterLaunch, FALSE, FALSE, FALSE, FALSE)
    /\ GoTo("ld_rs1")

-----------------------------------------------------------------------------
(* cpu_state_ld_rs1 and cpu_state_ld_rs2.                                  *)

Operand ==
    trap' = FALSE /\ Trigger /\ UNCHANGED <<pcs, latched_is, mem_wordsize>>

LoadRs1 == cpu_state = "ld_rs1" /\ Operand

\* The second operand is there: both ports are read at once, or it is the
\* turn of the single one.
BothOperands ==
    /\ Operand
    /\ cpu_state = IF ENABLE_REGS_DUALPORT THEN "ld_rs1" ELSE "ld_rs2"
    /\ reg_op1' = IF ENABLE_REGS_DUALPORT THEN cpuregs_rs1 ELSE reg_op1
    /\ reg_op2' = cpuregs_rs2
    /\ reg_sh' = cpuregs_rs2 % Width

Foreigner == WITH_PCPI /\ instr_trap /\ BothOperands /\ NoAluWait
             /\ UNCHANGED <<latched_stalu, latched_branch, latched_rd>>

\* Mutant: the request stays up for one more cycle after the answer.
PcpiAnsweredLate ==
    /\ Foreigner /\ pcpi_int_ready
    /\ pcpi_valid' = TRUE
    /\ reg_out' = pcpi_int_rd
    /\ latched_store' = pcpi_int_wr
    /\ AskInsn
    /\ GoTo("fetch")

PcpiAnswered ==
    /\ Foreigner /\ pcpi_int_ready
    /\ pcpi_valid' = FALSE
    /\ reg_out' = pcpi_int_rd
    /\ latched_store' = pcpi_int_wr
    /\ AskInsn
    /\ GoTo("fetch")

PcpiRefused ==
    /\ Foreigner /\ ~pcpi_int_ready /\ (pcpi_timeout \/ insn2.op = "ebreak")
    /\ pcpi_valid' = FALSE
    /\ reg_out' = X
    /\ KeepMemDo
    /\ GoTo("trap")
    /\ UNCHANGED latched_store

PcpiPending ==
    /\ Foreigner /\ ~pcpi_int_ready /\ ~(pcpi_timeout \/ insn2.op = "ebreak")
    /\ pcpi_valid' = TRUE
    /\ reg_out' = X
    /\ KeepMemDo
    /\ GoTo(cpu_state)
    /\ UNCHANGED latched_store

IllegalInsn ==
    /\ LoadRs1 /\ instr_trap /\ ~WITH_PCPI
    /\ reg_op1' = X /\ reg_op2' = X /\ reg_out' = X /\ reg_sh' = X /\ NoAluWait
    /\ KeepMemDo
    /\ GoTo("trap")
    /\ UNCHANGED <<latches, pcpi_valid>>

\* A single read port: the second operand takes another cycle.
OneOperand ==
    /\ LoadRs1 /\ ~ENABLE_REGS_DUALPORT
    /\ \/ instr_trap /\ WITH_PCPI
       \/ ~instr_trap /\ insn2.op \in Branches \cup Stores \cup ShiftReg \cup RegReg
    /\ reg_op1' = cpuregs_rs1
    /\ reg_op2' = X /\ reg_out' = X /\ reg_sh' = X /\ NoAluWait
    /\ KeepMemDo
    /\ GoTo("ld_rs2")
    /\ UNCHANGED <<latches, pcpi_valid>>

\* With a registered ALU the request for the next word waits too.
\* Mutant: only a registered ALU waits, not a registered comparison.
StartExecEarly(waits2) ==
    /\ GoTo("exec")
    /\ alu_wait_2' = FALSE
    /\ IF TWO_CYCLE_ALU
       THEN alu_wait' = TRUE /\ KeepMemDo
       ELSE alu_wait' = FALSE /\ AskPrefetched

StartExec(waits2) ==
    /\ GoTo("exec")
    /\ alu_wait_2' = waits2
    /\ IF TWO_CYCLE_ALU \/ (TWO_CYCLE_COMPARE /\ insn1.op \in Branches)
       THEN alu_wait' = TRUE /\ KeepMemDo
       ELSE alu_wait' = FALSE /\ AskPrefetched

UpperOperands ==
    /\ LoadRs1 /\ ~instr_trap /\ is_lui_auipc_jal
    /\ reg_op1' = IF insn1.op = "lui" THEN 0 ELSE reg_pc
    /\ reg_op2' = insn2.imm
    /\ reg_out' = X /\ reg_sh' = X
    /\ StartExec(FALSE)
    /\ UNCHANGED <<latches, pcpi_valid>>

ImmediateOperands ==
    /\ LoadRs1 /\ ~instr_trap
    /\ \/ insn2.op \in Immediates
       \/ insn2.op \in ShiftImm /\ BARREL_SHIFTER
    /\ reg_op1' = cpuregs_rs1
    /\ reg_op2' = IF insn2.op \in ShiftImm THEN insn1.rs2 ELSE insn2.imm
    /\ reg_out' = X /\ reg_sh' = X
    /\ StartExec(FALSE)
    /\ UNCHANGED <<latches, pcpi_valid>>

ShiftImmOperands ==
    /\ LoadRs1 /\ ~instr_trap /\ insn2.op \in ShiftImm /\ ~BARREL_SHIFTER
    /\ reg_op1' = cpuregs_rs1
    /\ reg_sh' = insn1.rs2 % Width
    /\ reg_op2' = X /\ reg_out' = X /\ NoAluWait
    /\ KeepMemDo
    /\ GoTo("shift")
    /\ UNCHANGED <<latches, pcpi_valid>>

LoadOperands ==
    /\ LoadRs1 /\ ~instr_trap /\ insn1.op \in Loads
    /\ reg_op1' = cpuregs_rs1
    /\ reg_op2' = X /\ reg_out' = X /\ reg_sh' = X /\ NoAluWait
    /\ AskInsn
    /\ GoTo("ldmem")
    /\ UNCHANGED <<latches, pcpi_valid>>

NativeOperands ==
    /\ BothOperands /\ ~instr_trap
    /\ insn2.op \in Branches \cup Stores \cup ShiftReg \cup RegReg
    /\ reg_out' = X
    /\ UNCHANGED <<latches, pcpi_valid>>

StoreOperands ==
    /\ NativeOperands /\ insn1.op \in Stores
    /\ AskInsn /\ NoAluWait
    /\ GoTo("stmem")

ShiftRegOperands ==
    /\ NativeOperands /\ insn2.op \in ShiftReg /\ ~BARREL_SHIFTER
    /\ KeepMemDo /\ NoAluWait
    /\ GoTo("shift")

RegisterOperands ==
    /\ NativeOperands /\ insn1.op \notin Stores
    /\ insn2.op \notin ShiftReg \/ BARREL_SHIFTER
    /\ StartExec(TWO_CYCLE_ALU /\ TWO_CYCLE_COMPARE /\ insn1.op \in Branches)

LdRs ==
    \/ PcpiAnswered \/ PcpiRefused \/ PcpiPending \/ IllegalInsn \/ OneOperand
    \/ UpperOperands \/ ImmediateOperands \/ ShiftImmOperands \/ LoadOperands
    \/ StoreOperands \/ ShiftRegOperands \/ RegisterOperands

-----------------------------------------------------------------------------
(* cpu_state_exec.                                                         *)

Exec ==
    /\ cpu_state = "exec"
    /\ trap' = FALSE
    /\ reg_out' = Plus(reg_pc, insn2.imm)
    /\ reg_sh' = X
    /\ UNCHANGED <<pcs, reg_op1, reg_op2, latched_is, pcpi_valid, mem_wordsize>>

ExecWait ==
    /\ Exec /\ (TWO_CYCLE_ALU \/ TWO_CYCLE_COMPARE) /\ (alu_wait \/ alu_wait_2)
    /\ MemDo(mem_do_prefetch, mem_do_prefetch /\ ~alu_wait_2, FALSE, FALSE, FALSE)
    /\ alu_wait' = alu_wait_2 /\ alu_wait_2' = FALSE
    /\ Trigger
    /\ GoTo("exec")
    /\ UNCHANGED latches

ExecNow ==
    Exec /\ NoAluWait
    /\ ~((TWO_CYCLE_ALU \/ TWO_CYCLE_COMPARE) /\ (alu_wait \/ alu_wait_2))

taken == IF TWO_CYCLE_COMPARE THEN alu_out_0_q ELSE alu_out_0

\* A branch stays until the prefetched word has come; a taken one drops it.
ExecBranch ==
    /\ ExecNow /\ insn1.op \in Branches
    /\ latched_rd' = 0
    /\ latched_store' = taken /\ latched_branch' = taken
    /\ MemDo(mem_do_prefetch, mem_do_rinst, taken, FALSE, FALSE)
    /\ decoder_trigger' = (mem_do_rinst /\ mem_done /\ ~taken)
    /\ decoder_pseudo_trigger' = FALSE
    /\ GoTo(IF mem_done THEN "fetch" ELSE "exec")
    /\ UNCHANGED latched_stalu

ExecAlu ==
    /\ ExecNow /\ insn1.op \notin Branches
    /\ latched_branch' = (insn1.op = "jalr")
    /\ latched_store' = TRUE /\ latched_stalu' = TRUE
    /\ KeepMemDo /\ Trigger
    /\ GoTo("fetch")
    /\ UNCHANGED latched_rd

-----------------------------------------------------------------------------
(* cpu_state_shift: the serial shifter.  reg_sh is as wide as a shift       *)
(* amount.                                                                 *)

Shift ==
    /\ cpu_state = "shift"
    /\ trap' = FALSE
    /\ latched_store' = TRUE
    /\ NoAluWait /\ Trigger
    /\ UNCHANGED <<pcs, reg_op2, latched_stalu, latched_branch, latched_rd,
                   latched_is, pcpi_valid, mem_wordsize>>

ShiftDone ==
    /\ Shift /\ reg_sh = 0
    /\ reg_out' = reg_op1
    /\ reg_sh' = X
    /\ AskPrefetched
    /\ GoTo("fetch")
    /\ UNCHANGED reg_op1

ShiftStep ==
    LET n == IF TWO_STAGE_SHIFT /\ reg_sh >= 4 THEN 4 ELSE 1
    IN  /\ Shift /\ reg_sh > 0
        /\ reg_op1' = ShiftLeft(reg_op1, n)
        /\ reg_sh' = reg_sh - n
        /\ reg_out' = X
        /\ KeepMemDo
        /\ GoTo("shift")

-----------------------------------------------------------------------------
(* cpu_state_stmem and cpu_state_ldmem: wait for the prefetch, make the    *)
(* access, then start the instruction that was fetched before it.          *)

PrefetchIn == ~mem_do_prefetch \/ mem_done
AccessDone == ~mem_do_prefetch /\ mem_done

\* The edge on which the data access is requested is the one on which the
\* effective address and the size are computed.
Access(request) ==
    /\ trap' = FALSE
    /\ mem_wordsize' = IF request THEN Size(insn2.op) ELSE mem_wordsize
    /\ reg_op1' = IF request THEN Plus(reg_op1, insn2.imm) ELSE reg_op1
    /\ decoder_trigger' = (AccessDone \/ (mem_do_rinst /\ mem_done))
    /\ decoder_pseudo_trigger' = AccessDone
    /\ reg_sh' = X /\ NoAluWait
    /\ UNCHANGED <<pcs, reg_op2, latched_stalu, latched_branch, latched_rd,
                   pcpi_valid>>

StMem ==
    LET request == PrefetchIn /\ ~mem_do_wdata
    IN  /\ cpu_state = "stmem"
        /\ Access(request)
        /\ MemDo(mem_do_prefetch, mem_do_rinst, FALSE, FALSE, request)
        /\ reg_out' = X
        /\ GoTo(IF AccessDone THEN "fetch" ELSE "stmem")
        /\ UNCHANGED <<latched_store, latched_is>>

\* What a load puts in its register.
LoadResult ==
    LET mem_rdata_word == Selected(mem_rdata.imm, reg_op1, mem_wordsize)
    IN  CASE "lu" \in latched_is -> mem_rdata_word
          [] "lh" \in latched_is -> SignExtended(mem_rdata_word, Base * Base)
          [] "lb" \in latched_is -> SignExtended(mem_rdata_word, Base)

LdMem ==
    LET request == PrefetchIn /\ ~mem_do_rdata
    IN  /\ cpu_state = "ldmem"
        /\ Access(request)
        /\ MemDo(mem_do_prefetch, mem_do_rinst, FALSE, request, FALSE)
        /\ latched_is' =
              IF request
              THEN (IF is_lbu_lhu_lw THEN {"lu"} ELSE {})
                   \cup ({insn2.op} \cap {"lh", "lb"})
              ELSE latched_is
        /\ reg_out' = IF AccessDone THEN LoadResult ELSE X
        /\ GoTo(IF AccessDone THEN "fetch" ELSE "ldmem")
        /\ latched_store' = TRUE

-----------------------------------------------------------------------------
Main ==
    \/ Reset
    \/ /\ resetn
       /\ \/ Trapped \/ FetchWait \/ LaunchJal \/ Launch \/ LdRs
          \/ ExecWait \/ ExecBranch \/ ExecAlu
          \/ ShiftDone \/ ShiftStep \/ StMem \/ LdMem

\* One clock edge.
Edge ==
    /\ MemoryInterface /\ Decoder /\ Alu /\ RegisterFile /\ PcpiTimer /\ Main

\* Power-up: the first edge comes with the reset on.  The registers hold
\* anything; of them the ones that decide what that edge does are varied.
PowerUp ==
    /\ mem_state \in 0 .. 3 /\ mem_valid \in BOOLEAN /\ mem_instr = FALSE
    /\ mem_addr = 0 /\ mem_wdata = Split(0) /\ mem_wstrb = {}
    /\ mem_wordsize = 0 /\ mem_rdata_q = DataWord(0)
    /\ mem_do_prefetch = mem_valid /\ mem_do_rinst = FALSE
    /\ mem_do_rdata = FALSE /\ mem_do_wdata = FALSE
    /\ insn1 = DataWord(0) /\ insn2 = DataWord(0)
    /\ is_lui_auipc_jal = FALSE /\ is_lbu_lhu_lw = FALSE
    /\ decoder_trigger = FALSE /\ decoder_pseudo_trigger = FALSE
    /\ cpu_state \in {"trap", "fetch"} /\ trap = (cpu_state = "trap")
    /\ reg_pc = 0 /\ reg_next_pc = 0
    /\ reg_op1 = X /\ reg_op2 = X /\ reg_out = X /\ reg_sh = X
    /\ latched_store = FALSE /\ latched_stalu = FALSE
    /\ latched_branch = FALSE /\ latched_rd = 0 /\ latched_is = {}
    /\ alu_res = X /\ alu_eq_r = FALSE /\ alu_out_q = X /\ alu_out_0_q = FALSE
    /\ alu_wait = FALSE /\ alu_wait_2 = FALSE
    /\ cpuregs = [r \in Regs |-> 0]
    /\ pcpi_valid = FALSE
    /\ pcpi_timeout_counter = TimeoutMax /\ pcpi_timeout = FALSE
=============================================================================

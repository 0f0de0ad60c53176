------------------------------ MODULE PicoData ------------------------------
(***************************************************************************)
(* The data the CPU model and the instruction-set model share: values,     *)
(* addresses, byte lanes of a memory word, and instruction words.          *)
(*                                                                         *)
(* A register holds a Value, a word of four byte lanes in base Base (256   *)
(* in the hardware).  An address is a Value too; the words of memory are   *)
(* at the multiples of four.  An instruction word is a record of its       *)
(* fields; a word that was stored as data decodes to no instruction.       *)
(***************************************************************************)
EXTENDS Integers

CONSTANTS
    Base,       \* values of a byte lane, a power of two
    Width,      \* bits of a register
    Regs,       \* the registers: 0 (always zero), 1, 2 (stack pointer), ...
    STACKADDR   \* parameter of the core: value of register 2 out of reset

ASSUME BaseAssumption == Base \in Nat \ {0, 1} /\ Base % 2 = 0
ASSUME WidthAssumption == Width \in Nat \ {0}
ASSUME RegsAssumption == {0, 2} \subseteq Regs /\ Regs \subseteq Nat

V == Base * Base * Base * Base
Value == 0 .. V - 1
ASSUME StackAssumption == STACKADDR \in Value

LaneNo == 0 .. 3
Scale == [l \in LaneNo |-> CASE l = 0 -> 1
                             [] l = 1 -> Base
                             [] l = 2 -> Base * Base
                             [] l = 3 -> Base * Base * Base]

\* Split a value in its byte lanes and put lanes together.
Split(v) == [l \in LaneNo |-> (v \div Scale[l]) % Base]
Join(w) == w[0] + w[1] * Base + w[2] * Base * Base + w[3] * Base * Base * Base

-----------------------------------------------------------------------------
(* Instructions, one operation for each way the core treats them.          *)

Upper == {"lui", "auipc"}
Branches == {"beq", "bne"}
UnsignedLoads == {"lbu", "lhu", "lw"}
Loads == UnsignedLoads \cup {"lb", "lh"}
Stores == {"sb", "sh", "sw"}
ShiftImm == {"slli"}
Immediates == {"jalr", "addi"}
ShiftReg == {"sll"}
RegReg == {"add", "sub", "fence"}
Native == Upper \cup {"jal"} \cup Branches \cup Loads \cup Stores \cup ShiftImm
          \cup Immediates \cup ShiftReg \cup RegReg

\* Words the core itself does not implement.  "xpix" has its funct3 in imm;
\* "custom" belongs to nobody; "data" is a word written by a store.
Foreign == {"xpix", "ebreak", "custom", "data"}

Instr(o, d, s1, s2, n) ==
    [op |-> o, rd |-> d, rs1 |-> s1, rs2 |-> s2, imm |-> n]
DataWord(v) == Instr("data", 0, 0, 0, v)
MemWord == [op : Native \cup Foreign, rd : Regs, rs1 : Regs, rs2 : Regs,
            imm : Value]
\* A fence is encoded without a destination; the core would write to one.
Fences == [op : {"fence"}, rd : Regs \ {0}, rs1 : Regs, rs2 : Regs, imm : Value]
CodeWord == MemWord \ Fences

-----------------------------------------------------------------------------
(* Addresses and partial words.  A size is that of mem_wordsize: 0 for a   *)
(* word, 1 for a half word, 2 for a byte.                                  *)

Align(v) == v - (v % 4)
ClearBit0(v) == v - (v % 2)
Plus(v, w) == (v + w) % V
Minus(v, w) == (v - w) % V
ShiftLeft(v, n) == (v * 2 ^ n) % V

Size(o) == CASE o \in {"lw", "sw"} -> 0
             [] o \in {"lh", "lhu", "sh"} -> 1
             [] o \in {"lb", "lbu", "sb"} -> 2

Misaligned(v, size) ==
    \/ size = 0 /\ v % 4 # 0
    \/ size = 1 /\ v % 2 # 0

\* mem_la_wstrb: the lanes a store of this size at this address writes.
Strobe(v, size) ==
    CASE size = 0 -> LaneNo
      [] size = 1 -> IF v % 4 \in {2, 3} THEN {2, 3} ELSE {0, 1}
      [] size = 2 -> {v % 4}

\* mem_la_wdata: the low lanes of the register, replicated.
Replicated(v, size) ==
    LET w == Split(v)
    IN  CASE size = 0 -> w
          [] size = 1 -> [l \in LaneNo |-> w[l % 2]]
          [] size = 2 -> [l \in LaneNo |-> w[0]]

\* mem_rdata_word: the lanes a load of this size selects, zero-extended.
Selected(w, v, size) ==
    LET x == Split(w)
    IN  CASE size = 0 -> w
          [] size = 1 -> IF v % 4 \in {2, 3} THEN x[2] + x[3] * Base
                                             ELSE x[0] + x[1] * Base
          [] size = 2 -> x[v % 4]

\* $signed of a value below n, the power of two its bits make.
SignExtended(v, n) == IF v >= n \div 2 THEN Minus(v, n) ELSE v

\* What a word of memory holds after its strobed lanes are written.
Written(word, strobe, lanes) ==
    DataWord(Join([l \in LaneNo |-> IF l \in strobe THEN lanes[l]
                                                    ELSE Split(word.imm)[l]]))
=============================================================================

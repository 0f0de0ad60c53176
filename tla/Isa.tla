-------------------------------- MODULE Isa --------------------------------
(***************************************************************************)
(* What the core promises: one instruction after the other, each in one    *)
(* step, on a memory of bytes.  No prefetch, no decoder stages, no bus.    *)
(*                                                                         *)
(* Two things a programmer of this core has to know are part of the        *)
(* promise.  The next word is read before a store is made (ir), so a store *)
(* to the following instruction is seen only if it is executed again.  And *)
(* a misaligned store halts the core but its bytes may still reach the     *)
(* memory, at the address rounded down (late).                             *)
(***************************************************************************)
EXTENDS PicoData

CONSTANTS
    WITH_PCPI,  \* the XPix coprocessor is there
    NoWord      \* there is no memory at the address

VARIABLES pc, ir, regs, mem, halted, late

vars == <<pc, ir, regs, mem, halted, late>>

Lanes4 == INSTANCE XPixLanes WITH Top <- Base - 1, Lanes <- LaneNo

-----------------------------------------------------------------------------
FetchFrom(m, a) == IF Align(a) \in DOMAIN m THEN m[Align(a)] ELSE NoWord

Reg(r) == IF r = 0 THEN 0 ELSE regs[r]
SetReg(r, v) == IF r = 0 THEN regs ELSE [regs EXCEPT ![r] = v]

Bytes(o) == CASE Size(o) = 0 -> 4 [] Size(o) = 1 -> 2 [] Size(o) = 2 -> 1
Address == Plus(Reg(ir.rs1), ir.imm)
Power == [k \in 0 .. 3 |-> Scale[k]]

\* The byte at an address, and n of them as a little-endian number.
ByteAt(m, a) == Split(m[Align(a)].imm)[a % 4]
LoadBytes(m, a, n) ==
    Join([l \in LaneNo |-> IF l < n THEN ByteAt(m, a + l) ELSE 0])

\* lb and lh are signed.
LoadValue(o, v) ==
    IF o \in {"lb", "lh"} THEN SignExtended(v, Power[Bytes(o)]) ELSE v

NoBytes == [x \in {} |-> 0]
BytesOf(a, v, n) == [x \in a .. a + n - 1 |-> Split(v)[x - a]]
StoreBytes(m, bytes) ==
    [w \in DOMAIN m |->
        IF \E l \in LaneNo : w + l \in DOMAIN bytes
        THEN DataWord(Join([l \in LaneNo |->
                IF w + l \in DOMAIN bytes THEN bytes[w + l]
                                          ELSE Split(m[w].imm)[l]]))
        ELSE m[w]]

-----------------------------------------------------------------------------
\* Before the first reset nothing is known of the core.
Init ==
    /\ pc \in Value
    /\ halted \in BOOLEAN
    /\ late = NoBytes
    /\ regs \in [Regs -> Value]

Running == ~halted /\ pc % 4 = 0 /\ ir # NoWord

\* An instruction is over: go to the target, having read the word there.
Goto(target) ==
    /\ pc' = target
    /\ ir' = FetchFrom(mem, target)
    /\ UNCHANGED <<halted, late>>

Result(v) ==
    /\ regs' = SetReg(ir.rd, v)
    /\ Goto(Plus(pc, 4))
    /\ UNCHANGED mem

Compute ==
    /\ Running
    /\ \/ ir.op = "lui" /\ Result(ir.imm)
       \/ ir.op = "auipc" /\ Result(Plus(pc, ir.imm))
       \/ ir.op = "addi" /\ Result(Plus(Reg(ir.rs1), ir.imm))
       \/ ir.op = "slli" /\ Result(ShiftLeft(Reg(ir.rs1), ir.rs2 % Width))
       \/ ir.op = "sll"
          /\ Result(ShiftLeft(Reg(ir.rs1), Reg(ir.rs2) % Width))
       \/ ir.op = "add" /\ Result(Plus(Reg(ir.rs1), Reg(ir.rs2)))
       \/ ir.op = "sub" /\ Result(Minus(Reg(ir.rs1), Reg(ir.rs2)))

Fence ==
    /\ Running /\ ir.op = "fence"
    /\ Goto(Plus(pc, 4))
    /\ UNCHANGED <<regs, mem>>

Jump ==
    /\ Running
    /\ \/ ir.op = "jal" /\ Goto(Plus(pc, ir.imm))
       \/ ir.op = "jalr" /\ Goto(ClearBit0(Address))
    /\ regs' = SetReg(ir.rd, Plus(pc, 4))
    /\ UNCHANGED mem

Branch ==
    /\ Running /\ ir.op \in Branches
    /\ LET equal == Reg(ir.rs1) = Reg(ir.rs2)
       IN  Goto(IF equal <=> ir.op = "beq" THEN ClearBit0(Plus(pc, ir.imm))
                                           ELSE Plus(pc, 4))
    /\ UNCHANGED <<regs, mem>>

Load ==
    /\ Running /\ ir.op \in Loads
    /\ Address % Bytes(ir.op) = 0 /\ Align(Address) \in DOMAIN mem
    /\ Result(LoadValue(ir.op, LoadBytes(mem, Address, Bytes(ir.op))))

Stored ==
    /\ Running /\ ir.op \in Stores
    /\ Address % Bytes(ir.op) = 0 /\ Align(Address) \in DOMAIN mem
    /\ mem' = StoreBytes(mem, BytesOf(Address, Reg(ir.rs2), Bytes(ir.op)))

Store ==
    /\ Stored
    /\ Goto(Plus(pc, 4))
    /\ UNCHANGED regs

\* The pixel instructions, by the host's reference for them.
Pixel ==
    /\ Running /\ WITH_PCPI /\ ir.op = "xpix" /\ ir.imm <= 4
    /\ LET x == Split(Reg(ir.rs1))
           y == Split(Reg(ir.rs2))
       IN  Result(Join([l \in LaneNo |-> Lanes4!Golden(ir.imm, x[l], y[l], 0)]))

-----------------------------------------------------------------------------
Stop(bytes) ==
    /\ halted' = TRUE
    /\ ir' = NoWord
    /\ late' = bytes
    /\ UNCHANGED <<pc, regs, mem>>

\* ebreak, and a word that is no instruction of this machine.
Illegal ==
    /\ Running /\ ir.op \in Foreign
    /\ ~(WITH_PCPI /\ ir.op = "xpix" /\ ir.imm <= 4)
    /\ Stop(NoBytes)

MisalignedLoad ==
    /\ Running /\ ir.op \in Loads /\ Address % Bytes(ir.op) # 0
    /\ Stop(NoBytes)

MisalignedStore ==
    /\ Running /\ ir.op \in Stores /\ Address % Bytes(ir.op) # 0
    /\ LET n == Bytes(ir.op)
       IN  Stop(BytesOf(Address - (Address % n), Reg(ir.rs2), n))

MisalignedPc ==
    /\ ~halted /\ pc % 4 # 0
    /\ Stop(NoBytes)

\* The store of a halted core gets through.
LateWrite ==
    /\ halted /\ late # NoBytes
    /\ mem' = StoreBytes(mem, late)
    /\ late' = NoBytes
    /\ UNCHANGED <<pc, ir, regs, halted>>

\* The register file has no reset, but the one result on its way to it may
\* be lost.  A store that is cut may have been made.
Reset ==
    /\ \/ UNCHANGED mem
       \/ Stored
       \/ mem' = StoreBytes(mem, late)
    /\ pc' = 0
    /\ ir' = FetchFrom(mem', 0)
    /\ halted' = FALSE
    /\ late' = NoBytes
    /\ regs' \in [Regs -> Value] /\ regs'[2] = STACKADDR
    /\ \E lost \in Regs : \A r \in Regs \ {2, lost} : regs'[r] = regs[r]

Next ==
    \/ Compute \/ Fence \/ Jump \/ Branch \/ Load \/ Store \/ Pixel
    \/ Illegal \/ MisalignedLoad \/ MisalignedStore \/ MisalignedPc
    \/ LateWrite \/ Reset

Spec == Init /\ [][Next]_vars
=============================================================================

---------------------------- MODULE MCPicoSystem ----------------------------
(***************************************************************************)
(* PicoSystem with all small programs of a palette: three slots, an ebreak *)
(* and two words of data.  Addresses past the data have no memory.  No     *)
(* instruction of a palette adds to its own result, so what a register may *)
(* hold stays a small set through loops and resets.                        *)
(***************************************************************************)
EXTENDS PicoSystem, TLC

CONSTANT Mix    \* which palettes the programs are made of

MCRegs == {0, 1, 2, 5}

\* Jumps, branches both ways, links, and a target that is misaligned.
Control ==
    { Instr("addi", 1, 0, 0, 8), Instr("sub", 2, 1, 2, 0),
      Instr("jal", 1, 0, 0, 8), Instr("jalr", 1, 1, 0, 4),
      Instr("beq", 0, 1, 0, 8), Instr("bne", 0, 1, 2, 252),
      Instr("jal", 0, 0, 0, 2),
      Instr("lb", 1, 2, 0, 0) }

\* Accesses of every size, some of them misaligned, some to the program:
\* register 2 is 16 out of reset, and 2 or 0 after the byte load.
Accesses ==
    { Instr("lw", 1, 2, 0, 0), Instr("lh", 1, 2, 0, 2),
      Instr("lbu", 2, 2, 0, 1), Instr("sw", 0, 2, 2, 4),
      Instr("sh", 0, 0, 2, 10), Instr("sb", 0, 2, 1, 1),
      Instr("sw", 0, 0, 0, 8), Instr("jal", 0, 0, 0, 248) }

\* Pixel instructions, a shift, and words nobody implements.
Pixels ==
    { Instr("xpix", 1, 2, 1, 2), Instr("xpix", 1, 1, 2, 3),
      Instr("xpix", 2, 2, 1, 5), Instr("custom", 1, 2, 1, 0),
      Instr("auipc", 1, 0, 0, 4), Instr("sll", 1, 1, 2, 0),
      Instr("lui", 2, 0, 0, 7), Instr("fence", 0, 0, 0, 0),
      Instr("lhu", 1, 0, 0, 18) }

\* Some of everything, for the configuration with fewer resources, and what
\* could wait for ever: an access past the memory, a loop, no coprocessor.
Mixed ==
    { Instr("xpix", 1, 2, 1, 2), Instr("custom", 1, 2, 1, 0),
      Instr("slli", 1, 2, 5, 0), Instr("sll", 1, 2, 1, 0),
      Instr("bne", 0, 1, 2, 252), Instr("sb", 0, 2, 1, 1),
      Instr("lw", 1, 2, 0, 0) }

\* What comes last, before the ebreak: a loop back, or a pixel
\* instruction that the ebreak follows.
Last ==
    { Instr("bne", 0, 1, 2, 252), Instr("xpix", 1, 2, 1, 2) }

Program(p, q, r) ==
    (0 :> p) @@ (4 :> q) @@ (8 :> r) @@ (12 :> Instr("ebreak", 0, 0, 0, 0))
    @@ (16 :> DataWord(155)) @@ (20 :> DataWord(2))
Programs3(P, Q) == { Program(p, q, r) : p, q \in P, r \in Q }
MCPrograms == CASE Mix = "each" -> UNION {Programs3(P, P) : P \in {Control, Accesses, Pixels}}
                [] Mix = "mixed" -> Programs3(Mixed, Last)
=============================================================================

---------------------------- MODULE TestFirmware ----------------------------
(***************************************************************************)
(* The test firmware of firmware/ on the core of PicoIrq: the reset code    *)
(* and the interrupt wrapper of start.S one instruction at a time, and its  *)
(* C code, irq(), hello(), sieve(), multest() and stats(), one statement    *)
(* at a time.  An interrupt may come between any two of these; the locals   *)
(* that a compiler keeps in registers are in registers here, so that the    *)
(* wrapper has to save them.                                                *)
(*                                                                         *)
(* A program counter counts the instructions of Code.  The instructions are *)
(* not compressed.  The tests of riscv-tests between hello and sieve are    *)
(* external: each uses the registers as it likes and returns.               *)
(***************************************************************************)
EXTENDS PicoIrq, SequencesExt

CONSTANTS BITMAP_SIZE,  \* 64 in the source
          Setups,       \* what may differ between two runs of the firmware:
                        \*   pulses[k]  how often the test bench raises irq k
                        \*   tests      the tests of riscv-tests, 46 in the source
                        \*   words      the words xorshift32 returns
                        \*   rounds     the rounds of multest, 15 in the source
          Counters      \* the values of (rdcycle, rdinstret) that stats() reads

VARIABLES setup, irq_regs, irq_counts, console, errors, tests_passed, report,
          tested, bitmap, hash, multest

progVars == <<irq_regs, irq_counts, console, errors, tests_passed, report,
              tested, bitmap, hash, multest>>
vars == <<coreVars, setup, progVars>>

-----------------------------------------------------------------------------
(* The program                                                             *)
StackTop == 1000       \* 128 * 1024
irq_stack == 2000
irq_regs_address == 3000
Saved == Registers \ {"x1", "x2"}
Junk == 77             \* what a function leaves in a register it may use

Start == 40
Hello == 60
Sieve == 70
Multest == 80
Stats == 91

Statement(name) == Insn("c", NoRegister, NoRegister, name)
Call(function) == Insn("jal", "x1", NoRegister, function)
Return == Insn("jalr", NoRegister, "x1", 0)

(* irq_vec, from address 16 on.                                            *)
Wrapper ==
  << Insn("setq", "q2", "x1", 0), Insn("setq", "q3", "x2", 0),
     Insn("li", "x1", NoRegister, irq_regs_address),
     Insn("getq", "x2", "q0", 0), Insn("sw", NoRegister, "x2", "x0"),
     Insn("getq", "x2", "q2", 0), Insn("sw", NoRegister, "x2", "x1"),
     Insn("getq", "x2", "q3", 0), Insn("sw", NoRegister, "x2", "x2"),
     Statement("save"),
     Insn("li", "x2", NoRegister, irq_stack),
     Insn("li", "x10", NoRegister, irq_regs_address),
     Insn("getq", "x11", "q1", 0),
     Call(34),
     Insn("mv", "x1", "x10", 0),
     Insn("lw", "x2", "x1", "x0"), Insn("setq", "q0", "x2", 0),
     Insn("lw", "x2", "x1", "x1"), Insn("setq", "q1", "x2", 0),
     Insn("lw", "x2", "x1", "x2"), Insn("setq", "q2", "x2", 0),
     Statement("restore"),
     Insn("getq", "x1", "q1", 0), Insn("getq", "x2", "q2", 0),
     Insn("retirq", NoRegister, "q0", 0) >>

Code ==
     0 :> Insn("waitirq", NoRegister, NoRegister, 0)
  @@ 1 :> Insn("maskirq", NoRegister, NoRegister, 0)
  @@ 2 :> Insn("jal", NoRegister, NoRegister, Start)
  @@ [pc \in IrqPc .. IrqPc + Len(Wrapper) - 1 |-> Wrapper[pc - IrqPc + 1]]
  @@ 34 :> Statement("irq")
  @@ 35 :> Statement("irq_report")
  @@ 36 :> Insn("ebreak", NoRegister, NoRegister, 0)
  @@ 37 :> Return
  @@ 40 :> Statement("start")
  @@ 41 :> Insn("li", "x2", NoRegister, StackTop)
  @@ 42 :> Call(Hello)
  @@ 43 :> Statement("next_test")
  @@ 44 :> Insn("li", "x1", NoRegister, 1000)
  @@ 45 :> Insn("timer", NoRegister, "x1", 0)
  @@ 46 :> Statement("riscv_test")
  @@ 47 :> Insn("li", "x2", NoRegister, StackTop)
  @@ 48 :> Call(Sieve)
  @@ 49 :> Call(Multest)
  @@ 50 :> Call(Stats)
  @@ 51 :> Statement("done")
  @@ 52 :> Insn("ebreak", NoRegister, NoRegister, 0)
  @@ 60 :> Statement("hello")
  @@ 61 :> Return
  @@ 70 :> Statement("sieve")
  @@ 71 :> Statement("sieve_next")
  @@ 72 :> Statement("sieve_strike")
  @@ 73 :> Statement("sieve_check")
  @@ 74 :> Insn("ebreak", NoRegister, NoRegister, 0)
  @@ 75 :> Return
  @@ 80 :> Statement("multest")
  @@ 81 :> Statement("multest_next")
  @@ 82 :> Insn("lw", "x10", "x2", "a")
  @@ 83 :> Insn("lw", "x11", "x2", "b")
  @@ 84 :> Insn("pcpi", "x10", "x10", "x11")
  @@ 85 :> Statement("multest_keep")
  @@ 86 :> Insn("ebreak", NoRegister, NoRegister, 0)
  @@ 87 :> Return
  @@ 91 :> Statement("stats")
  @@ 92 :> Return

-----------------------------------------------------------------------------
(* One edge of the core for a statement or a load or store of the program.  *)
Goto(pc) == reg_next_pc' = pc
Continue == reg_next_pc' = reg_next_pc

Step(lines) ==
  /\ cpu_state' = "fetch" /\ latched' = NoLatch
  /\ Pend(irq_pending, lines) /\ CountDown(lines) /\ PcpiEdge
  /\ UNCHANGED <<reg_pc, irq_state, irq_mask, irq_active, irq_delay, do_waitirq, pcpi, setup>>

Doing(name, lines) ==
  /\ Executing(Code[reg_pc], "c") /\ Code[reg_pc].arg = name
  /\ Step(lines)

SetRegister(r, v) == cpuregs' = [cpuregs EXCEPT ![r] = v]
Say(line) == console' = Append(console, line)

LoadImmediate(lines) ==
  LET insn == Code[reg_pc]
  IN /\ Executing(insn, "li") /\ Step(lines) /\ Continue
     /\ SetRegister(insn.rd, insn.arg)
     /\ UNCHANGED progVars

Move(lines) ==
  LET insn == Code[reg_pc]
  IN /\ Executing(insn, "mv") /\ Step(lines) /\ Continue
     /\ SetRegister(insn.rd, cpuregs[insn.rs])
     /\ UNCHANGED progVars

(* The wrapper stores and loads through x1, multest() through sp.           *)
StoreWord(lines) ==
  LET insn == Code[reg_pc]
  IN /\ Executing(insn, "sw") /\ Step(lines) /\ Continue
     /\ cpuregs["x1"] = irq_regs_address
     /\ irq_regs' = [irq_regs EXCEPT ![insn.arg] = cpuregs[insn.rs]]
     /\ UNCHANGED <<cpuregs, irq_counts, console, errors, tests_passed, report,
                    tested, bitmap, hash, multest>>

LoadWord(lines) ==
  LET insn == Code[reg_pc]
      address == cpuregs[insn.rs]
  IN /\ Executing(insn, "lw") /\ Step(lines) /\ Continue
     /\ SetRegister(insn.rd, IF address = irq_regs_address THEN irq_regs[insn.arg]
                             ELSE IF address = StackTop /\ insn.arg = "a" THEN multest.a
                             ELSE IF address = StackTop /\ insn.arg = "b" THEN multest.b
                             ELSE Junk)
     /\ UNCHANGED progVars

-----------------------------------------------------------------------------
(* The rest of the wrapper, and irq()                                      *)
NoIrqRegs == [r \in Registers \cup {"x0"} |-> 0]
NoReport == [made |-> FALSE, cause |-> "", pc |-> 0, counts |-> <<>>]

SaveRegisters(lines) ==
  /\ Doing("save", lines) /\ Continue
  /\ irq_regs' = [r \in DOMAIN irq_regs |-> IF r \in Saved THEN cpuregs[r] ELSE irq_regs[r]]
  /\ UNCHANGED <<cpuregs, irq_counts, console, errors, tests_passed, report,
                 tested, bitmap, hash, multest>>

\* Mutant: the wrapper loads x9 from the slot of x8.
RestoreMisnumbered(lines) ==
  /\ Doing("restore", lines) /\ Continue
  /\ cpuregs' = [r \in DOMAIN cpuregs |-> IF r = "x9" THEN irq_regs["x8"]
                                        ELSE IF r \in Saved THEN irq_regs[r] ELSE cpuregs[r]]
  /\ irq_regs' = NoIrqRegs
  /\ UNCHANGED <<irq_counts, console, errors, tests_passed, report, tested, bitmap, hash, multest>>

(* What was saved is not read again, and is dropped.                        *)
RestoreRegisters(lines) ==
  /\ Doing("restore", lines) /\ Continue
  /\ cpuregs' = [r \in DOMAIN cpuregs |-> IF r \in Saved THEN irq_regs[r] ELSE cpuregs[r]]
  /\ irq_regs' = NoIrqRegs
  /\ UNCHANGED <<irq_counts, console, errors, tests_passed, report, tested, bitmap, hash, multest>>

(* a0 is the address of the registers and is returned; a1 says which        *)
(* interrupts there are.  The function may use any register a caller saves. *)
CountIrqs(lines) ==
  LET irqs == cpuregs["x11"]
  IN /\ Doing("irq", lines)
     /\ irq_counts' = [k \in DOMAIN irq_counts |->
                         irq_counts[k] + (IF Has(irqs, k) THEN 1 ELSE 0)]
     /\ IF Has(irqs, irq_ebreak) \/ Has(irqs, irq_buserror)
        THEN Goto(35) /\ UNCHANGED cpuregs
        ELSE Goto(37) /\ SetRegister("x11", Junk)
     /\ UNCHANGED <<irq_regs, console, errors, tests_passed, report,
                    tested, bitmap, hash, multest>>

ReportIrqs(lines) ==
  LET irqs == cpuregs["x11"]
      pc == irq_regs["x0"] - 1
      instr == IF pc \in DOMAIN Code THEN Code[pc].op ELSE "unknown"
  IN /\ Doing("irq_report", lines) /\ Continue
     /\ report' = [made |-> TRUE, pc |-> pc, counts |-> irq_counts,
                   cause |-> IF ~Has(irqs, irq_ebreak) THEN "Bus error in Instruction"
                             ELSE IF instr = "ebreak" THEN "EBREAK instruction"
                             ELSE "Illegal Instruction"]
     /\ UNCHANGED <<cpuregs, irq_regs, irq_counts, console, errors, tests_passed,
                    tested, bitmap, hash, multest>>

Handler(lines) ==
  \/ SaveRegisters(lines) \/ RestoreRegisters(lines)
  \/ CountIrqs(lines) \/ ReportIrqs(lines)

-----------------------------------------------------------------------------
(* start, hello() and the end of the main program                          *)
ZeroRegisters(lines) ==
  /\ Doing("start", lines) /\ Continue
  /\ cpuregs' = [r \in DOMAIN cpuregs |-> IF r \in Registers THEN 0 ELSE cpuregs[r]]
  /\ UNCHANGED progVars

SayHello(lines) ==
  /\ Doing("hello", lines) /\ Continue
  /\ Say(<<"hello world">>)
  /\ UNCHANGED <<cpuregs, irq_regs, irq_counts, errors, tests_passed, report,
                 tested, bitmap, hash, multest>>

(* The list of TESTs, which is empty without ENABLE_RVTST.                  *)
NextTest(lines) ==
  /\ Doing("next_test", lines)
  /\ Goto(IF tested < setup.tests THEN 44 ELSE 47)
  /\ UNCHANGED <<cpuregs, progVars>>

RiscvTest(lines) ==
  /\ Doing("riscv_test", lines) /\ Goto(43)
  /\ tested' = tested + 1
  /\ cpuregs' = [r \in DOMAIN cpuregs |-> IF r \in Registers THEN Junk ELSE cpuregs[r]]
  /\ UNCHANGED <<irq_regs, irq_counts, console, errors, tests_passed, report,
                 bitmap, hash, multest>>

(* 123456789 at 0x20000000 tells the test bench that all is well.           *)
SayDone(lines) ==
  /\ Doing("done", lines) /\ Continue
  /\ Say(<<"DONE">>)
  /\ tests_passed' = TRUE
  /\ UNCHANGED <<cpuregs, irq_regs, irq_counts, errors, report, tested, bitmap, hash, multest>>

-----------------------------------------------------------------------------
(* sieve(): idx is in x8, i in x9 and j in x18.                            *)
idx == cpuregs["x8"]
i == cpuregs["x9"]
j == cpuregs["x18"]

(* A 32-bit word is a pair of halves.  b has no bits in the upper half.     *)
mkhash(a, b) ==
  LET low == 33 * a[2]
      high == 33 * a[1] + low \div 65536
  IN <<high % 65536, (low % 65536) ^^ b>>

Ordinal(n) ==
  IF n \div 10 = 1 THEN "th"
  ELSE CASE n % 10 = 1 -> "st" [] n % 10 = 2 -> "nd" [] n % 10 = 3 -> "rd" [] OTHER -> "th"

print_prime(n, val) ==
  /\ Say(<<n, Ordinal(n), val>>)
  /\ hash' = mkhash(mkhash(hash, n), val)

sieveFrame == <<irq_regs, irq_counts, tests_passed, report, tested, multest>>

SieveStart(lines) ==
  /\ Doing("sieve", lines) /\ Continue
  /\ cpuregs' = [cpuregs EXCEPT !["x8"] = 2, !["x9"] = 0]
  /\ Say(<<1, Ordinal(1), 2>>)
  /\ hash' = mkhash(mkhash(<<0, 5381>>, 1), 2)
  /\ UNCHANGED <<bitmap, errors, sieveFrame>>

SieveNext(lines) ==
  /\ Doing("sieve_next", lines)
  /\ \/ /\ i >= BITMAP_SIZE
        /\ Goto(73)
        /\ UNCHANGED <<cpuregs, console, hash>>
     \/ /\ i < BITMAP_SIZE /\ i \in bitmap
        /\ Goto(71)
        /\ SetRegister("x9", i + 1)
        /\ UNCHANGED <<console, hash>>
     \/ /\ i < BITMAP_SIZE /\ i \notin bitmap
        /\ Continue
        /\ print_prime(idx, 3 + 2 * i)
        /\ cpuregs' = [cpuregs EXCEPT !["x8"] = idx + 1, !["x18"] = 2 * (3 + 2 * i)]
  /\ UNCHANGED <<bitmap, errors, sieveFrame>>

SieveStrike(lines) ==
  LET k == (j - 3) \div 2
  IN /\ Doing("sieve_strike", lines)
     /\ \/ /\ j % 2 = 0
           /\ Goto(72)
           /\ SetRegister("x18", j + 3 + 2 * i)
           /\ UNCHANGED bitmap
        \/ /\ j % 2 # 0 /\ k >= BITMAP_SIZE
           /\ Goto(71)
           /\ SetRegister("x9", i + 1)
           /\ UNCHANGED bitmap
        \/ /\ j % 2 # 0 /\ k < BITMAP_SIZE
           /\ Goto(72)
           /\ bitmap' = bitmap \cup {k}
           /\ SetRegister("x18", j + 3 + 2 * i)
     /\ UNCHANGED <<console, errors, hash, sieveFrame>>

Checksum == <<6002, 42127>>     \* 0x1772A48F

SieveCheck(lines) ==
  /\ Doing("sieve_check", lines)
  /\ IF hash = Checksum
     THEN Goto(75) /\ Say(<<"checksum", "OK">>) /\ UNCHANGED errors
     ELSE Goto(74) /\ Say(<<"checksum", "ERROR">>) /\ errors' = errors \cup {"sieve"}
  /\ cpuregs' = [cpuregs EXCEPT !["x8"] = 0, !["x9"] = 0, !["x18"] = 0]
  /\ UNCHANGED <<bitmap, hash, sieveFrame>>

-----------------------------------------------------------------------------
(* multest(): the counter is in x8; the operands and results are in its     *)
(* frame.  hard_mul() and the others are the instruction and a return.      *)
HardOps == <<"mul", "mulh", "mulhsu", "mulhu", "div", "divu", "rem", "remu">>
NoMultest == [a |-> 0, b |-> 0, hard |-> <<>>]
multestFrame == <<irq_regs, irq_counts, console, tests_passed, report, tested, bitmap, hash>>

(* C divides towards zero.                                                  *)
Abs(n) == IF n < 0 THEN -n ELSE n
Quotient(n, d) == IF (n < 0) = (d < 0) THEN Abs(n) \div Abs(d) ELSE -(Abs(n) \div Abs(d))

Soft(op, a, b) ==
  LET as == AsSigned(a)  bs == AsSigned(b)
      high(product) == Double(product) \div 2^W
  IN CASE op = "mul" -> Word(a * b)
       [] op = "mulh" -> high(as * bs)
       [] op = "mulhsu" -> high(as * b)
       [] op = "mulhu" -> high(a * b)
       [] op = "div" -> IF b # 0 THEN Word(Quotient(as, bs)) ELSE 2^W - 1
       [] op = "divu" -> IF b # 0 THEN a \div b ELSE 2^W - 1
       [] op = "rem" -> IF b # 0 THEN Word(as - bs * Quotient(as, bs)) ELSE a
       [] op = "remu" -> IF b # 0 THEN a % b ELSE a

(* The first rounds try the cases a divider gets wrong.                     *)
Operands(round, a, b) ==
  CASE round = 0 -> <<2^(W-1), 2^W - 1>>
    [] round = 1 -> <<0, 0>>
    [] round = 2 -> <<a | 2^(W-1), 0>>
    [] round = 3 -> <<a % 2^(W-1), 0>>
    [] OTHER -> <<a, b>>

MultestStart(lines) ==
  /\ Doing("multest", lines) /\ Continue
  /\ SetRegister("x8", 0)
  /\ UNCHANGED progVars

MultestNext(lines) ==
  /\ Doing("multest_next", lines)
  /\ IF cpuregs["x8"] < setup.rounds
     THEN /\ \E a, b \in setup.words :
               LET ops == Operands(cpuregs["x8"], a, b)
               IN multest' = [a |-> ops[1], b |-> ops[2], hard |-> <<>>]
          /\ Continue
          /\ UNCHANGED cpuregs
     ELSE /\ Goto(87)
          /\ cpuregs' = [cpuregs EXCEPT !["x8"] = 0, !["x10"] = 0, !["x11"] = 0]
          /\ UNCHANGED multest
  /\ UNCHANGED <<errors, multestFrame>>

(* A result is kept; after the last one of a kind the four are compared     *)
(* with what C computes.                                                    *)
MultestKeep(lines) ==
  LET hard == Append(multest.hard, cpuregs["x10"])
      n == Len(hard)
      wrong == n \in {4, 8} /\ \E k \in n - 3 .. n : hard[k] # Soft(HardOps[k], multest.a, multest.b)
  IN /\ Doing("multest_keep", lines)
     /\ IF wrong THEN Goto(86) ELSE Goto(IF n = 8 THEN 81 ELSE 82)
     /\ errors' = IF wrong THEN errors \cup {"multest"} ELSE errors
     /\ IF n = 8
        THEN multest' = NoMultest /\ SetRegister("x8", cpuregs["x8"] + 1)
        ELSE multest' = [multest EXCEPT !.hard = hard] /\ UNCHANGED cpuregs
     /\ UNCHANGED multestFrame

-----------------------------------------------------------------------------
(* stats()                                                                 *)
(* stats_print_dec fills a buffer from the last digit on, and prints it     *)
(* from the end: of two neighbouring blanks the first is printed as a dot.  *)
(* An element before the buffer is never a blank, as its first is a digit.  *)
Blank == 10
Dot == 11

Digits(val, digits, zero_pad) ==
  LET count[n \in Nat] == IF n < 10 THEN 1 ELSE 1 + count[n \div 10]
      filled == IF val = 0 THEN 0 ELSE count[val]
      length == IF filled > digits THEN filled ELSE digits
  IN [n \in 1 .. length |-> IF n <= filled THEN (val \div 10^(n-1)) % 10
                             ELSE IF zero_pad THEN 0 ELSE Blank]

stats_print_dec(val, digits, zero_pad) ==
  LET buffer == Digits(val, digits, zero_pad)
  IN [n \in 1 .. Len(buffer) |->
        LET p == Len(buffer) - n + 1
        IN IF buffer[p] = Blank /\ p > 1 /\ buffer[p-1] = Blank THEN Dot ELSE buffer[p]]

ShowStats(lines) ==
  /\ Doing("stats", lines) /\ Continue
  /\ \E counters \in Counters :
       LET num_cycles == counters[1]  num_instr == counters[2]
       IN Say(<<"stats", num_cycles, num_instr,
                  stats_print_dec(num_cycles, 8, FALSE),
                  stats_print_dec(num_instr, 8, FALSE),
                  stats_print_dec(num_cycles \div num_instr, 0, FALSE),
                  stats_print_dec(((100 * num_cycles) \div num_instr) % 100, 2, TRUE)>>)
  /\ UNCHANGED <<cpuregs, irq_regs, irq_counts, errors, tests_passed, report,
                 tested, bitmap, hash, multest>>

Main(lines) ==
  \/ ZeroRegisters(lines) \/ SayHello(lines) \/ NextTest(lines) \/ RiscvTest(lines) \/ SayDone(lines)
  \/ SieveStart(lines) \/ SieveNext(lines) \/ SieveStrike(lines) \/ SieveCheck(lines)
  \/ MultestStart(lines) \/ MultestNext(lines) \/ MultestKeep(lines) \/ ShowStats(lines)

-----------------------------------------------------------------------------
Init ==
  /\ CoreInit
  /\ setup \in Setups
  /\ irq_regs = NoIrqRegs
  /\ irq_counts = [k \in ExternalIrqs \cup {irq_timer} |-> 0]
  /\ console = <<>> /\ errors = {} /\ tests_passed = FALSE /\ report = NoReport
  /\ tested = 0 /\ bitmap = {} /\ hash = <<0, 0>> /\ multest = NoMultest

(* The interrupt lines that may be high at an edge: those the test bench    *)
(* still has pulses for, and the timer's while it counts.                   *)
Lines ==
  SUBSET ({k \in ExternalIrqs : raised[k] < setup.pulses[k]}
          \cup (IF timer THEN {irq_timer} ELSE {}))

ExecuteCore(lines) ==
  LET insn == Code[reg_pc]
  IN /\ \/ GetQ(insn, lines) \/ SetQ(insn, lines) \/ MaskIrq(insn, lines)
        \/ SetTimer(insn, lines) \/ Jalr(insn, lines) \/ RetIrq(insn, lines)
        \/ Ebreak(insn, lines)
        \/ Coprocess(insn, HardOps[Len(multest.hard) + 1], lines)
     /\ UNCHANGED <<setup, progVars>>

ExecuteProgram(lines) ==
  LoadImmediate(lines) \/ Move(lines) \/ StoreWord(lines) \/ LoadWord(lines)
  \/ Handler(lines) \/ Main(lines)

FetchNext(lines) == cpu_state = "fetch" /\ Fetch(Code[CurrentPc], lines) /\ UNCHANGED <<setup, progVars>>

Trapped == cpu_state = "trap" /\ UNCHANGED vars

Next ==
  \/ \E lines \in Lines : FetchNext(lines) \/ ExecuteCore(lines) \/ ExecuteProgram(lines)
  \/ Trapped

Spec == Init /\ [][Next]_vars
FairSpec == Spec /\ WF_vars(Next)

-----------------------------------------------------------------------------
(* Properties                                                              *)

(* The interrupt lines are level inputs sampled at every edge, in the fetch *)
(* state of an interrupt and in the middle of the handler too.  Outside the *)
(* handler every interrupt that was asked for has been counted by irq() or  *)
(* is still pending: none is lost, none is served twice.                    *)
IrqsCounted ==
  (cpu_state = "trap" \/ (~irq_active /\ irq_state = 0)) =>
    \A k \in DOMAIN irq_counts :
      raised[k] = irq_counts[k] + (IF k \in irq_pending THEN 1 ELSE 0)

(* What the C code prints is not disturbed by interrupts between any two of *)
(* its statements: sieve() finds the primes in order and counts them, and   *)
(* stats() prints numbers of the right value, however padded.               *)
IsPrime(n) == n > 1 /\ \A d \in 2 .. n - 1 : n % d # 0
Primes == SelectSeq([n \in 1 .. 2 * BITMAP_SIZE + 1 |-> n], IsPrime)
OrdinalLines ==
  [n \in 1 .. Len(Primes) |->
     <<n, IF n \in {1, 21, 31} THEN "st" ELSE IF n \in {2, 22, 32} THEN "nd"
          ELSE IF n \in {3, 23, 33} THEN "rd" ELSE "th", Primes[n]>>]

Value(chars) ==
  FoldLeft(LAMBDA v, c : IF c \in {Blank, Dot} THEN v ELSE 10 * v + c, 0, chars)

StatsRight(line) ==
  /\ Value(line[4]) = line[2] /\ Value(line[5]) = line[3]
  /\ Len(line[4]) >= 8 /\ Len(line[5]) >= 8 /\ Len(line[7]) = 2
  /\ Value(line[6]) * 100 + Value(line[7]) = (100 * line[2]) \div line[3]

ConsoleRight ==
  LET expected == << <<"hello world">> >> \o OrdinalLines \o << <<"checksum", "OK">> >>
      n == Len(expected)
      m == Len(console)
  IN /\ IsPrefix(SubSeq(console, 1, IF m < n THEN m ELSE n), expected)
     /\ m > n => StatsRight(console[n + 1])

(* trap ends the run in the test bench, which then asks for tests_passed:   *)
(* the core traps only in the ebreak of the handler that reports the ebreak *)
(* at the end of the main program, with all tests passed.                   *)
TrapMeansPassed ==
  cpu_state = "trap" =>
    /\ tests_passed /\ errors = {}
    /\ report.made /\ report.pc = 52 /\ report.cause = "EBREAK instruction"

(* The firmware starts once there is an interrupt, masked as it is, and     *)
(* reaches its end whatever interrupts come on the way.                     *)
Finishes == <>(cpu_state = "trap")
=============================================================================

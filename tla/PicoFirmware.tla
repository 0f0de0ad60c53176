---------------------------- MODULE PicoFirmware ----------------------------
(***************************************************************************)
(* The demo firmware of PicoSoC (picosoc/firmware.c), which runs from the  *)
(* serial flash it reconfigures.  Both boards are modelled; "board" says   *)
(* which side of the #ifdefs was compiled.                                 *)
(*                                                                         *)
(* A command is the list of the calls it makes that somebody can notice:   *)
(* register writes, flash commands, numbers printed.  "todo" holds what is *)
(* left of it; Firmware takes one call at a time.  Fixed text is left out. *)
(*                                                                         *)
(* SpiMemio.tla models the flash port bit by bit; here it is what its run  *)
(* shows: a read succeeds when controller and chip agree (Decodes), and a  *)
(* write of the register ends a continuous read unless it is a dual one    *)
(* (Leave).  A processor that cannot fetch its code is left alone (Lost).  *)
(***************************************************************************)
EXTENDS Integers, Sequences, SequencesExt, FiniteSetsExt

CONSTANTS
    Boards,      \* "ICEBREAKER", "HX8KDEMO"
    Keys,        \* what the user types
    Timeout,     \* polls before a prompt is repeated (12000000 cycles)
    CycleMod,    \* rdcycle counts modulo this (2^32)
    Faults,      \* faults of the memory that memtest looks for
    Values,      \* words print_hex prints, as eight hexadecimal digits
    BenchSize    \* bytes of the benchmark's array (256)

ASSUME TimerFits == Timeout \in Nat \ {0} /\ CycleMod > Timeout + 1
ASSUME BoardsKnown == Boards \subseteq {"ICEBREAKER", "HX8KDEMO"}

VARIABLES
    board,
    pc, todo, rep,        \* where main is, calls left, tries left before the menu
    spictrl,              \* mode (DDR and QSPI bits), CRM bit, latency
    chip,                 \* flash: continuous read, QUAD flag, latency
    rx, got,              \* byte in the UART, byte returned by getchar
    cycles, begin,        \* cycle counter, cycles_begin of getchar_prompt
    leds,
    said                  \* last number, verdict or array printed or computed

vars == <<board, pc, todo, rep, spictrl, chip, rx, got, cycles, begin, leds,
          said>>

NoByte == "none"
Silence == [is |-> "nothing"]

-----------------------------------------------------------------------------
(* The flash, external to the firmware.                                    *)

\* Dummy cycles after the mode byte: fixed on one chip, a register on the other.
Dummy == [spi |-> 0, dual |-> 0, quad |-> 4, qddr |-> 7]
Latency(h, mode) == IF board = "HX8KDEMO" THEN h.latency ELSE Dummy[mode]

TakesCommand(s, h) ==
    \/ s.mode = "spi"
    \/ /\ s.latency = Latency(h, s.mode)
       /\ s.mode = "dual" \/ h.quad

\* In a continuous read no command is sent, so 03h cannot be used in one.
Decodes(s, h) ==
    \/ h.xip = "none" /\ TakesCommand(s, h) /\ ~(s.mode = "spi" /\ s.cont)
    \/ h.xip = s.mode /\ s.cont /\ s.latency = Latency(h, s.mode)

\* FFh is eight clocks: a quad read ends, as its mode byte is among them; a dual
\* one has two bytes of its address and is out of step with the controller.
Leave(h) == [h EXCEPT !.xip = IF @ \in {"dual", "adrift"} THEN "adrift" ELSE "none"]
\* The next fetch puts the chip into a continuous read when the CRM bit is set.
Fetched(s, h) ==
    IF s.cont /\ s.mode # "spi" /\ h.xip = "none" /\ TakesCommand(s, h)
    THEN [h EXCEPT !.xip = s.mode] ELSE h

\* A command clocked out by hand.  The single dummy byte of "read any register"
\* is right for a latency of eight.
Understood(f, h) ==
    h.xip = "none" /\ (f.cmd = "rdar" => h.latency = 8)
Obey(f, h) ==
    CASE f.cmd = "quad"    -> [h EXCEPT !.quad = TRUE]
      [] f.cmd = "latency" -> [h EXCEPT !.latency = f.arg]
      [] OTHER             -> h

-----------------------------------------------------------------------------
(* The calls, and the functions made of them.                              *)

Set(mode, cont, lat) == [op |-> "spictrl", mode |-> mode, cont |-> cont, lat |-> lat]
Keep == 16                      \* latency bits left as they are
Flashio(cmd, arg) == [op |-> "flashio", cmd |-> cmd, arg |-> arg]
Dec(v) == [op |-> "dec", v |-> v]
DecLatency == [op |-> "declatency"]
Hex(digits) == [op |-> "hex", digits |-> digits]
Bench == [op |-> "bench"]
Memtest == [op |-> "memtest"]
GetChar(prompt) == [op |-> "getchar", prompt |-> prompt]
Poll(prompt) == [op |-> "poll", prompt |-> prompt]
Crm == [op |-> "crm"]
Toggle == [op |-> "toggle"]

HX8K == board = "HX8KDEMO"

set_flash_qspi_flag ==
    IF HX8K THEN <<Flashio("rdar", 0), Flashio("quad", 0)>>
            ELSE <<Flashio("read", 0), Flashio("quad", 0)>>

set_flash_latency(v) == <<Set("spi", FALSE, v), Flashio("latency", v)>>

\* Mutant: the latency of the quad mode is not written.
ModeWithoutLatency(m) == <<Set(m, FALSE, Keep)>>
set_flash_mode(m) == <<Set(m, FALSE, IF HX8K THEN Keep ELSE Dummy[m])>>

\* The calls of a loop of n rounds, of the k calls r[i] each.
Rounds(r, n, k) ==
    [j \in 1 .. n * k |-> r[((j - 1) \div k) + 1][((j - 1) % k) + 1]]

cmd_print_spi_state == <<DecLatency>>
cmd_read_flash_id == <<Flashio("id", 0)>> \o [i \in 1 .. 16 |-> Hex(2)]

\* Mutant: the registers are read at the latency the last command left.
ReadRegsAtAnyLatency ==
    LET print == [r \in 1 .. 6 |-> <<Flashio("rdar", r), Hex(6), Hex(2)>>]
    IN  IF HX8K THEN Rounds(print, 6, 3) ELSE [r \in 1 .. 3 |-> Flashio("read", r)]
cmd_read_flash_regs ==
    LET print == [r \in 1 .. 6 |->
                     set_flash_latency(8) \o <<Flashio("rdar", r), Hex(6), Hex(2)>>]
    IN  IF HX8K THEN Rounds(print, 6, 5) ELSE [r \in 1 .. 3 |-> Flashio("read", r)]

\* One configuration at the latencies 8, 7 ... 1.
Sweep(mode, cont) ==
    LET round == [i \in 1 .. 8 |->
                     <<Dec(9 - i)>> \o set_flash_latency(9 - i)
                     \o <<Set(mode, cont, Keep), Bench, Hex(8)>>]
    IN  Rounds(round, 8, 6)
cmd_benchmark_all ==
    IF HX8K
    THEN <<Set("spi", FALSE, Keep), Bench, Hex(8)>>
         \o Sweep("dual", FALSE) \o Sweep("dual", TRUE)
         \o Sweep("quad", FALSE) \o Sweep("quad", TRUE)
         \o Sweep("qddr", FALSE) \o Sweep("qddr", TRUE) \o <<Hex(8)>>
    ELSE LET run == <<Bench, Hex(8)>>
         IN  set_flash_mode("spi") \o run \o set_flash_mode("dual") \o run
             \o set_flash_mode("quad") \o run \o <<Crm>> \o run
             \o set_flash_mode("qddr") \o run \o <<Crm>> \o run

Command(key) ==
    CASE key = "1" -> cmd_read_flash_id
      [] key = "2" -> cmd_read_flash_regs
      [] key = "3" -> set_flash_mode("spi")
      [] key = "4" -> set_flash_mode("dual")
      [] key = "5" -> set_flash_mode("quad")
      [] key = "6" -> set_flash_mode("qddr")
      [] key = "7" -> <<Toggle>>
      [] key = "9" -> <<Bench, Hex(8), Hex(8), Hex(8)>>
      [] key = "0" -> cmd_benchmark_all
      [] key = "M" -> <<Memtest>>
      [] key = "S" -> cmd_print_spi_state
      [] key = "e" -> <<GetChar(FALSE)>>
Commands == {"1", "2", "3", "4", "5", "6", "7", "9", "0", "M", "S", "e"}

-----------------------------------------------------------------------------
(* Printing.  A word is its hexadecimal digits, digit 0 the lowest.        *)

\* Mutant: a zero inside the number is dropped like a leading one.
PrintHexDroppingZeros(v, digits) ==
    SelectSeq([i \in 1 .. 8 |-> v[8 - i]], LAMBDA d : d # 0)
print_hex(v, digits) ==
    LET put(acc, i) == IF v[i] = 0 /\ i >= acc.digits THEN acc
                       ELSE [out |-> Append(acc.out, v[i]), digits |-> i]
    IN  FoldLeft(put, [out |-> <<>>, digits |-> digits], [i \in 1 .. 8 |-> 8 - i]).out

print_dec(v) ==
    IF v >= 1000 THEN <<">=1000">>
    ELSE SelectSeq(<<v \div 100, (v % 100) \div 10>>, LAMBDA d : d > 0) \o <<v % 10>>

-----------------------------------------------------------------------------
(* The memory test.  A word is the set of the bits that are one.           *)

Xor(x, y) == (x \ y) \cup (y \ x)
Shl(x, n) == {i + n : i \in x} \cap (0 .. 31)
Shr(x, n) == {i - n : i \in x} \cap (0 .. 31)
xorshift32(x) ==
    LET a == Xor(x, Shl(x, 13))
        b == Xor(a, Shr(a, 17))
    IN  Xor(b, Shl(b, 5))
Bits(n) == {i \in 0 .. 7 : (n \div 2^i) % 2 = 1}

stride == 256
MEM_TOTAL == IF HX8K THEN 512 ELSE 131072
Walked == {stride * i : i \in 0 .. ((MEM_TOTAL \div 4) - 1) \div stride}
\* What a seed writes to the words of the walk, one after the other.
Stream(seed) ==
    LET next(s, k) == Append(s, xorshift32(Last(s)))
    IN  FoldLeft(next, <<xorshift32(Bits(seed))>>, [k \in 1 .. 127 |-> k])
Patterns == <<Stream(1), Stream(2), Stream(3), Stream(4), Stream(5)>>
Pattern(seed, w) == Patterns[seed][(w \div stride) + 1]

\* A faulty memory: a bit that is stuck, an address that selects another word,
\* byte strobes that write all four bytes of a word.
Cell(f, w) == IF f.kind = "alias" /\ w = f.word THEN f.other ELSE w
SameCell(f, w) ==
    IF f.kind = "alias" /\ Cell(f, w) = f.other THEN {f.word, f.other} ELSE {w}
Stick(f, w, x) ==
    IF f.kind # "stuck" \/ w # f.word THEN x
    ELSE IF f.value = 1 THEN x \cup {f.bit} ELSE x \ {f.bit}

\* The words of the walk are all written before the first is read.
ReadWord(f, seed, w) ==
    Stick(f, Cell(f, w), Pattern(seed, Max(SameCell(f, w) \cap Walked)))
\* So are the bytes.
ReadByte(f, b) ==
    LET written == {c \in 0 .. 127 : /\ c \div 4 \in SameCell(f, b \div 4)
                                     /\ f.kind = "strobe" \/ c % 4 = b % 4}
        byte == {i + (8 * (b % 4)) : i \in Bits(Max(written))}
    IN  {i - (8 * (b % 4)) : i \in Stick(f, Cell(f, b \div 4), byte)}

\* Mutant: the test of the single bytes is left out.
MemtestOfWordsOnly(f) ==
    LET bad(seed) == {w \in Walked : ReadWord(f, seed, w) # Pattern(seed, w)}
        seeds == {seed \in 1 .. 5 : bad(seed) # {}}
    IN  IF seeds = {} THEN [failed |-> "no", at |-> 0]
        ELSE [failed |-> "word", at |-> 4 * Min(bad(Min(seeds)))]
cmd_memtest(f) ==
    LET bad(seed) == {w \in Walked : ReadWord(f, seed, w) # Pattern(seed, w)}
        seeds == {seed \in 1 .. 5 : bad(seed) # {}}
        bytes == {b \in 0 .. 127 : ReadByte(f, b) # Bits(b)}
    IN  IF seeds # {} THEN [failed |-> "word", at |-> 4 * Min(bad(Min(seeds)))]
        ELSE IF bytes # {} THEN [failed |-> "byte", at |-> Min(bytes)]
        ELSE [failed |-> "no", at |-> 0]

\* The benchmark packs the indices of the bytes that are not zero, in place.
cmd_benchmark(data) ==
    LET pack(acc, k) ==
            IF acc.data[k] = 0 THEN acc
            ELSE [data |-> [acc.data EXCEPT ![acc.p] = k], p |-> acc.p + 1]
    IN  FoldLeft(pack, [data |-> data, p |-> 0], [k \in 1 .. BenchSize |-> k - 1])

-----------------------------------------------------------------------------
(* One call of the list.                                                   *)

Call == Head(todo)
Done == todo' = Tail(todo)

WriteSpictrl(s) ==
    /\ spictrl' = s
    /\ chip' = Fetched(s, Leave(chip))
    /\ UNCHANGED <<rx, got, cycles, begin, leds, said>>
    /\ Done

reg_spictrl ==
    \/ /\ Call.op = "spictrl"
       /\ WriteSpictrl([mode |-> Call.mode, cont |-> Call.cont,
              latency |-> IF Call.lat = Keep THEN spictrl.latency ELSE Call.lat])
    \/ /\ Call.op = "crm"
       /\ WriteSpictrl([spictrl EXCEPT !.cont = TRUE])
    \/ /\ Call.op = "toggle"
       /\ WriteSpictrl([spictrl EXCEPT !.cont = ~@])

\* The worker runs from the stack with the controller off.  A chip in a
\* continuous read takes the command for an address and a mode byte, and leaves it.
flashio ==
    /\ Call.op = "flashio"
    /\ LET h == IF Understood(Call, chip) THEN Obey(Call, chip)
                ELSE [chip EXCEPT !.xip = "none"]
       IN  chip' = Fetched(spictrl, Leave(h))
    /\ Done
    /\ UNCHANGED <<spictrl, rx, got, cycles, begin, leds, said>>

Show ==
    /\ \/ /\ Call.op = "dec"
          /\ said' = [is |-> "dec", v |-> Call.v, out |-> print_dec(Call.v)]
       \/ /\ Call.op = "declatency"
          /\ said' = [is |-> "dec", v |-> spictrl.latency, out |-> print_dec(spictrl.latency)]
       \/ /\ Call.op = "hex"
          /\ \E v \in Values : said' = [is |-> "hex", v |-> v, digits |-> Call.digits,
                                        out |-> print_hex(v, Call.digits)]
       \/ /\ Call.op = "memtest"
          /\ \E f \in Faults : said' = [is |-> "memtest", fault |-> f, verdict |-> cmd_memtest(f)]
       \/ /\ Call.op = "bench"
          /\ \E d \in [0 .. BenchSize - 1 -> {0, 255}] :
                said' = [is |-> "bench", before |-> d, after |-> cmd_benchmark(d)]
    /\ Done
    /\ UNCHANGED <<spictrl, chip, rx, got, cycles, begin, leds>>

\* Prompt, then poll; the prompt is repeated and the LEDs blink while nobody types.
getchar_prompt ==
    \/ /\ Call.op = "getchar"
       /\ leds' = "on" /\ begin' = cycles
       /\ todo' = <<Poll(Call.prompt)>> \o Tail(todo)
       /\ UNCHANGED <<spictrl, chip, rx, got, cycles, said>>
    \/ /\ Call.op = "poll"
       /\ cycles' = (cycles + 1) % CycleMod
       /\ LET late == (cycles' - begin) % CycleMod > Timeout
          IN  IF rx # NoByte
              THEN /\ got' = rx /\ rx' = NoByte /\ leds' = "off" /\ begin' = 0
                   /\ Done
              ELSE /\ begin' = IF late THEN cycles' ELSE begin
                   /\ leds' = IF ~late THEN leds ELSE IF leds = "on" THEN "off" ELSE "on"
                   /\ UNCHANGED <<rx, got, todo>>
       /\ UNCHANGED <<spictrl, chip, said>>

-----------------------------------------------------------------------------
(* main                                                                    *)

Goto(loc, calls) ==
    /\ pc' = loc /\ todo' = calls
    /\ UNCHANGED <<board, spictrl, chip, rx, got, cycles, begin>>

Boot ==
    /\ pc = "boot"
    /\ leds' = "boot" /\ said' = Silence /\ UNCHANGED rep
    /\ Goto("enter", set_flash_qspi_flag \o <<GetChar(TRUE)>>)
\* Mutant: the key is asked for before the loop that looks at it.
EnterAsksOnce ==
    /\ pc = "enter" /\ todo = <<>>
    /\ said' = Silence /\ UNCHANGED <<leds, rep>>
    /\ IF got # "CR" THEN Goto("enter", <<>>)
       ELSE Goto("menu", <<Dec(MEM_TOTAL \div 1024)>> \o cmd_print_spi_state)
Enter ==
    /\ pc = "enter" /\ todo = <<>>
    /\ said' = Silence /\ UNCHANGED <<leds, rep>>
    /\ IF got # "CR" THEN Goto("enter", <<GetChar(TRUE)>>)
       ELSE Goto("menu", <<Dec(MEM_TOTAL \div 1024)>> \o cmd_print_spi_state)
Menu ==
    /\ pc = "menu" /\ todo = <<>>
    /\ rep' = 10 /\ said' = Silence /\ UNCHANGED leds
    /\ Goto("command", <<GetChar(FALSE)>>)
\* Ten keys that are no command bring the menu back.
Dispatch ==
    /\ pc = "command" /\ todo = <<>>
    /\ said' = Silence /\ UNCHANGED leds
    /\ IF got \in Commands
       THEN /\ Goto(IF got = "e" THEN "echo" ELSE "menu", Command(got))
            /\ rep' = 0
       ELSE /\ rep' = rep - 1
            /\ IF rep = 1 THEN Goto("menu", <<>>) ELSE Goto("command", <<GetChar(FALSE)>>)
cmd_echo ==
    /\ pc = "echo" /\ todo = <<>>
    /\ said' = Silence /\ UNCHANGED <<leds, rep>>
    /\ IF got = "!" THEN Goto("menu", <<>>) ELSE Goto("echo", <<GetChar(FALSE)>>)

\* The code is fetched from the flash.
Firmware ==
    /\ Decodes(spictrl, chip)
    /\ \/ /\ todo # <<>>
          /\ reg_spictrl \/ flashio \/ Show \/ getchar_prompt
          /\ UNCHANGED <<board, pc, rep>>
       \/ Boot \/ Enter \/ Menu \/ Dispatch \/ cmd_echo

Listening == todo # <<>> /\ Call.op = "poll"

Type ==
    /\ Listening /\ rx = NoByte
    /\ rx' \in Keys
    /\ UNCHANGED <<board, pc, todo, rep, spictrl, chip, got, cycles, begin, leds, said>>

\* What it fetches is not the code: what the processor does is not followed.
Lost == ~Decodes(spictrl, chip) /\ UNCHANGED vars

Init ==
    /\ board \in Boards
    /\ pc = "boot" /\ todo = <<>> /\ rep = 0
    /\ spictrl = [mode |-> "spi", cont |-> FALSE, latency |-> 8]
    /\ chip \in [xip : {"none"}, quad : BOOLEAN, latency : {8}]
    /\ rx = NoByte /\ got = NoByte /\ cycles \in 0 .. CycleMod - 1 /\ begin = 0
    /\ leds = "boot" /\ said = Silence

Next == Firmware \/ Type \/ Lost
Spec == Init /\ [][Next]_vars
FairSpec == Spec /\ WF_vars(Firmware)

-----------------------------------------------------------------------------
\* The code after every call is fetched in a mode the chip answers: its QUAD
\* flag is set and its latency is the controller's.  There are two ways to lose
\* it: key 7 sets the CRM bit in the default mode, and a command writes the
\* register while the chip is in a dual continuous read.
FetchesDecode ==
    \/ Decodes(spictrl, chip)
    \/ got = "7" /\ spictrl.mode = "spi" /\ spictrl.cont
    \/ chip.xip = "adrift"

\* A command clocked out by hand meets a chip that takes commands, and a
\* register is read at the latency its one dummy byte is right for.  Only the
\* commands that ask for the ID or the status may meet a chip in a continuous
\* read, which the user has asked for: nothing the chip must obey is lost.
CommandsUnderstood ==
    todo # <<>> /\ Call.op = "flashio" /\ Decodes(spictrl, chip)
    => \/ Understood(Call, chip)
       \/ Call.cmd = "id" \/ (Call.cmd = "read" /\ Call.arg # 0)

\* Reading the printed digits back gives the number, in any base.
ReadBack(out, base) == FoldLeft(LAMBDA n, d : (base * n) + d, 0, out)
NumbersPrinted ==
    /\ said.is = "dec" => ReadBack(said.out, 10) = said.v
    /\ said.is = "hex" =>
         /\ Len(said.out) >= said.digits
         /\ \A i \in 0 .. 7 :
               said.v[i] = IF i < Len(said.out) THEN said.out[Len(said.out) - i] ELSE 0
    /\ said.is = "bench" =>
         LET kept == {k \in 0 .. BenchSize - 1 : said.before[k] # 0}
         IN  /\ said.after.p = Cardinality(kept)
             /\ {said.after.data[j] : j \in 0 .. said.after.p - 1} = kept

\* memtest accuses only a word that is faulty, and misses neither broken byte
\* strobes nor two of the words it walks that are one.
MemtestHonest ==
    said.is = "memtest" =>
        LET f == said.fault
        IN  IF said.verdict.failed = "no"
            THEN /\ f.kind # "strobe"
                 /\ f.kind = "alias" => ~({f.word, f.other} \subseteq Walked)
            ELSE \/ f.kind = "strobe"
                 \/ f.kind = "stuck" /\ said.verdict.at \div 4 = f.word
                 \/ f.kind = "alias" /\ said.verdict.at \div 4 \in {f.word, f.other}

\* Every command comes back to the prompt and every key is taken, as long as
\* the code can be fetched.
AlwaysListens == []<>((Listening /\ rx = NoByte) \/ ~Decodes(spictrl, chip))
=============================================================================

------------------------------ MODULE SpiMemio ------------------------------
(***************************************************************************)
(* The memory controller of PicoSoC (picosoc/spimemio.v) and the serial    *)
(* flash it reads (picosoc/spiflash.v, the repository's own model of the   *)
(* chip), clock edge by clock edge, with the processor's side of the bus.  *)
(*                                                                         *)
(* A byte is a number and four lines are a number below sixteen, line 0    *)
(* being its lowest bit.  The registers of the two Verilog modules and of  *)
(* the chip are three records, so an always block reads as a chain of      *)
(* functions on its record, in the order of its statements.                *)
(***************************************************************************)
EXTENDS Integers

CONSTANTS
    Addrs,      \* addresses of words the processor reads
    Settings,   \* modes the processor may select: members of Config
    Latencies   \* dummy cycles of the chip and of config_dummy, a field of four bits

ASSUME LatencyFits == Latencies \subseteq 0 .. 15
ASSUME AddrsAreWords == \A a \in Addrs : a \in 0 .. (2^24 - 4) /\ a % 4 = 0

VARIABLES
    resetn,
    valid, addr,      \* the read the processor waits for
    we,               \* cfgreg_we: the setting written in this cycle, or None
    cfg,              \* config_en, config_ddr, config_qspi, config_cont
    softreset,
    ctl,              \* registers of spimemio
    xfer,             \* registers of spimemio_xfer
    chip,             \* the flash chip
    latency,          \* the number software and chip agree on
    stranded          \* history: the chip did not listen when ctl last started over

vars == <<resetn, valid, addr, we, cfg, softreset, ctl, xfer, chip, latency, stranded>>

None == [none |-> TRUE]
Bit(n, i) == (n \div 2^i) % 2
Flag(b) == IF b THEN 1 ELSE 0

\* What the flash holds: neighbouring bytes and words differ.
memory(a) == ((16 * ((a \div 4) % 16)) + (a % 4) + 1) % 256
WordAt(a) == [i \in 0 .. 3 |-> memory(a + i)]
NoBytes == [i \in 0 .. 3 |-> 0]

-----------------------------------------------------------------------------
(* spimemio_xfer: a byte in or out, on one, two or four lines.             *)

Kind(x) == CASE x.qspi /\ x.ddr  -> "ddr"
             [] x.qspi /\ ~x.ddr -> "qspi"
             [] x.dspi           -> "dspi"
             [] OTHER            -> "spi"
Lines(k) == CASE k = "spi" -> 1 [] k = "dspi" -> 2 [] OTHER -> 4

\* Bits move when the clock of the flash falls, or at both edges.
Shifts(x) == Kind(x) = "ddr" \/ x.flash_clk
NextCount(x) ==
    IF Shifts(x) /\ x.count > 0 THEN x.count - Lines(Kind(x)) ELSE x.count
NextFetch(x) == x.dummy_count = 0 /\ NextCount(x) = 0

din_ready == ctl.din_valid /\ ctl.xfer_resetn /\ NextFetch(xfer)
dout_valid ==
    /\ ctl.xfer_resetn
    /\ IF xfer.ddr_q THEN xfer.fetch /\ ~xfer.last_fetch
                     ELSE NextFetch(xfer) /\ ~xfer.fetch

\* The lines the controller drives, and with what.
HostLines ==
    IF ~cfg.en \/ xfer.dummy_count > 0 THEN {}
    ELSE CASE Kind(xfer) = "spi"  -> {0}
           [] Kind(xfer) = "dspi" -> IF xfer.rd THEN {} ELSE {0, 1}
           [] OTHER               -> IF xfer.rd THEN {} ELSE 0 .. 3
HostBits == xfer.obuffer \div 2^(8 - Lines(Kind(xfer)))

\* A line nobody drives reads as zero.
Line(i) == IF i \in HostLines THEN Bit(HostBits, i)
           ELSE IF i \in chip.oe THEN Bit(chip.dout, i) ELSE 0
Bus == Line(0) + 2 * Line(1) + 4 * Line(2) + 8 * Line(3)

Sampled(x, bus) ==
    CASE Kind(x) = "spi"  -> ((2 * x.ibuffer) + Bit(bus, 1)) % 256
      [] Kind(x) = "dspi" -> ((4 * x.ibuffer) + (bus % 4)) % 256
      [] OTHER            -> ((16 * x.ibuffer) + bus) % 256

XferReset(x) ==
    [x EXCEPT !.fetch = TRUE, !.last_fetch = TRUE, !.flash_csb = TRUE,
              !.flash_clk = FALSE, !.count = 0, !.dummy_count = 0, !.tag = 0,
              !.dspi = FALSE, !.qspi = FALSE, !.ddr = FALSE, !.rd = FALSE,
              !.obuffer = 0, !.ibuffer = 0]

Toggle(x) == ~x.flash_clk /\ ~x.flash_csb
XferShift(x) ==
    IF x.dummy_count > 0
    THEN [x EXCEPT !.flash_clk = Toggle(x),
                   !.dummy_count = @ - Flag(x.flash_clk)]
    ELSE IF x.count > 0
    THEN [x EXCEPT !.flash_clk = Toggle(x), !.count = NextCount(x),
            !.obuffer = IF Shifts(x) THEN (@ * 2^Lines(Kind(x))) % 256 ELSE @,
            !.ibuffer = IF ~x.flash_clk \/ Kind(x) = "ddr"
                        THEN Sampled(x, Bus) ELSE @]
    ELSE x

XferTake(x) ==
    [x EXCEPT !.flash_csb = FALSE, !.flash_clk = FALSE, !.count = 8,
              !.dummy_count = IF ctl.din_rd THEN ctl.din_data % 16 ELSE 0,
              !.obuffer = ctl.din_data, !.tag = ctl.din_tag,
              !.dspi = ctl.din_ddr /\ ~ctl.din_qspi, !.qspi = ctl.din_qspi,
              !.ddr = ctl.din_ddr /\ ctl.din_qspi, !.rd = ctl.din_rd]

XferEdge ==
    LET x == [xfer EXCEPT !.ddr_q = xfer.ddr, !.tag_q = xfer.tag]
        y == [XferShift(x) EXCEPT !.fetch = NextFetch(xfer),
                !.last_fetch = IF xfer.ddr THEN xfer.fetch ELSE TRUE]
    IN  xfer' = IF ~ctl.xfer_resetn THEN XferReset(x)
                ELSE IF din_ready THEN XferTake(y) ELSE y

-----------------------------------------------------------------------------
(* spimemio: the configuration register and the sequence of a read.        *)

ready == valid /\ addr = ctl.rd_addr /\ ctl.rd_valid
jump == valid /\ ~ready /\ addr # ctl.rd_addr + 4 /\ ctl.rd_valid

Config == [en : BOOLEAN, ddr : BOOLEAN, qspi : BOOLEAN, cont : BOOLEAN]
Default == [en |-> TRUE, ddr |-> FALSE, qspi |-> FALSE, cont |-> FALSE]

\* Mutant: a new setting takes effect in the middle of a run.
ConfigWithoutReset ==
    /\ softreset' = (~resetn \/ ~cfg.en)
    /\ cfg' = IF ~resetn THEN Default ELSE IF we # None THEN we ELSE cfg
ConfigEdge ==
    /\ softreset' = (~resetn \/ ~cfg.en \/ we # None)
    /\ cfg' = IF ~resetn THEN Default ELSE IF we # None THEN we ELSE cfg

Collect(c) ==
    IF ~dout_valid THEN c
    ELSE CASE xfer.tag_q \in 1 .. 3 -> [c EXCEPT !.buffer[xfer.tag_q - 1] = xfer.ibuffer]
           [] xfer.tag_q = 4 ->
                [c EXCEPT !.rdata = [c.buffer EXCEPT ![3] = xfer.ibuffer],
                          !.rd_addr = IF ctl.rd_inc THEN (@ + 4) % 2^24 ELSE addr,
                          !.rd_valid = TRUE, !.rd_wait = ctl.rd_inc,
                          !.rd_inc = TRUE]
           [] OTHER -> c

\* What was read is dead once rd_valid is down.
Forget(c) ==
    [c EXCEPT !.rd_valid = FALSE, !.rd_addr = 0, !.rdata = NoBytes, !.buffer = NoBytes]

CtlReset(c) ==
    [Forget(c) EXCEPT !.state = 0, !.xfer_resetn = FALSE,
              !.din_valid = FALSE, !.din_tag = 0, !.din_qspi = FALSE,
              !.din_ddr = FALSE, !.din_rd = FALSE]

\* Offer a byte until spimemio_xfer takes it, then go on in state s.
Send(c, d, t, s) ==
    [c EXCEPT !.din_valid = ~din_ready, !.din_data = d, !.din_tag = t,
              !.state = IF din_ready THEN s ELSE @]
\* The byte is through: deselect the chip.
\* Mutant: waits for the offer to be taken, and offers nothing.
DeselectOnReady(c, s) ==
    IF din_ready THEN [c EXCEPT !.xfer_resetn = FALSE, !.state = s] ELSE c
Deselect(c, s) ==
    IF dout_valid THEN [c EXCEPT !.xfer_resetn = FALSE, !.state = s] ELSE c

ReadCommand == CASE cfg.ddr /\ cfg.qspi  -> 237   \* EDh
                 [] cfg.qspi /\ ~cfg.ddr -> 235   \* EBh
                 [] cfg.ddr /\ ~cfg.qspi -> 187   \* BBh
                 [] OTHER                -> 3
ModeByte == IF cfg.cont THEN 165 ELSE 255

SendAddress(c) ==
    IF valid /\ ~ready
    THEN [Send(c, addr \div 65536, 0, 6) EXCEPT !.din_qspi = cfg.qspi,
                                                !.din_ddr = cfg.ddr]
    ELSE c
SendLastAddressByte(c) ==
    LET d == Send(c, addr % 256, 0, IF cfg.qspi \/ cfg.ddr THEN 8 ELSE 9)
    IN  IF din_ready THEN [d EXCEPT !.din_data = 0] ELSE d
\* Mutant: the lines are not turned around after the mode byte.
SendModeKeepsDriving(c) ==
    LET d == Send(c, ModeByte, 0, 9)
    IN  IF din_ready THEN [d EXCEPT !.din_data = latency] ELSE d
SendMode(c) ==
    LET d == Send(c, ModeByte, 0, 9)
    IN  IF din_ready THEN [d EXCEPT !.din_rd = TRUE, !.din_data = latency] ELSE d

Sequence(c) ==
    CASE c.state = 0  -> Send(c, 255, 0, 1)
      [] c.state = 1  -> Deselect(c, 2)
      [] c.state = 2  -> Send(c, 171, 0, 3)
      [] c.state = 3  -> Deselect(c, 4)
      [] c.state = 4  -> [Send(c, ReadCommand, 0, 5) EXCEPT !.rd_inc = FALSE]
      [] c.state = 5  -> SendAddress(c)
      [] c.state = 6  -> Send(c, (addr \div 256) % 256, 0, 7)
      [] c.state = 7  -> SendLastAddressByte(c)
      [] c.state = 8  -> SendMode(c)
      [] c.state = 9  -> Send(c, c.din_data, 1, 10)
      [] c.state = 10 -> Send(c, 0, 2, 11)
      [] c.state = 11 -> Send(c, c.din_data, 3, 12)
      [] OTHER -> IF ~ctl.rd_wait \/ valid THEN Send(c, c.din_data, 4, 9) ELSE c

Jump(c) ==
    IF ~jump THEN c
    ELSE [Forget(c) EXCEPT !.rd_inc = FALSE, !.xfer_resetn = FALSE,
                   !.din_rd = FALSE, !.state = IF cfg.cont THEN 5 ELSE 4,
                   !.din_qspi = @ /\ cfg.cont, !.din_ddr = @ /\ cfg.cont]

CtlEdge ==
    LET c == [ctl EXCEPT !.xfer_resetn = TRUE, !.din_valid = FALSE]
        d == Collect(c)
        e == IF valid THEN [d EXCEPT !.rd_wait = FALSE] ELSE d
    IN  ctl' = IF ~resetn \/ softreset THEN CtlReset(c) ELSE Jump(Sequence(e))

-----------------------------------------------------------------------------
(* The flash chip.  It reacts to the select line and to both edges of the  *)
(* clock; what it has counted past the fifth byte makes no difference.     *)

flash_csb == IF cfg.en THEN xfer.flash_csb ELSE TRUE
flash_clk == cfg.en /\ xfer.flash_clk

Reading(c) == CASE c = 187 -> "dspi_rd" [] c = 235 -> "qspi_rd" [] OTHER -> "ddr_rd"
Writing(c) == CASE c = 187 -> "dspi_wr" [] c = 235 -> "qspi_wr" [] OTHER -> "ddr_wr"
FastReads == {187, 235, 237}

\* The first byte is a command.
Command(h) ==
    IF h.bytecount # 1 THEN h
    ELSE [h EXCEPT !.cmd = h.buffer, !.xip = IF h.buffer = 255 THEN 0 ELSE @,
                   !.powered = IF h.buffer = 171 THEN TRUE
                               ELSE IF h.buffer = 185 THEN FALSE ELSE @]
Address(h) ==
    IF h.bytecount \in 2 .. 4
    THEN [h EXCEPT !.addr = (256 * @ + h.buffer) % 2^24] ELSE h
\* A fast read goes on to more lines, and takes a mode byte.
FastMode(h) ==
    CASE h.bytecount = 1 /\ h.cmd # 237 -> [h EXCEPT !.mode = Reading(h.cmd)]
      [] h.bytecount = 1 /\ h.cmd = 237 -> [h EXCEPT !.next_mode = "ddr_rd"]
      [] h.bytecount = 5 -> [h EXCEPT !.xip = IF h.buffer = 165 THEN h.cmd ELSE 0,
                                      !.mode = Writing(h.cmd),
                                      !.dummycount = latency]
      [] OTHER -> h
Supply(h, first) ==
    IF h.bytecount < first THEN h
    ELSE [h EXCEPT !.buffer = memory(h.addr), !.addr = (@ + 1) % 2^24]

spi_action(h0) ==
    LET h == Command(h0)
    IN  IF ~h.powered THEN h
        ELSE IF h.cmd = 3 THEN Supply(Address(h), 4)
        ELSE IF h.cmd \in FastReads THEN Supply(FastMode(Address(h)), 5)
        ELSE h

ByteDone(h) ==
    IF h.bitcount < 8 THEN h
    ELSE spi_action([h EXCEPT !.bitcount = 0,
                              !.bytecount = IF @ < 6 THEN @ + 1 ELSE @])
ShiftIn(h, n, bits) ==
    ByteDone([h EXCEPT !.buffer = (@ * 2^n + bits) % 256, !.bitcount = @ + n])
Drive(h, lines) ==
    [h EXCEPT !.oe = lines,
              !.dout = IF lines = {1} THEN 2 * Bit(h.buffer, 7)
                       ELSE IF 3 \in lines THEN h.buffer \div 16
                       ELSE h.buffer \div 64]
ddr_wr_edge(h) == ShiftIn(Drive(h, 0 .. 3), 4, 0)

\* Deselected, the chip forgets the byte under way; selected, it takes up a
\* continuous read.  What it had latched as command and address is dead.
Select(h, csb) ==
    IF csb THEN [h EXCEPT !.buffer = 0, !.bitcount = 0, !.bytecount = 0,
                          !.mode = "spi", !.oe = {}, !.cmd = 0, !.addr = 0]
    ELSE IF h.xip = 0 THEN h
    ELSE spi_action([h EXCEPT !.buffer = h.xip, !.bitcount = 0, !.bytecount = 1])

ClockLow(h0) ==
    LET h == IF h0.dummycount > 0 THEN [h0 EXCEPT !.oe = {}]
             ELSE CASE h0.mode = "spi"     -> Drive(h0, {1})
                    [] h0.mode = "dspi_wr" -> Drive(h0, {0, 1})
                    [] h0.mode = "qspi_wr" -> Drive(h0, 0 .. 3)
                    [] h0.mode = "ddr_rd"  -> ShiftIn(h0, 4, Bus)
                    [] h0.mode = "ddr_wr"  -> ddr_wr_edge(h0)
                    [] OTHER               -> [h0 EXCEPT !.oe = {}]
    IN  IF h.next_mode = "" THEN h
        ELSE [h EXCEPT !.oe = {}, !.mode = h.next_mode, !.next_mode = ""]

ClockHigh(h) ==
    IF h.dummycount > 0 THEN [h EXCEPT !.dummycount = @ - 1]
    ELSE CASE h.mode = "spi" -> ShiftIn(h, 1, Bit(Bus, 0))
           [] h.mode \in {"dspi_rd", "dspi_wr"} -> ShiftIn(h, 2, Bus % 4)
           [] h.mode = "ddr_wr" -> ddr_wr_edge(h)
           [] OTHER -> ShiftIn(h, 4, Bus)

ChipEdge ==
    LET selected == IF flash_csb' # flash_csb THEN Select(chip, flash_csb') ELSE chip
        changed == flash_csb' # flash_csb \/ flash_clk' # flash_clk
    IN  chip' = IF flash_csb' \/ ~changed THEN selected
                ELSE IF flash_clk' THEN ClockHigh(selected) ELSE ClockLow(selected)

-----------------------------------------------------------------------------
(* The processor: it holds a read until it is answered, writes the         *)
(* register in a cycle of its own, and runs from RAM while the controller  *)
(* is disabled for commands of its own (flashio in picosoc/firmware.c).    *)

StartRead ==
    /\ cfg.en
    /\ valid' = TRUE /\ addr' \in Addrs /\ we' = None
WriteConfig ==
    /\ we' \in IF cfg.en THEN Settings \cup {[cfg EXCEPT !.en = FALSE]}
                         ELSE {[cfg EXCEPT !.en = TRUE]}
    /\ UNCHANGED <<valid, addr>>
Rest ==
    /\ we' = None
    /\ UNCHANGED <<valid, addr>>
TakeAnswer ==
    /\ ready
    /\ valid' = FALSE /\ we' = None
    /\ UNCHANGED addr

Processor ==
    \/ /\ ~resetn
       /\ valid' = FALSE /\ we' = None
       /\ UNCHANGED addr
    \/ /\ resetn /\ valid
       /\ TakeAnswer \/ (~ready /\ Rest)
    \/ /\ resetn /\ ~valid
       /\ Rest \/ (we = None /\ (StartRead \/ WriteConfig))

-----------------------------------------------------------------------------
\* Registers without a reset value start at zero; none is used before it is set.
Init ==
    /\ latency \in Latencies /\ stranded = FALSE
    /\ resetn = FALSE /\ valid = FALSE /\ addr \in Addrs /\ we = None
    /\ cfg = Default /\ softreset = TRUE
    /\ ctl = [state |-> 0, xfer_resetn |-> FALSE, din_valid |-> FALSE,
              din_data |-> 0, din_tag |-> 0, din_qspi |-> FALSE,
              din_ddr |-> FALSE, din_rd |-> FALSE, buffer |-> NoBytes,
              rdata |-> NoBytes, rd_addr |-> 0, rd_valid |-> FALSE,
              rd_wait |-> FALSE, rd_inc |-> FALSE]
    /\ xfer = [obuffer |-> 0, ibuffer |-> 0, count |-> 0, dummy_count |-> 0,
               dspi |-> FALSE, qspi |-> FALSE, ddr |-> FALSE, ddr_q |-> FALSE,
               rd |-> FALSE, tag |-> 0, tag_q |-> 0, fetch |-> TRUE,
               last_fetch |-> TRUE, flash_csb |-> TRUE, flash_clk |-> FALSE]
    /\ chip = [buffer |-> 0, bitcount |-> 0, bytecount |-> 0, dummycount |-> 0,
               cmd |-> 0, xip |-> 0, addr |-> 0, powered |-> FALSE,
               mode |-> "spi", next_mode |-> "", oe |-> {}, dout |-> 0]

\* A continuous read ends with a mode byte that is not A5h, and the chip takes
\* the FFh for its first bytes: two of a dual read, five of the others, if no
\* dummy cycles are left over.  The dummy cycles that follow the mode byte must
\* be over with the second command, the wake-up.
ClocksToModeByte(h) ==
    h.dummycount + (CASE h.xip = 187 -> 16 [] h.xip = 235 -> 8 [] OTHER -> 4)
Deaf(h) ==
    h.xip # 0 /\ (ClocksToModeByte(h) > 8 \/ ClocksToModeByte(h) + latency > 16)
History == stranded' = IF ctl.state = 0 /\ xfer.flash_csb THEN Deaf(chip) ELSE stranded

\* A reset may come at any edge; it does not reach the chip.
Next ==
    /\ ConfigEdge /\ CtlEdge /\ XferEdge /\ ChipEdge
    /\ Processor
    /\ resetn' \in BOOLEAN
    /\ History /\ UNCHANGED latency

Spec == Init /\ [][Next]_vars
\* The clock runs.  A reset may come, but nothing can count on one.
FairSpec == Spec /\ WF_vars(Next /\ resetn')

-----------------------------------------------------------------------------
\* The settings of the table in picosoc/README.md: a read on one line has no
\* mode byte, so it cannot be continued.
ValidSetting(s) == s.cont => s.ddr \/ s.qspi
\* Without dummy cycles, data at both edges come half a clock after the sample.
Readable(s) == ValidSetting(s) /\ (s.ddr /\ s.qspi => latency > 0)

\* A read is answered with the word the flash holds at the address the
\* processor waits for: whatever was being prefetched, whatever mode the
\* controller was in before, wherever in a command the register was written or
\* the reset came, unless the chip was left in a continuous read it cannot be
\* called out of.
ReadsAreFlash == ready /\ Readable(cfg) /\ ~stranded => ctl.rdata = WordAt(addr)

\* The controller and the chip never drive the same line at once: the lines
\* are turned around during the dummy cycles and when the chip is deselected.
\* The one exception is the FFh that ends a continuous read at both edges: the
\* chip has all it expects after four clocks and, with four dummy cycles or
\* fewer, answers while the rest is still going out.
OneDriver ==
    ~flash_csb /\ ~stranded /\ (ctl.state \in 0 .. 2 => latency > 4)
    => HostLines \cap chip.oe = {}

\* A read is answered in the end, unless the system is reset: jumps, prefetching
\* and changes of mode leave the sequence in no state it cannot leave.
ReadsAnswered == valid ~> ready \/ ~resetn
=============================================================================

# Verification of the PicoRV32 / XPix system

The repository is a small image-processing computer: the PicoRV32 processor
core, a coprocessor with five packed-pixel instructions (XPix), a bus with block
RAM and a UART, the firmware of an image server, and the host program that
uploads two frames, has an operation applied to them and checks the result. With
the core come the systems and programs of its upstream project: PicoSoC, which
runs its firmware from a serial flash, a test firmware that handles interrupts,
and the Dhrystone benchmark with a C library of its own. This directory holds
TLA+ models of these parts, TLC runs that check them on small instances and TLAPS
proofs for all instances.

Contents: 1 inventory, 2 modules and their relation to the code, 3 runs,
4 fairness, 5 proofs, 6 abstractions, 7 disagreements with the
documents, 8 what is not modelled, 9 plan.

## 1. Inventory

| Part | Source | State it keeps | Operations | Talks to |
|---|---|---|---|---|
| Core | `rtl/picorv32.v` (identical to `picorv32.v`) | memory interface (state, request registers, four `mem_do_*` flags), two decoder stages, program counters, operand/result registers, latches for the write-back, register file, ALU registers, PCPI request and timeout, main state | one clock edge: memory FSM, decoder, ALU, register file port, timeout, main FSM (trap, fetch, ld_rs1, ld_rs2, exec, shift, stmem, ldmem), reset | memory by `mem_valid/mem_ready`, coprocessor by `pcpi_valid/wait/ready` |
| XPix | `rtl/xpix_pcpi.v` | state IDLE/EXEC/DONE, operands, operation, result | latch, execute, finish, abort, reset | core, by PCPI |
| Bus and RAM | `rtl/xpix_soc.v`, `rtl/soc_bram.v` | RAM, registered answer, result register | serve, acknowledge | core on one side, UART registers on the other |
| UART | `rtl/simpleuart.v` | divider; receiver (state, counter, shift register, buffer of one byte); transmitter (shift register, bit count, counter, pending idle time) | one clock edge | bus, line |
| Board top | `rtl/zcu102_top.v` | two-stage synchronisers of the reset and of the line | shift | line |
| Image server | `firmware/xpix/board_server.c`, `firmware/uart.c` | threshold, frames A, B, X, position in the command | commands 01, 02, 10..15, 20, 30, others | UART, by polling and by stalled stores |
| Pixel kernels | `board_server.c: run`, `firmware/xpix.h`, `host/golden.py` | - | five operations and "motion", in three implementations | |
| Interrupts | `picorv32.v` (`ENABLE_IRQ`) | `irq_state`, `irq_pending`, `irq_mask`, `irq_active`, `irq_delay`, `do_waitirq`, timer, q registers | take an interrupt, wait for one, `getq`, `setq`, `retirq`, `maskirq`, `timer`; `ebreak` and illegal instructions as interrupts | interrupt lines, program |
| Multiplier, divider | `picorv32.v` (`picorv32_pcpi_mul`, `_div`) | decoded instruction, wait, accumulator or quotient, step counter | start, one step, finish | core, by PCPI |
| Test firmware | `firmware/start.S`, `irq.c`, `sieve.c`, `multest.c`, `stats.c`, `hello.c`, `print.c` | saved registers, interrupt counts, console, bitmap, hash, operands | reset code, interrupt wrapper, handler, the programs | core; test bench, by interrupts and stores |
| SPI flash controller | `picosoc/spimemio.v` | configuration, command sequence (state), prefetch address, shifter | read, prefetch, jump, change of mode | bus; flash, by four lines |
| SPI flash | `picosoc/spiflash.v` | command, address, mode, continuous read, shifter | select, clock up, clock down | controller |
| PicoSoC firmware | `picosoc/firmware.c` | position in the menu, mode and latency it has selected | every command of the menu | controller, by `reg_spictrl`; flash, by `flashio`; UART |
| Dhrystone | `dhrystone/dhry_1.c`, `dhry_2.c`, `stdlib.c` | globals, two records, arrays, string buffers | `main`, `Proc_1` .. `Proc_8`, `Func_1` .. `Func_3`, `strcpy`, `strcmp`, `malloc`, `printf` | - |
| Host | `host/uart_host.py` | position in the session, bytes received | upload, threshold, compute, fetch, compare, time out | serial port |

What is hard about it:

* The core prefetches before it knows where it goes, decodes in two stages with a
  data word possibly in between, writes a result back while the next instruction
  is launched, and may be reset in any cycle of it.
* The timeout of the core, the wait of the coprocessor and the withdrawal of a
  request race each other.
* The RAM makes a store one edge before it acknowledges it; the UART registers
  acknowledge in the same cycle; both share one read path.
* The UART receiver finds frames by timing only: unequal clocks, a sender that is
  reset inside a frame, a divider written between frames.
* The host protocol has no lengths, no checksums and no retries. It is kept in
  step by acknowledgements alone, over receive buffers of one byte. Host and board
  can be restarted independently.

* An interrupt is taken between any two instructions of C code, in passes of the
  fetch state that are no instruction; lines may rise on the edge on which the
  pending ones are cleared, and in the handler.
* The flash controller reads on past what it was asked for, turns lines around in
  the middle of a command and can be reconfigured in it. The firmware changes the
  mode of the flash that its own code is fetched from.
* The string functions of the library look for the end four bytes at a time.

What makes each part correct:

* Core: it executes the instruction set one instruction after the other
  (`ImplementsIsa`), keeps the bus protocol, and never stops but for a trap or an
  address without memory.
* XPix: each answer is that of the request on the port, after two edges, and the
  wait line is up for exactly the legal requests.
* Bus: a memory in which loads see the last acknowledged store; one load per
  received byte; one frame per stored byte; every mapped transfer is acknowledged.
* UART: what is stored at one end is loaded at the other, in order.
* Kernels: all three implementations agree for all bytes.
* Sessions: one that starts on a ready server and is left alone succeeds, and
  every session ends.

* Interrupts: each one asked for is served once, the interrupted program does not
  notice, and the firmware comes to its end with all tests passed.
* Multiplier and divider: the results C computes, for all operands.
* Flash controller: a read returns the word at its address unless the flash was left
  in a continuous read it cannot be called out of, no line has two drivers, every
  read is answered.
* PicoSoC firmware: controller and flash agree after every write of the register
  and at every command, but in the two cases in which the firmware loses the flash;
  until then every key is taken; what is printed is the number; the memory test
  accuses the right word.
* Dhrystone: the values its own comments and output say there should be, whatever
  the layout of memory.

The full list of hazards, each at its line and with the properties that cover it,
is in `PROJECT.json`.

## 2. Modules

| Module | Models | Relation to the code |
|---|---|---|
| `XPixLanes` | the pixel arithmetic | `Lane` is the Verilog function, `RunXPix`/`RunBaseline` are the two builds of `run()`, `Golden` is `golden.py` |
| `PixelKernel` | the loop of commands 0x10..0x15 | `Iterate` is the loop body |
| `XPixPcpi` | the coprocessor and the master of its port | one operator per branch of the `always` block; `Master` is what `cpu_state_ld_rs1/ld_rs2` do to the port |
| `PicoData` | words, addresses, instruction classes | a word of memory is a decoded instruction or a number |
| `PicoCore` | the core | registers keep their names; one operator per branch; `Edge` is the clock edge |
| `Isa` | **abstract**: the instruction set | one instruction per step on a memory of bytes |
| `NativeMemory` | **abstract**: the memory the core may rely on | answers when it likes; a store is made when it is answered |
| `PicoSystem` | core + `NativeMemory` + coprocessor | composes `PicoCore`, `XPixPcpi`, `NativeMemory`; refines `Isa` |
| `SocBus` | bus, block RAM, registers, UART | composes `SimpleUart`; refines `NativeMemory` and `SerialLink` |
| `SimpleUart` | the UART | one operator per branch of its three `always` blocks |
| `SerialLink` | **abstract**: a line | bytes arrive in order in a buffer of one byte |
| `UartLink` | two UARTs on a line, synchroniser between them | refines `SerialLink` |
| `ImageServer` | the server firmware | `pc` says at which `uart_getc` it waits, `out` what it still has to send |
| `ImageSession` | the host and the two directions of the line | `Script` is what `main()` writes and expects |
| `PcpiMulDiv` | multiplier and divider | `MulEdge`, `DivEdge`: the registers after an edge as a function of those before and of the request |
| `PicoIrq` | the interrupts of the core and the instructions that handle them | an action is an edge in which the fetch state or `ld_rs1` does something; composes `PcpiMulDiv` |
| `TestFirmware` | the test firmware on that core | `Code` is the program; wrapper and reset code one instruction, C code one statement at a time |
| `SpiMemio` | flash controller and flash | `ctl`, `xfer`, `chip` are the registers of the three Verilog modules; an `always` block is a chain of functions on its record |
| `PicoFirmware` | the PicoSoC firmware | `todo` holds the calls a command still has to make, in order |
| `StdLib` | the C library | functions on a memory of bytes; a loop is described by where it stops |
| `Dhrystone` | the benchmark | `g` the globals and records, `l` the locals of `main`, `mem` the bytes of buffers and literals |
| `XPixLanes_proofs`, `PixelKernel_proofs`, `XPixPcpi_proofs`, `UartLink_proofs`, `SocBus_proofs`, `PicoSystem_proofs`, `PicoFirmware_proofs`, `ImageSession_proofs` | theorems about the module of that name | see section 5 |
| `MC*` | constants of the runs | |

How the models fit together: `ImageSession` assumes of the line what `SerialLink`
says, that bytes arrive in order in a buffer of one; `UartLink` and `SocBus` show
that two UARTs, and the bus in front of them, provide it. It computes results with
the arithmetic of `XPixLanes`, and `PixelKernel` shows that the loop does so.
`PicoSystem` runs on `NativeMemory`, and `SocBus` shows that the block RAM behind
the bus is one. `Isa` uses `Golden`, not `Lane`, for the pixel instructions, so
its refinement includes that of the coprocessor.

`TestFirmware` has the program and `PicoIrq` the processor: a step of a C statement
is an instruction of the core that takes one edge, so an interrupt can fall between
any two. What a C function keeps in a register across statements is in a register
in the model too, which is what the wrapper must save. `multest()` compares the
results of `PcpiMulDiv` with `Soft`, the operators of C. `PicoFirmware` assumes of
the flash port what `SpiMemio` shows: a read succeeds when controller and flash
agree, and a write of the register makes the controller start over, which ends a
continuous read unless it is a dual one. `Dhrystone`
calls `StdLib` on its string buffers.

**Refinement of the core.** The mapping to `Isa` (end of `PicoSystem`): `pc` is
`current_pc` in the fetch state and `reg_pc` elsewhere; `ir` is the word launched
last, or the word about to be launched; the registers are the register file after
the write-back that is pending. Three things a programmer may not expect are part
of the abstract promise, each found while making the refinement hold: the next
word is read before a store is made, so a store to the very next instruction is
not seen; a misaligned store halts the core but its bytes still reach the memory,
at the address rounded down (`late`); and a reset may lose the one result that is
on its way to the register file, and may or may not make the store it cuts.

**Refinement of the memory.** The RAM makes a store on the edge on which it raises
its answer. Mapped to `NativeMemory` the store counts from its acknowledgement, so
the memory shown is the one without it (`Settled`) until then. A reset between
the two shows why `NativeMemory` leaves it open whether such a store is made.

**Refinement of the line.** `flight` holds the bytes between the accepted store
and the receive buffer. A frame cut by a reset of the sender becomes `Torn` and
yields one arbitrary byte. It must be off the line before the next byte is sent,
which is what the idle time after a reset is for.

## 3. Runs

All pass. Where the code disagrees with a document, a property says how far the
promise holds (section 7).

| Run | Instance | Shows |
|---|---|---|
| `pixel_kernel` | bytes 0..1, two lanes, two words, all frames, operations and thresholds | the loop computes the host's reference. Lanes and words do not interact, so two of each show a mix-up; the theorem has all sizes |
| `xpix_pcpi` | one lane, bytes 0..2 | no stale answer, latency two, wait exact, with resets and withdrawals at any edge |
| `pico_core` | all programs of three of 8 jumps and branches, of three of 8 accesses, or of three of 9 pixel and other words | jumps, branches both ways, links, misaligned targets; every size of access, misaligned, without memory, into the program; pixel instructions, refused ones, the timeout; memory requests match the states; decoder stages agree; bus protocol |
| `pico_serial` | all programs of two of 7 words and one of two | single register port, serial shifter, two-cycle ALU and comparison; liveness of the core |
| `soc_bus` | one word of RAM of two bytes, 13 kinds of transfer in any order, bit time 3 cycles | the bus is a memory, one load per byte, one frame per byte, every mapped transfer acknowledged |
| `uart_link` | two links: divider 3 with resets of the sender at any edge and of the idle receiver; dividers 21 and 23 against 22 | the line keeps the bytes in order, also with bit times that differ by a twentieth |
| `image_session` | four pixels in blocks of two, two command lines, two troubles | sessions; pixels that look like commands; kills and resets at any point |
| `spimemio` | two neighbouring words, all eight settings, 0, 4 or 8 dummy cycles, resets at any edge | reads are answered with the word, lines have one driver |
| `spimemio_live` | the same words, a setting of each width, one dummy cycle | every read is answered |
| `picosoc` | both boards, all twelve keys and three others, ten kinds of memory fault, four words to print | the flash is lost in two ways only, commands are understood, numbers are printed, the memory test is honest, the menu listens as long as the code can be fetched |
| `dhrystone` | two runs of the loop, every alignment of the buffers, texts of one to four bytes around the constants of the word test | final values, values in the comments, no byte written beside the copies |
| `test_firmware` | two set-ups: three interrupts from outside and the timer at any step; all pairs of 4-bit operands with the one interrupt the firmware waits for | no interrupt lost or served twice, the console, the trap at the end and nowhere else, the end is reached |

Why these bounds suffice to be worth running:

* Three instructions fill the pipeline of the core (one executing, one decoded, one
  prefetched) and loops and jumps repeat them; with the ebreak behind them and the
  data words all interactions of neighbours occur. Words have 8 bits in four bytes
  of base 4, so sums wrap, bytes saturate and accesses can be misaligned at every
  size. The memory answers after any number of cycles, the reset comes at any edge.
  The timeout of the core has its real value, 15. All runs have `WITH_PCPI`, as the
  SoC does; the proofs have either value.
* In the first link of `uart_link` a bit is five cycles, enough for the two-stage
  synchroniser and the half bit. In the second it is about 24, so that a twentieth
  is one cycle per bit and the error of ten bits is close to half a bit.
* In `soc_bus` at most two bytes are on the way; a third store stalls. A byte is
  all zeros or a mix of bits. The divider is only ever set to the value it has
  (others: `UartLink`), and the reset, which both ends of the looped line share,
  comes between two bytes; `OpenSpec`, which the proofs are about, has it at any
  edge.
* `MaxTroubles` = 2: a kill, reset or start on an unready server can itself be
  followed by another before the system has recovered. More only repeat.
* In `spimemio` a word and its successor are the three cases of a read: answered
  from the prefetch, continued, a jump. Neighbouring bytes and words of the flash
  differ, so a wrong one is noticed. The processor may wait any time between reads.
  Dummy cycles matter at their ends: none, the four at which a command can be clocked
  out while the flash answers, and the eight software starts with. The same
  properties hold for every number of them from 0 to 15, each in a run of its own
  that is not kept here. Liveness has one setting of each width, as what follows a
  command is the same with the CRM bit and without but for the jump, which is there
  in both forms.
* `picosoc` runs until every command has followed every other. A prompt is repeated
  after `Timeout` = 2 polls, and the cycle counter wraps at 4, so it wraps inside a
  wait. The faults lie on the walk of the memory test and beside it. `Values` have
  zeros inside, in front and nowhere; `BenchSize` = 3 bytes have every pattern.
* In `dhrystone` every pair of alignments of source and destination occurs, and
  bytes of 1, 128 and 255 at any place of a word. From the second run on the
  program is in the state the first has left.
* `test_firmware`: two pulses on one line and one on the other let an interrupt
  come before, during and after the handler of another and of the timer, in the
  passes that write the q registers as well. Words have `W` = 4 bits in chains of
  `CARRY_CHAIN` = 2, so carries leave a chain, and all pairs of operands of all
  eight operations are tried. `Registers` are those the modelled code and the
  wrapper use.

Two runs set `CHECK_DEADLOCK FALSE`: `pixel_kernel` ends when the frame is done,
`image_session` when the last session has ended and nobody starts another.

Each property comes with a mutant of the code (`mutants` in `PROJECT.json`, the
definition marked "Mutant" in the module) under which TLC finds it violated.

## 4. Fairness

* `PicoSystem.FairSpec`: the clock runs outside a reset, and the memory acknowledges
  a transfer to an address it has, sooner or later (the bus does: `Served`).
  `Progress` is about behaviours in which the reset comes to an end. Nothing is
  assumed of the program.
* `SocBus.FairSpec` and `SpiMemio.FairSpec`: the clock runs outside a reset. The reset
  may come at any time and ends a transfer, but fairness is on edges without one: a
  system in which nothing can change any more is not saved by it.
* `PicoFirmware.FairSpec`: the firmware makes its next call, which it can only while
  the code it runs is fetched right. No fairness on the user. `AlwaysListens` says
  nothing once the code cannot be fetched, and `FetchesDecode` says when that is.
* `TestFirmware.FairSpec`: the clock runs. The first instruction waits for an
  interrupt, so this includes that the test bench raises one, as it does in every
  8192 cycles.
* `ImageSession.FairSpec`: the processor, each direction of the line and the host
  program make their next step if they can. No fairness on starting a session,
  killing the host or resetting the board. The timeout of the host is part of the
  fair host step; it is enabled only when nothing is under way, ten seconds
  being long against everything the board does.

`ImageServer` has one assumption about speed (`Slow`): while the server is not
waiting for the line, no two bytes arrive. A frame on the line takes about ten
thousand cycles and an iteration of the upload loop a few dozen. The computation
of a whole frame and the transmission of an acknowledgement are *not* covered by
the assumption: there the protocol itself must keep the host quiet
(`OneDirection`, `CleanSessionSucceeds`).

## 5. Proofs

Checked by `tlapm` to the last leaf, for every value of the constants.

* `XPixLanes_proofs`. For any byte width and lanes: the Verilog lane function, both
  builds of the C code and the Python reference agree, "motion" included. Case
  analysis over the operations; assumes the threshold fits in a byte, which the
  server ensures.
* `PixelKernel_proofs.KernelCorrect`. `Spec => []ResultIsGolden` for frames of any
  size. The invariant is `TypeOK` with the property: words below the counter are
  right and the loop does not touch them again.
* `XPixPcpi_proofs`. `AnswersCurrentRequest`, `FixedLatency` and
  `WaitExactlyForLegal` for any master of the port. None is inductive: from DONE
  alone nothing is known about the port. `Latched` adds that while a request stays
  up the latched operands are those on the port and the state counts the edges;
  `IdleFresh` that an idle coprocessor has not yet seen a legal request. With
  `TypeOK` they form `IInv`. Abort keeps `Latched` because the next request finds
  the state idle; the mutant that forgets the abort breaks exactly there.
* `SocBus_proofs`. `BusIsMemory`: the bus with the block RAM implements
  `NativeMemory`, for any words, lanes and requests and with resets at any edge;
  `AnswersAreCurrent`: an acknowledgement and its data belong to the request that
  is up. The inductive invariant `RamInv` says that while the RAM answers, its
  request is still up, the word has been merged, and the history variable `old`
  holds what a load returns. Nothing is assumed of the UART.

  `BytesAreLoadedOnce`: the line delivers no byte more often than the program loads
  one; it needs only that a load of the data register is what takes the byte.

  `BoardImplementsLink`: what is stored at the data register goes out, comes back and
  is loaded, byte for byte, for any transfers and any divider the board is built
  with. `Uarts` instantiates the module `UartLink_proofs` with the board at both ends
  of the line: the byte that waits is the one in a store to the data register.
  `UartEdge` shows that an edge of the bus is an edge of that line, so that the
  theorem about the line applies, and `UartInv` that no byte is ever spoilt, since the
  one reset of the board comes when the line is quiet.
* `UartLink_proofs`. `LineImplementsLink`: a UART receives what another one sends, in
  order, for any bytes, any two dividers that are close enough, with resets of the
  sender at any edge and of a receiver whose line is quiet. The two ends share no
  state but a wire, so the invariant measures time. `Elapsed` counts the edges since
  the start bit came to the synchroniser, whatever state the receiver is in
  (`ElapsedStep`). `Follows(b, j, c)` says that the sender, which is `c` edges
  into bit `j`, got there in `j` bits no shorter than `Fast` and no longer than `Slow`,
  and that the synchroniser holds what it must after `c` edges. `Tolerance` derives
  from `LinksAssumption` that between those two lengths bit `k` is on the line when the
  receiver looks at it, so it takes the right one (`RightBit`) and the bits received
  are those of the byte (`ReceivedStep`). The invariant `Inv` (`LineInStep`) says of
  the line that it is in one of five phases: idle, sending, sent (the receiver is
  still busy with the stop bit), spoilt by a reset, or at the one edge where the next
  byte has been accepted as the last one arrives (`Overlap`). Each has a lemma for
  its steps (`SentStep` and so on). In the spoilt phase the sender's idle time of
  fifteen bits outlasts what the receiver can still make of the frame; that is what
  `send_dummy` is for. `TypeCorrect` includes that no counter wraps, and
  `NothingIsOwed` that two bytes are under way at no other edge than that of
  `Overlap`. The edges of the two ends are put in terms of these measures once
  (`TxEdge`, `RxEdge`). TLC checked `Inv` on both links of the run.
* `PicoSystem_proofs`, control. The memory interface of the core, for any program, any words
  and any memory that answers when it likes. `ControlInOrder` is the invariant
  `RequestsMatchState` relates the `mem_do_*` flags, `mem_state` and `cpu_state`;
  `AssertionsHold` are the four `assert`s of the Verilog source;
  `DecoderStagesAgree` and `PixelsAreSpared` concern the two decoder stages and the
  PCPI timeout; `BusProtocolKept` is the action property that a request, once up,
  stays as it is until it is acknowledged. None is inductive alone: what the memory
  state machine may do in a state depends on who asked, so `ControlInv` says for
  every `cpu_state` which request may be up, for what, and whether the prefetched
  word is still owed; and the PCPI part carries the invariant of
  `XPixPcpi_proofs`. TLC checked `IInv` on the three runs of the core.
* `PicoSystem_proofs`, data. `CoreImplementsIsa` is `Spec => ImplementsIsa`:
  the core implements its instruction set, for any program, registers, word width
  and parameters of the core, any memory that answers when it likes, with or without
  the coprocessor, and with resets at any edge. It needs a second inductive invariant,
  `DataInv`, on top of `ControlInv` (together `Core`; `CoreInOrder` is `Spec =>
  []CoreInv`). State by state it says what the registers of the core hold, in terms of
  the word launched last (`dbg_insn`) and the register file: where execution goes on
  and which word is fetched or held for it (`PrefetchInv`, `FetchInv`); that the
  decoder keeps the instruction until a load or store has fetched the next
  (`BusyInv`, `Loaded`); the operands (`OperandInv`), also those the coprocessor has
  latched; the registers of a two-cycle ALU (`ExecInv`); what a serial shift has
  left to do (`ShiftInv`); and address, strobes and bytes on the bus (`AccessInv`).
  None of this follows from what an instruction computes: `latched_branch` may stay
  set only in the execution state, a prefetch may be under way for an address that
  is not the next one only while its word is going to be dropped, and a trapped core
  may still hold a store. At power-up nothing is known but the types, so `CoreInv` is
  `Init \/ Core`, and a reset leads from either to `Core` (`DataReset`).

  The refinement has a lemma per state of the main state machine, `FetchIsa`,
  `OperandIsa`, `ExecIsa`, `ShiftIsa`, `AccessIsa`, `TrapIsa`, and one for the reset:
  each action of the core is one instruction, a late store, a reset, or a stutter of
  the mapping. An ALU instruction is seen when the core is back in the fetch
  state, a jump when it is launched, and what is seen then is the write-back that
  is still to be made. The lemmas about data that this needs, on
  remainders, shifts (`ShiftInSteps`: the serial shifter), byte lanes (`JoinSplit`,
  `SelectedBytes`, `StrobedBytes`, `WrittenBytes`) and the pixel lanes
  (`PackedGolden`), come first. `Isa` takes the bytes of a load one by one and
  the core selects them from a word; stores likewise.
* `PicoFirmware_proofs`. `FlashLostInTwoWays` (`FetchesDecode`) and `ChipTakesCommands`
  (`CommandsUnderstood`): on both boards, for any keys and values and sessions of any
  length, the code that reconfigures the flash it runs from can go on fetching until
  key `7` is pressed in the default mode or the register is written in a dual
  continuous read; and until then no command the chip must obey is clocked by hand
  into a chip that would not take it. Nothing is assumed of the user. Neither
  property is inductive, since what the next call does is decided by the calls that
  are still to come. `Invariant` (`FirmwareInvariant`) therefore says of the rest of
  the list of calls, however long, that it is `Planned`: the register write that
  changes the controller's latency is followed at once by the command that changes
  the chip's (`InOrder`), registers are read at latency 8 only, and a mode brings its
  latency (`Fits`); and that the CRM bit is set in a quad mode only, be it the
  present one or one the list sets first (`CrmInQuad`). `Ready` says what the next
  call needs of controller and chip, `InStep` that their latencies agree but between
  those two writes, `FlagSet` that nothing comes before the QUAD flag. The list of
  every command is shown to be planned (`CommandsWell`, from lemmas on calls,
  concatenations and the rounds of the benchmark's loops), then each call that is
  fetched (`Decodes`) keeps the invariant: `WrittenRegister` tells the three outcomes
  of a write of the register apart, `FlashStep` those of a command that is understood
  and one that is not. TLC checked `Invariant` on the run of the firmware.
* `ImageSession_proofs`. `SessionsInOrder` (type and `SessionInv`), `SessionsSucceed`,
  `ServerStaysReady`, `LineIsHalfDuplex`: for frames and blocks of any size, any set
  of sessions, hosts killed and boards reset at any point. The properties say
  nothing about a session under way. The invariant therefore lists the
  phases of the script of `main()` (announced, a block on the line, uploading, the
  threshold, computing, downloading, running on after a failure) and says for each
  which bytes are on either direction, what of the frame is in the memory of the
  server, and what the host will accept next. `ScriptAt` computes every entry of the
  script from its position, `ComputedIsGolden` rests on `XPixLanes_proofs`, and
  `ServerStep` and `LinkStep` are proved once and used by every phase. A session
  that starts on a server that is not ready carries no promise; what it may
  leave behind is a server that is not ready either.

Assumptions on constants are named where they are declared: `Top` at least one, lane
0 exists, a word has more than one lane (else a received byte 0xff would read as
"empty"), RAM and register addresses are disjoint, requests are well formed.
`LinksAssumption` bounds the difference of the two clocks: for every divider the
sender may have, the receiver looks at each of the nine bits after the start bit while it
is on the line, which for the 24 cycles of the second link is a twentieth; and a bit fits
in the counter. `UartAssumption`: the divider of the board is positive and fits. Of a
divider of zero, with a bit of two cycles, the receiver would miss the middle.
`ServerAssumption`: bytes are 0..255 and a word has four, as in the firmware; block
and frame are positive and whole (blocks divide the frame, words divide it). With
`PixelCount` 65536 (`SERVER_PIXELS`) and blocks of 256 the code satisfies it. `SessionAssumption` says
only that a session is a record of a command, a frame and a threshold.

Of the core: `BaseAssumption`, a lane has an even number of values (256 in the
hardware), so that a word of values is a multiple of 16 and the address after an
aligned one is aligned; `ProgramsAssumption`, all programs of a system have the same
addresses, multiples of four, and hold code words (`CodeWord`); `UndefinedAssumption`,
`X` is no value and `NoWord` no word. A code word is any word but a `fence` with a
destination: the core has no case for `fence` in its ALU and would write an undefined
result there, where the instruction set says the field is reserved. The assemblers
encode it as zero.

Only model-checked:

* liveness (`Progress`, `Served`, `SessionsEnd`, `ReadsAnswered`, `AlwaysListens`,
  `Finishes`), which this prover does not reach;
* the flash controller, whose states are positions in a bit stream;
* of the PicoSoC firmware, `NumbersPrinted` and `MemtestHonest`: what a loop prints or
  packs and the pseudo-random words of the memory test are folds over a sequence, an
  induction over data;
* Dhrystone, whose claims are the values of variables after a given number of runs of a
  program that is data (a sequence of records): an invariant would be an
  induction over that program;
* the test firmware, because the model of its multiplier uses `Bitwise`, which a
  module with theorems cannot reach.

## 6. Abstractions

* A memory word is a decoded instruction with small fields, or a number; encoding
  and immediate layout are left out. One or a few instructions stand for a class
  that takes the same path through the state machine: `beq`/`bne` for all branches,
  `add`/`sub`/`addi` for the arithmetic and logic operations, `sll`/`slli` for the
  shifts; loads and stores are complete.
* A `'bx` in the code is the model value `X`. A module that computed with it could
  not be evaluated by TLC, so every run also shows that no undefined value is used.
* The one-hot `latched_is_*` flags are a set; `alu_add_sub` and `alu_shl` share a
  register since one instruction uses one of them; the registered flag
  `is_lui_auipc_jal_jalr_addi_add_sub` is computed from the word it was registered
  from, which cannot be told apart.
* The register file powers up zero; the reset vector is 0 and immediates of jumps
  are even, as encoded.
* In `SocBus` an address is the name of what it selects and the divider reads as a
  fixed word. In `UartLink` and `SocBus` a byte is its bits, lowest first.
* The 32-bit counters of the UART have `CounterBits`; the doubled counter of the
  half bit wraps at that width as in the code. The dividers of the runs keep
  away from the wrap.
* In `ImageSession` bytes are numbers and a line delivers whole bytes; blocks have
  `Block` pixels instead of 256.

* `PicoIrq`: an instruction that is not about interrupts executes in one edge (the
  other edges: `PicoCore`), passes of the fetch state that only wait for memory are
  no steps, and a line that rises while a coprocessor works is seen when it is
  done. Addresses count instructions, which are not compressed. The timer raises
  its interrupt at any edge after it was set.
* `PcpiMulDiv`: registers nothing reads again are zero, where the hardware keeps old
  values. The firmware offers the core no instruction that both coprocessors
  refuse, so the timeout is there but does not run out.
* `TestFirmware`: saving and restoring x3 to x31 are one step each, as nothing they
  do can be told apart by an interrupt (`irq_active` is set). The call of a
  `hard_*` function is the instruction it consists of. `riscv-tests` leave any
  junk in the registers. A 32-bit hash is two halves. `stats()` multiplies cycles by
  100; the counters of the run are small enough not to overflow, as those of a run
  of the firmware are. The characters of a line are one element of `console`; those
  of the numbers of `stats()` are there one by one.
* `SpiMemio`: the contents of the flash are a function of the address. A line that
  nobody drives reads as zero. The dummy cycles (`latency`) are one number of the flash
  and of `config_dummy`, chosen at the start. Changes of mode come while no read is
  waited for, but at any point of a prefetch; a reset comes at any edge and does not
  reach the flash. `ReadsAreFlash` has three conditions, none of them on what the
  processor may do:
  * the setting is one of the table in `picosoc/README.md` (`ValidSetting`): in the
    one-line mode spimemio sends no mode byte, so its reads cannot be continued;
  * DDR reads have a dummy cycle at least: with none, the flash model puts data on the
    lines half a clock after the controller has sampled them;
  * the flash was not left `stranded`. The controller starts over with one `FF`, eight
    clocks. `Deaf` counts what a flash in a continuous read still needs to get to its
    mode byte: for a dual read sixteen, for the others no more than eight, but the
    dummy cycles a cut read has left over come first, and those of the `FF` itself must
    be over with the next command. It is a sufficient condition, not claimed to be
    exact.

  `OneDriver` leaves out the `FF` that ends a DDR continuous read with four dummy cycles
  or fewer: after four clocks the flash has its mode byte, and it answers while the
  `FF` is still going out. Both drive the line until the flash is deselected; nothing
  is read then. The firmware uses four and fewer in its benchmark (`Sweep`).
* `PicoFirmware`: what a flash does is what `spiflash.v` does, as far as `SpiMemio`
  shows it: eight clocks of `FF` end a quad continuous read and leave a dual one
  `adrift`. On the chip of one board the latency is a register, on the other it
  is fixed by the mode. A command clocked by hand is longer than what is missing of the
  mode byte: a flash in a continuous read takes it for that, leaves the read and answers
  nothing, so keys `1` and `2` print junk after key `7`. When the code cannot be fetched
  the processor executes whatever it gets; that is not followed (`Lost`). A faulty
  memory is a stuck bit, two addresses of one word, or missing byte strobes. Where a
  transfer clocked by hand leaves the direction of the lines is not kept.
* `print_dec` drops a zero in the tens of a three-digit number (305 is printed as
  35). No number the firmware prints has one: the sizes are 0 and 128, latencies
  are below 16. `NumbersPrinted` is about the numbers it does print.
* `Dhrystone`: "DHRYSTONE PROGRAM, " is four letters, what follows is any of `Texts` in
  the order of '1'ST, 2'ND, 3'RD. Character constants are their codes. A statement
  group of `main` is a step, a procedure a function. The comment at `dhry_1.c:359`,
  "*Int_Par_Ref == 1, becomes 4", is stale and not among those of `CommentsHold`: 1
  becomes 5, as the comment at line 198 and the printed table say.

## 7. Disagreements with the documents

* **A continuous read with dual I/O cannot be left.** The table of valid settings in
  `picosoc/README.md:86-96` has CRM with dual I/O (line 92). To leave any mode,
  `spimemio.v` (state 0, line 236) sends one `FF` on one line; a dual read takes that
  for two of the four bytes of address and mode (`spiflash.v:144-161`), stays
  continuous and is out of step. The HX8K benchmark selects the setting (`dspi-crm`,
  `firmware.c:544`) for eight latencies, so it leaves it several times; the lines that
  would select it on the iCEBreaker are commented out (627-630). In `SpiMemio` this is
  what sets `stranded`, and `ReadsAreFlash` fails without that exception, in the
  default mode and this one alone. In `PicoFirmware` the benchmark of the HX8K board,
  and key `7` in the dual mode followed by any change of mode, end in `adrift`. A real
  chip may differ from the repository's model of it.
* **Key `7` selects a setting that is not valid.** `firmware.c:746` inverts the CRM bit
  in any mode, the default one included. With CRM and neither QSPI nor DDR, the
  controller jumps without a command and the flash without having been told to expect
  that. It is the first exception of `FetchesDecode` in `PicoFirmware`, and `ValidSetting`
  excludes it from `ReadsAreFlash` in `SpiMemio`.

## 8. Not modelled

Compressed instructions (off in the SoC; the fetch of two halves would be a model of
its own), the cycle and instruction counters and the trace output of the core;
`picorv32_pcpi_fast_mul`, a pipelined multiplication; the AXI and Wishbone variants
of the core, which only test benches and evaluation scripts instantiate; `picosoc.v` and the board tops of
PicoSoC, wiring and address decoding like `xpix_soc.v`; `dhry_1_orig.c`, the upstream
form of `dhry_1.c`; the start-up code and system calls of the benchmark;
`image_bench.c`, which repeats the kernels of the server; one assembly test per
instruction; test benches, scripts, and synthesis flows. `PROJECT.json` lists each
with its reason.

## 9. Plan

1. Done: coprocessor and kernels with their proofs; the core against the
   instruction set; the UART against a line; the bus against a memory; sessions;
   interrupts with multiplier, divider and test firmware; the flash controller and
   the firmware that reconfigures it; Dhrystone and its library.
2. Next theorems: `OneDriver` of `SpiMemio`; `IrqsCounted`, for which `PcpiMulDiv` would have to do without
   `Bitwise`.
3. Models that are left: the bus adapters (refining `NativeMemory`, with their
   incomplete resets); `_fast_mul`; compressed fetch; an abstract specification of
   the flash port that `SpiMemio` and `PicoFirmware` share.

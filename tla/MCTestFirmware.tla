--------------------------- MODULE MCTestFirmware ---------------------------
(* TestFirmware for TLC: interrupts everywhere with few operands, and every *)
(* pair of operands with the one interrupt the firmware waits for.          *)
EXTENDS TestFirmware

MCRegisters == {"x1", "x2", "x8", "x9", "x10", "x11", "x18"}
MCIrqPc == 4
MCCounters == {<<546536, 107482>>, <<8000000, 7999>>, <<54, 53>>}

MCSetups ==
  { [pulses |-> 4 :> 2 @@ 5 :> 1, tests |-> 1, words |-> {6}, rounds |-> 4],
    [pulses |-> 4 :> 1 @@ 5 :> 0, tests |-> 0, words |-> 0 .. 2^W - 1, rounds |-> 5] }
=============================================================================

--------------------------- MODULE MCPicoFirmware ---------------------------
(* Instances of PicoFirmware: every command of the menu on both boards.    *)
EXTENDS PicoFirmware

Digits(a, b, c, d, e, f, g, h) == [i \in 0 .. 7 |-> <<h, g, f, e, d, c, b, a>>[i + 1]]
MCValues == { Digits(0, 0, 0, 0, 0, 0, 0, 0), Digits(0, 0, 0, 1, 15, 12, 0, 0),
              Digits(0, 0, 0, 0, 1, 0, 0, 2), Digits(8, 0, 0, 0, 0, 0, 0, 0) }
MCKeys == Commands \cup {"CR", "!", "x"}

Stuck(w, b, v) == [kind |-> "stuck", word |-> w, bit |-> b, value |-> v]
Alias(w, o) == [kind |-> "alias", word |-> w, other |-> o]
MCFaults == { [kind |-> "none"], [kind |-> "strobe"],
              Stuck(0, 0, 1), Stuck(512, 31, 0), Stuck(31, 24, 0), Stuck(40, 3, 1),
              Alias(0, 256), Alias(256, 32512), Alias(1, 2), Alias(256, 257) }
=============================================================================

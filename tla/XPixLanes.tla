----------------------------- MODULE XPixLanes -----------------------------
(***************************************************************************)
(* The pixel arithmetic of XPix, in the forms in which the repository has  *)
(* it: the lane function of the coprocessor, the C code of the board       *)
(* server built with and without the coprocessor, and the Python model the *)
(* host compares against.  A packed word is a function from its byte lanes *)
(* to bytes; lane i stands for bits [8*i +: 8].                            *)
(***************************************************************************)
EXTENDS Integers

CONSTANTS
    Top,        \* the largest byte, 255 in the hardware
    Lanes       \* the byte lanes of a word, 0..3 in the hardware

ASSUME TopAssumption == Top \in Nat \ {0}

Byte == 0 .. Top
Word == [Lanes -> Byte]

\* funct3 of the five instructions of the coprocessor (0..4)
Funct == 0 .. 4

\* Operation codes of the board server: 0..4 as above, 5 is "motion"
ServerOp == 0 .. 5

-----------------------------------------------------------------------------
(* rtl/xpix_pcpi.v: combinational function lane.  sum is one bit wider     *)
(* than a byte; its top bit selects the saturated value.                   *)

\* Mutant: the sum is not saturated.
LaneUnsaturated(x, y, f) ==
    CASE f = 0 -> IF x >= y THEN x - y ELSE y - x
      [] f = 1 -> IF x >= y THEN Top ELSE 0
      [] f = 2 -> x + y
      [] f = 3 -> IF x >= y THEN x ELSE y
      [] f = 4 -> IF x <= y THEN x ELSE y
      [] OTHER -> 0

Lane(x, y, f) ==
    LET sum == x + y
        carry == sum > Top
    IN  CASE f = 0 -> IF x >= y THEN x - y ELSE y - x
          [] f = 1 -> IF x >= y THEN Top ELSE 0
          [] f = 2 -> IF carry THEN Top ELSE sum % (Top + 1)
          [] f = 3 -> IF x >= y THEN x ELSE y
          [] f = 4 -> IF x <= y THEN x ELSE y
          [] OTHER -> 0

\* The for loop of state EXEC: the same function on every lane.
Packed(a, b, f) == [i \in Lanes |-> Lane(a[i], b[i], f)]

-----------------------------------------------------------------------------
(* firmware/xpix/board_server.c: run().                                    *)

\* Mutant: the threshold is not replicated.
ReplicateLow(t) == [i \in Lanes |-> IF i = 0 THEN t ELSE 0]

\* threshold * 0x01010101u for a threshold that fits in a byte
Replicate(t) == [i \in Lanes |-> t]

\* BASELINE = 0: one instruction per word, two for motion
RunXPix(op, a, b, t) ==
    IF op \in Funct THEN Packed(a, b, op)
                    ELSE Packed(Packed(a, b, 0), t, 1)

\* BASELINE = 1: the switch, byte by byte; t & 255 is lane 0 of t
RunByte(op, x, y, t) ==
    LET absdiff == IF x > y THEN x - y ELSE y - x
    IN  CASE op = 0 -> absdiff
          [] op = 1 -> IF x >= y THEN Top ELSE 0
          [] op = 2 -> IF x + y > Top THEN Top ELSE x + y
          [] op = 3 -> IF x > y THEN x ELSE y
          [] op = 4 -> IF x < y THEN x ELSE y
          [] op = 5 -> IF absdiff >= t THEN Top ELSE 0

RunBaseline(op, a, b, t) == [i \in Lanes |-> RunByte(op, a[i], b[i], t[0])]

-----------------------------------------------------------------------------
(* host/golden.py: the reference the returned image is compared with.      *)

Abs(n) == IF n < 0 THEN -n ELSE n
MinOf(m, n) == IF n < m THEN n ELSE m
MaxOf(m, n) == IF n > m THEN n ELSE m

Golden(op, x, y, threshold) ==
    CASE op = 0 -> Abs(x - y)
      [] op = 1 -> IF x >= y THEN Top ELSE 0
      [] op = 2 -> MinOf(x + y, Top)
      [] op = 3 -> MaxOf(x, y)
      [] op = 4 -> MinOf(x, y)
      [] op = 5 -> IF Abs(x - y) >= threshold THEN Top ELSE 0
=============================================================================

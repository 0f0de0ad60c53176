---------------------------- MODULE PixelKernel ----------------------------
(***************************************************************************)
(* The loop with which the board server applies an operation to the two    *)
(* uploaded frames (firmware/xpix/board_server.c, commands 0x10..0x15).    *)
(* The frames are arrays of packed words; Baseline is the preprocessor     *)
(* symbol that selects the byte-by-byte C code instead of the coprocessor. *)
(***************************************************************************)
EXTENDS XPixLanes

CONSTANTS
    Words,      \* packed words in a frame, SERVER_PIXELS/4
    Baseline

ASSUME WordsAssumption == Words \in Nat
ASSUME LaneZeroAssumption == 0 \in Lanes
ASSUME BaselineAssumption == Baseline \in BOOLEAN

VARIABLES
    op,         \* cmd - 0x10
    threshold,
    A, B,       \* the uploaded frames
    X,          \* the result frame
    i           \* the loop counter

vars == <<op, threshold, A, B, X, i>>

Frame == [0 .. Words - 1 -> Word]

Run(o, x, y, t) == IF Baseline THEN RunBaseline(o, x, y, t)
                               ELSE RunXPix(o, x, y, t)

\* The result memory holds whatever the last command left there.
Init ==
    /\ op \in ServerOp
    /\ threshold \in Byte
    /\ A \in Frame /\ B \in Frame /\ X \in Frame
    /\ i = 0

Iterate ==
    /\ i < Words
    /\ X' = [X EXCEPT ![i] = Run(op, A[i], B[i], Replicate(threshold))]
    /\ i' = i + 1
    /\ UNCHANGED <<op, threshold, A, B>>

Next == Iterate

Spec == Init /\ [][Next]_vars

-----------------------------------------------------------------------------
TypeOK ==
    /\ op \in ServerOp
    /\ threshold \in Byte
    /\ A \in Frame /\ B \in Frame /\ X \in Frame
    /\ i \in 0 .. Words

(* Every word the loop has passed holds, lane by lane, the byte that       *)
(* host/golden.py computes, so that a completed command is accepted by the *)
(* comparison in host/uart_host.py, with either build of the server.       *)
ResultIsGolden ==
    \A w \in 0 .. Words - 1 : w < i =>
        \A l \in Lanes : X[w][l] = Golden(op, A[w][l], B[w][l], threshold)

IInv == TypeOK /\ ResultIsGolden
=============================================================================

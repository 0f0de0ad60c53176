---------------------------- MODULE ImageServer -----------------------------
(***************************************************************************)
(* The firmware of the board (firmware/xpix/board_server.c with            *)
(* firmware/uart.c): a command loop on the one-byte receive buffer and the *)
(* one-frame transmitter of the UART.                                      *)
(*                                                                         *)
(* At 125 MHz and 115200 baud the processor has 10850 cycles for a frame.  *)
(* A step between two calls of uart_getc and uart_putc takes a hundred; so *)
(* the server is slow only where it computes a result or where uart_putc   *)
(* stalls on the busy transmitter, and only there can a second byte come   *)
(* in before the first has been fetched.                                   *)
(***************************************************************************)
EXTENDS XPixLanes, Sequences, SequencesExt

CONSTANTS
    Pixels,     \* SERVER_PIXELS, a multiple of the lanes of a word
    Block,      \* bytes per acknowledgement of an upload, 256
    None        \* no byte

\* The bytes of the protocol are those of the line; a frame is whole words
\* in whole blocks.
ASSUME ServerAssumption ==
    /\ Top = 255 /\ Lanes = 0 .. 3 /\ None \notin Byte
    /\ Block \in Nat \ {0} /\ Pixels \in Nat \ {0}
    /\ Pixels % Block = 0 /\ Pixels % 4 = 0

VARIABLES
    box,        \* the receive buffer of the UART
    lost,       \* history: a byte was overwritten in it during this session
    tx,         \* the byte in the transmitter
    pc,         \* where the program is
    out,        \* bytes it has yet to write before it goes on
    dst,        \* upload: p, the frame, and i
    i,
    op,         \* cmd - 0x10
    threshold,
    ram         \* the frames A, B and X

serverVars == <<box, lost, tx, pc, out, dst, i, op, threshold, ram>>

Pixel == 0 .. Pixels - 1
R == 82
K == 75
E == 69
Banner == <<88, 80, 73, 88, 49, 10>>

-----------------------------------------------------------------------------
\* After a reset; the frames stay in the memory as they were.
Boot ==
    /\ box' = None /\ tx' = None
    /\ pc' = "command" /\ out' = Banner
    /\ dst' = "A" /\ i' = 0 /\ op' = 0
    /\ threshold' = 40

\* uart_putc
Putc ==
    /\ out # <<>> /\ tx = None
    /\ tx' = Head(out) /\ out' = Tail(out)
    /\ UNCHANGED <<box, lost, pc, dst, i, op, threshold, ram>>

\* uart_getc: the byte is taken from the buffer, once all is written.
Getc == out = <<>> /\ box # None /\ box' = None /\ UNCHANGED <<lost, tx>>

\* Mutant: the index of the last upload is used on.
CommandUploadKeepsIndex ==
    /\ pc = "command" /\ Getc /\ box \in {1, 2}
    /\ pc' = "upload" /\ dst' = (IF box = 1 THEN "A" ELSE "B")
    /\ out' = <<R>>
    /\ UNCHANGED <<i, op, threshold, ram>>

CommandUpload ==
    /\ pc = "command" /\ Getc /\ box \in {1, 2}
    /\ pc' = "upload" /\ dst' = (IF box = 1 THEN "A" ELSE "B") /\ i' = 0
    /\ out' = <<R>>
    /\ UNCHANGED <<op, threshold, ram>>

CommandCompute ==
    /\ pc = "command" /\ Getc /\ box \in 16 .. 21
    /\ pc' = "compute" /\ op' = box - 16
    /\ UNCHANGED <<out, dst, i, threshold, ram>>

\* Mutant: one byte too many is written.
CommandDownloadLong ==
    /\ pc = "command" /\ Getc /\ box = 32
    /\ out' = [n \in 1 .. Pixels |-> ram.X[n - 1]] \o <<0>>
    /\ UNCHANGED <<pc, dst, i, op, threshold, ram>>

CommandDownload ==
    /\ pc = "command" /\ Getc /\ box = 32
    /\ out' = [n \in 1 .. Pixels |-> ram.X[n - 1]]
    /\ UNCHANGED <<pc, dst, i, op, threshold, ram>>

\* Mutant: acknowledged before the value has come.
CommandThresholdEager ==
    /\ pc = "command" /\ Getc /\ box = 48
    /\ pc' = "threshold"
    /\ out' = <<K>>
    /\ UNCHANGED <<dst, i, op, threshold, ram>>

CommandThreshold ==
    /\ pc = "command" /\ Getc /\ box = 48
    /\ pc' = "threshold"
    /\ UNCHANGED <<out, dst, i, op, threshold, ram>>

CommandUnknown ==
    /\ pc = "command" /\ Getc /\ box \notin {1, 2, 32, 48} \cup 16 .. 21
    /\ out' = <<E>>
    /\ UNCHANGED <<pc, dst, i, op, threshold, ram>>

BlockEnds == i % Block = Block - 1 \/ i = Pixels - 1

UploadPixel ==
    /\ pc = "upload" /\ Getc
    /\ ram' = [ram EXCEPT ![dst][i] = box]
    /\ out' = IF BlockEnds THEN <<K>> ELSE <<>>
    /\ i' = i + 1
    /\ pc' = IF i = Pixels - 1 THEN "command" ELSE "upload"
    /\ UNCHANGED <<dst, op, threshold>>

SetThreshold ==
    /\ pc = "threshold" /\ Getc
    /\ threshold' = box
    /\ out' = <<K>>
    /\ pc' = "command"
    /\ UNCHANGED <<dst, i, op, ram>>

\* The word of a frame that holds pixel n.
WordOf(f, n) == [l \in Lanes |-> f[n - (n % 4) + l]]
Computed ==
    [n \in Pixel |->
        RunXPix(op, WordOf(ram.A, n), WordOf(ram.B, n), Replicate(threshold))[n % 4]]

Compute ==
    /\ pc = "compute"
    /\ ram' = [ram EXCEPT !.X = Computed]
    /\ out' = <<K>>
    /\ pc' = "command"
    /\ UNCHANGED <<box, lost, tx, dst, i, op, threshold>>

Serve ==
    \/ Putc
    \/ CommandUpload \/ CommandCompute \/ CommandDownload \/ CommandThreshold
    \/ CommandUnknown
    \/ UploadPixel \/ SetThreshold \/ Compute

-----------------------------------------------------------------------------
Slow == pc = "compute" \/ (out # <<>> /\ tx # None)

\* The UART has received a byte.
Arrive(b) ==
    /\ box = None \/ Slow
    /\ box' = b
    /\ lost' = (lost \/ box # None)
    /\ UNCHANGED <<tx, pc, out, dst, i, op, threshold, ram>>

\* The UART has sent a byte.
Sent ==
    /\ tx # None
    /\ tx' = None
    /\ UNCHANGED <<box, lost, pc, out, dst, i, op, threshold, ram>>

Waiting == pc # "compute" /\ out = <<>> /\ tx = None /\ box = None
=============================================================================

--------------------------- MODULE MCImageSession ---------------------------
(* Frames of four pixels in blocks of two.  The pixels are bytes that are  *)
(* commands of the server too.                                             *)
EXTENDS ImageSession, TLC

Frame(p, q, r, s) == (0 :> p) @@ (1 :> q) @@ (2 :> r) @@ (3 :> s)
MCSessions ==
    { [a |-> Frame(1, 21, 200, 32), b |-> Frame(48, 1, 100, 2), t |-> 32, op |-> 5],
      [a |-> Frame(2, 2, 16, 1), b |-> Frame(1, 255, 32, 48), t |-> 16, op |-> 2] }
=============================================================================

----------------------------- MODULE MCXPixPcpi ----------------------------
(* XPixPcpi on words of one lane with the bytes 0..2. *)
EXTENDS XPixPcpi
MCLanes == 0 .. 0
=============================================================================

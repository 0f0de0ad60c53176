----------------------------- MODULE SerialLink -----------------------------
(***************************************************************************)
(* What a serial line promises to the programs at its ends: the bytes      *)
(* arrive in the order they were sent and as they were sent, in a buffer   *)
(* of one byte.  A byte that is not read is overwritten by the next one.   *)
(* A reset of the sender spoils at most the byte that was on its way.      *)
(***************************************************************************)
EXTENDS Sequences

CONSTANTS
    Bytes,      \* what can be sent
    Garbage,    \* anything a receiver may make of a spoilt frame
    None, Torn

VARIABLES
    flight,     \* the bytes on the line, oldest first; Torn for a spoilt one
    box         \* the receive buffer

vars == <<flight, box>>

Init == flight = <<>> /\ box = None

(* In one instant the receiving end does one of Receive, Read and Still,   *)
(* and the sending end one of Send, Spoil and nothing.                     *)

Receive(rest) ==
    /\ flight # <<>> /\ rest = Tail(flight)
    /\ IF Head(flight) = Torn THEN box' \in Garbage ELSE box' = Head(flight)
Read(rest) == box' = None /\ rest = flight
Still(rest) == box' = box /\ rest = flight

Send(rest) == \E b \in Bytes : flight' = Append(rest, b)
Spoil(rest) == rest # <<>> /\ flight' = [rest EXCEPT ![Len(rest)] = Torn]

Next ==
    \E rest \in {flight, IF flight = <<>> THEN flight ELSE Tail(flight)} :
        /\ Receive(rest) \/ Read(rest) \/ Still(rest)
        /\ Send(rest) \/ Spoil(rest) \/ flight' = rest

Spec == Init /\ [][Next]_vars
=============================================================================

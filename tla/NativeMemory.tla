---------------------------- MODULE NativeMemory ----------------------------
(***************************************************************************)
(* What the core may expect of a memory on its native interface, and what  *)
(* a memory has to do: it answers when it likes, an answer to a load is    *)
(* the word that is stored, and a store is made when it is answered.  The  *)
(* one freedom of the memory is a store whose answer meets the reset: the  *)
(* core never learns whether it was made.                                  *)
(***************************************************************************)
CONSTANTS
    Addresses,
    Written(_, _, _)    \* a word, the strobes, the data: the word after it

VARIABLES resetn, valid, addr, wstrb, wdata, ready, rdata, mem

inputs == <<resetn, valid, addr, wstrb, wdata>>
vars == <<inputs, ready, rdata, mem>>

Init == DOMAIN mem = Addresses

Stored == [mem EXCEPT ![addr] = Written(@, wstrb, wdata)]

Store ==
    \/ valid /\ ready /\ wstrb # {} /\ mem' = Stored
    \/ valid /\ ready /\ wstrb # {} /\ ~resetn /\ mem' = mem
    \/ ~(valid /\ ready /\ wstrb # {}) /\ mem' = mem

Answer ==
    valid' /\ ready' =>
        /\ addr' \in Addresses
        /\ wstrb' = {} => rdata' = mem'[addr']

Next == Store /\ Answer

Spec == Init /\ [][Next]_vars
=============================================================================

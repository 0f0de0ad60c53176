------------------------------ MODULE MCSocBus ------------------------------
(* SocBus with words of two bytes, one of them in the RAM. *)
EXTENDS SocBus

MCLanes == 0 .. 1
Low == <<0, 0, 0, 0, 0, 0, 0, 0>>
Mixed == <<1, 0, 1, 1, 0, 0, 1, 1>>
Pair(p, q) == [l \in MCLanes |-> IF l = 0 THEN p ELSE q]

Load(a) == [addr |-> a, wstrb |-> {}, wdata |-> Pair(Low, Low)]
Store(a, lanes, w) == [addr |-> a, wstrb |-> lanes, wdata |-> w]

MCRequests ==
    {Load(a) : a \in {"ram", "dat", "status", "result", Hole}} \cup
    { Store("ram", {0, 1}, Pair(Mixed, Mixed)), Store("ram", {1}, Pair(Low, Low)),
      Store("dat", {0}, Pair(Low, Low)), Store("dat", {0, 1}, Pair(Mixed, Low)),
      Store("dat", {1}, Pair(Low, Low)), Store("div", {0}, Pair(Low, Low)),
      Store("result", {0, 1}, Pair(Mixed, Low)),
      Store("print", {0, 1}, Pair(Low, Low)) }
=============================================================================

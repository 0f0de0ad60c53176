------------------------ MODULE PicoFirmware_proofs -------------------------
(***************************************************************************)
(* The PicoSoC firmware loses the flash it runs from in two ways only, and *)
(* clocks nothing the chip must obey into a chip that would not take it: on *)
(* both boards, whatever is typed, however long the session.               *)
(***************************************************************************)
EXTENDS PicoFirmware, TLAPS

Modes == {"spi", "dual", "quad", "qddr"}
QuadModes == {"quad", "qddr"}
FlashCommands == {"rdar", "read", "quad", "latency", "id"}

SetCalls == [op : {"spictrl"}, mode : Modes, cont : BOOLEAN, lat : Nat]
FlashCalls == [op : {"flashio"}, cmd : FlashCommands, arg : Nat]
CharCalls == [op : {"getchar", "poll"}, prompt : BOOLEAN]
NumberCalls == [op : {"dec"}, v : Nat] \cup [op : {"hex"}, digits : Nat]
PlainCalls == [op : {"declatency", "bench", "memtest", "crm", "toggle"}]
Calls == SetCalls \cup FlashCalls \cup CharCalls \cup NumberCalls
         \cup PlainCalls

Types ==
    /\ board \in Boards
    /\ pc \in {"boot", "enter", "menu", "command", "echo"}
    /\ todo \in Seq(Calls)
    /\ spictrl \in [mode : Modes, cont : BOOLEAN, latency : Nat]
    /\ chip \in [xip : (Modes \ {"spi"}) \cup {"none", "adrift"}, quad : BOOLEAN, latency : Nat]

-----------------------------------------------------------------------------
(* The lists of calls.                                                     *)

IsFlash(c, cmds) == c.op = "flashio" /\ c.cmd \in cmds
(* The call changes the controller's latency.                              *)
SetsLatency(c) == HX8K /\ c.op = "spictrl" /\ c.lat # Keep
Quiet(c) == c.op \in {"bench", "hex"}

(* What holds of every call a command makes.                               *)
Fits(c) ==
    /\ c.op = "spictrl" =>
         IF HX8K THEN c.mode = "spi" \/ c.lat # Keep => ~c.cont /\ (c.lat # Keep => c.mode = "spi")
         ELSE ~c.cont /\ c.lat = Dummy[c.mode]
    /\ IsFlash(c, {"rdar", "latency"}) => HX8K
    /\ c.op = "crm" => ~HX8K

(* Call b comes right after call a.                                        *)
InOrder(a, b) ==
    /\ SetsLatency(a) <=> IsFlash(b, {"latency"})
    /\ SetsLatency(a) => b.arg = a.lat
    /\ IsFlash(b, {"rdar"}) => IsFlash(a, {"latency"}) /\ a.arg = 8
    /\ IsFlash(b, {"quad", "read", "id"}) => IsFlash(a, {"rdar", "read"})
    /\ IsFlash(b, {"quad"}) => a.arg = 0
    /\ IsFlash(b, {"read"}) => b.arg # 0
    /\ b.op # "toggle"

Planned(l) ==
    /\ \A i \in 1 .. Len(l) : Fits(l[i])
    /\ \A i \in 1 .. Len(l) : i < Len(l) => InOrder(l[i], l[i + 1])
    /\ \A i \in 1 .. Len(l) : i = Len(l) => ~SetsLatency(l[i])

(* The CRM bit is set in a quad mode: the one the list set last, or the    *)
(* present one when the list set none.                                     *)
CrmInQuad(l, mode) ==
    \A i \in 1 .. Len(l) : l[i].op = "crm" =>
        \/ mode \in QuadModes /\ \A j \in 1 .. i - 1 : Quiet(l[j])
        \/ \E k \in 1 .. i - 1 :
              /\ l[k].op = "spictrl" /\ l[k].mode \in QuadModes
              /\ \A j \in k + 1 .. i - 1 : Quiet(l[j])

-----------------------------------------------------------------------------
(* The next call, the controller and the chip.                             *)

(* The call only asks the chip for its ID or its status.                   *)
Asks(c) == c.cmd = "id" \/ (c.cmd = "read" /\ c.arg # 0)

Ready(c, s, h) ==
    /\ c.op = "flashio" => ~s.cont \/ Asks(c)
    /\ IsFlash(c, {"latency"}) => s.mode = "spi" /\ s.latency = c.arg
    /\ IsFlash(c, {"rdar"}) => h.latency = 8
    /\ c.op = "toggle" => got = "7"

(* The latencies agree but for the moment between the two writes.          *)
InStep ==
    HX8K => \/ spictrl.latency = chip.latency
            \/ todo # <<>> /\ IsFlash(Call, {"latency"})

(* The QUAD flag is set before anything else.                              *)
FlagSet ==
    \/ chip.quad
    \/ /\ spictrl.mode = "spi" /\ ~spictrl.cont
       /\ \/ pc = "boot"
          \/ pc = "enter" /\ todo = set_flash_qspi_flag \o <<GetChar(TRUE)>>
          \/ pc = "enter" /\ todo = Tail(set_flash_qspi_flag \o <<GetChar(TRUE)>>)

Booting ==
    pc = "boot" =>
        /\ todo = <<>> /\ spictrl.mode = "spi" /\ ~spictrl.cont
        /\ spictrl.latency = 8 /\ chip.latency = 8

Invariant ==
    /\ Types
    /\ Planned(todo) /\ CrmInQuad(todo, spictrl.mode)
    /\ todo # <<>> => Ready(Call, spictrl, chip)
    /\ InStep /\ FlagSet /\ Booting
    /\ FetchesDecode

(* The rest of a list is a list as good as the whole.                      *)
LEMMA TailPlanned ==
    ASSUME NEW l \in Seq(Calls), l # <<>>, Planned(l)
    PROVE  /\ Tail(l) \in Seq(Calls) /\ Planned(Tail(l)) /\ Head(l) \in Calls
           /\ Fits(Head(l))
           /\ Tail(l) = <<>> => ~SetsLatency(Head(l))
           /\ Tail(l) # <<>> => InOrder(Head(l), Head(Tail(l)))
<1>1. Len(l) \in Nat \ {0} /\ Head(l) = l[1] /\ Head(l) \in Calls
  OBVIOUS
<1>2. /\ Tail(l) \in Seq(Calls) /\ Len(Tail(l)) = Len(l) - 1
      /\ \A i \in 1 .. Len(Tail(l)) : Tail(l)[i] = l[i + 1]
  OBVIOUS
<1>3. Tail(l) # <<>> => Len(l) > 1 /\ Head(Tail(l)) = l[2]
  <2>1. \A t \in Seq(Calls) :
          t # <<>> => Len(t) \in Nat \ {0} /\ Head(t) = t[1]
    OBVIOUS
  <2>2. Tail(l) # <<>> => Len(Tail(l)) \in Nat \ {0} /\ Head(Tail(l)) = Tail(l)[1]
    BY <1>2, <2>1
  <2> QED BY <1>1, <1>2, <2>2
<1>4. Tail(l) = <<>> => Len(l) = 1
  <2> DEFINE t == Tail(l)
  <2>1. Len(t) = Len(l) - 1
    BY <1>2
  <2> HIDE DEF t
  <2>2. t = <<>> => Len(t) = 0
    OBVIOUS
  <2>3. t = <<>> => Len(l) = 1
    BY <1>1, <2>1, <2>2
  <2> QED BY <2>3 DEF t
<1> HIDE DEF InOrder, SetsLatency, Fits
<1>5. Planned(Tail(l))
  <2>1. \A i \in 1 .. Len(Tail(l)) : i + 1 \in 1 .. Len(l)
    BY <1>1, <1>2
  <2>2. \A i \in 1 .. Len(Tail(l)) : Fits(l[i + 1])
    BY <2>1 DEF Planned
  <2>3. \A i \in 1 .. Len(Tail(l)) :
          i < Len(Tail(l)) => InOrder(l[i + 1], l[i + 2])
    <3>1. ASSUME NEW i \in 1 .. Len(Tail(l)), i < Len(Tail(l))
          PROVE  InOrder(l[i + 1], l[i + 2])
      <4>1. i + 1 \in 1 .. Len(l) /\ i + 1 < Len(l) /\ (i + 1) + 1 = i + 2
        BY <1>1, <1>2, <3>1
      <4>2. InOrder(l[i + 1], l[(i + 1) + 1])
        BY <4>1 DEF Planned
      <4> QED BY <4>1, <4>2
    <3> QED BY <3>1
  <2>4. \A i \in 1 .. Len(Tail(l)) : i = Len(Tail(l)) => ~SetsLatency(l[i + 1])
    <3>1. \A i \in 1 .. Len(Tail(l)) : i = Len(Tail(l)) => i + 1 = Len(l)
      BY <1>1, <1>2
    <3> QED BY <2>1, <3>1 DEF Planned
  <2>5. \A i \in 1 .. Len(Tail(l)) :
          i < Len(Tail(l)) => Tail(l)[i + 1] = l[i + 2]
    BY <1>1, <1>2
  <2> QED BY <2>2, <2>3, <2>4, <2>5, <1>2 DEF Planned
<1>6. /\ Fits(Head(l))
      /\ (Len(l) = 1 => ~SetsLatency(Head(l))) /\ (Len(l) > 1 => InOrder(Head(l), l[2]))
  BY <1>1 DEF Planned
<1> QED BY <1>1, <1>2, <1>3, <1>4, <1>5, <1>6

(* The first call of a list is taken off, and its mode is the one the list
   goes on with. *)
LEMMA TailCrm ==
    ASSUME NEW l \in Seq(Calls), l # <<>>, NEW m, CrmInQuad(l, m)
    PROVE  /\ Head(l).op = "crm" => m \in QuadModes
           /\ Quiet(Head(l)) \/ ~Quiet(Head(l))
           /\ Quiet(Head(l)) => CrmInQuad(Tail(l), m)
           /\ Head(l).op = "spictrl" => CrmInQuad(Tail(l), Head(l).mode)
           /\ ~Quiet(Head(l)) /\ Head(l).op # "spictrl"
                => \A n : CrmInQuad(Tail(l), n)
<1>1. Len(l) \in Nat \ {0} /\ Head(l) = l[1] /\ Head(l) \in Calls
  OBVIOUS
<1>2. /\ Tail(l) \in Seq(Calls) /\ Len(Tail(l)) = Len(l) - 1
      /\ \A i \in 1 .. Len(Tail(l)) : Tail(l)[i] = l[i + 1]
  OBVIOUS
<1>3. l[1].op = "crm" => m \in QuadModes
  BY <1>1 DEF CrmInQuad
<1>4. ASSUME NEW n, \/ Quiet(l[1]) /\ n = m
                    \/ l[1].op = "spictrl" /\ n = l[1].mode
                    \/ ~Quiet(l[1]) /\ l[1].op # "spictrl"
      PROVE CrmInQuad(Tail(l), n)
  <2> SUFFICES ASSUME NEW i \in 1 .. Len(Tail(l)), Tail(l)[i].op = "crm"
               PROVE  \/ n \in QuadModes /\ \A j \in 1 .. i - 1 : Quiet(Tail(l)[j])
                      \/ \E k \in 1 .. i - 1 :
                            /\ Tail(l)[k].op = "spictrl"
                            /\ Tail(l)[k].mode \in QuadModes
                            /\ \A j \in k + 1 .. i - 1 : Quiet(Tail(l)[j])
    BY DEF CrmInQuad
  <2> DEFINE t(j) == Tail(l)[j]
  <2>1. i + 1 \in 1 .. Len(l) /\ l[i + 1].op = "crm"
    BY <1>1, <1>2
  <2>2. \A j \in 1 .. i : t(j) = l[j + 1]
    BY <1>1, <1>2
  <2>3. CASE m \in QuadModes /\ \A j \in 1 .. i : Quiet(l[j])
    <3>1. Quiet(l[1]) /\ l[1].op # "spictrl"
      BY <2>3 DEF Quiet
    <3>2. \A j \in 1 .. i - 1 : j + 1 \in 1 .. i
      OBVIOUS
    <3>3. \A j \in 1 .. i - 1 : Quiet(t(j))
      BY <2>2, <2>3, <3>2
    <3> QED BY <2>3, <3>1, <3>3, <1>4
  <2>4. ASSUME NEW k \in 1 .. i, l[k].op = "spictrl", l[k].mode \in QuadModes,
               \A j \in k + 1 .. i : Quiet(l[j])
        PROVE  \/ n \in QuadModes /\ \A j \in 1 .. i - 1 : Quiet(t(j))
               \/ \E kk \in 1 .. i - 1 :
                     /\ t(kk).op = "spictrl" /\ t(kk).mode \in QuadModes
                     /\ \A j \in kk + 1 .. i - 1 : Quiet(t(j))
    <3>1. CASE k = 1
      <4>1. n = l[1].mode
        BY <2>4, <3>1, <1>4 DEF Quiet
      <4>2. \A j \in 1 .. i - 1 : j + 1 \in k + 1 .. i
        BY <3>1
      <4> QED BY <4>1, <4>2, <2>2, <2>4, <3>1
    <3>2. CASE k > 1
      <4>1. k - 1 \in 1 .. i - 1 /\ t(k - 1) = l[k]
        BY <3>2, <2>2
      <4>2. \A j \in (k - 1) + 1 .. i - 1 :
              j + 1 \in k + 1 .. i /\ t(j) = l[j + 1]
        BY <3>2, <2>2
      <4> HIDE DEF t
      <4> QED BY <4>1, <4>2, <2>4
    <3> QED BY <3>1, <3>2
  <2>5. (i + 1) - 1 = i
    OBVIOUS
  <2>6. \/ m \in QuadModes /\ \A j \in 1 .. i : Quiet(l[j])
        \/ \E k \in 1 .. i :
              /\ l[k].op = "spictrl" /\ l[k].mode \in QuadModes
              /\ \A j \in k + 1 .. i : Quiet(l[j])
    BY <2>1, <2>5 DEF CrmInQuad
  <2> QED BY <2>3, <2>4, <2>6
<1> QED BY <1>1, <1>3, <1>4

(* A list that can be a command: whatever mode it starts in. *)
Well(l) ==
    /\ l \in Seq(Calls) /\ Len(l) > 0
    /\ Planned(l) /\ \A m : CrmInQuad(l, m)
(* The list leaves the controller in a quad mode.  *)
EndsInQuad(l) ==
    \E k \in 1 .. Len(l) :
        /\ l[k].op = "spictrl" /\ l[k].mode \in QuadModes
        /\ \A j \in k + 1 .. Len(l) : Quiet(l[j])

(* The calls of two lists, one after the other.                            *)
LEMMA Joined ==
    ASSUME NEW p \in Seq(Calls), NEW q \in Seq(Calls)
    PROVE  /\ p \o q \in Seq(Calls) /\ Len(p \o q) = Len(p) + Len(q)
           /\ Len(p) \in Nat /\ Len(q) \in Nat
           /\ \A i \in 1 .. Len(p) : (p \o q)[i] = p[i]
           /\ \A i \in Len(p) + 1 .. Len(p) + Len(q) :
                (p \o q)[i] = q[i - Len(p)]
OBVIOUS

(* Two good lists make one, when their calls fit where they meet.          *)
LEMMA JoinedPlanned ==
    ASSUME NEW p \in Seq(Calls), NEW q \in Seq(Calls), Planned(p), Planned(q),
           Len(p) > 0, Len(q) > 0,
           InOrder(p[Len(p)], q[1])
    PROVE  Planned(p \o q)
<1> DEFINE l == p \o q
           n == Len(p)
           o == Len(q)
<1>1. /\ l \in Seq(Calls) /\ Len(l) = n + o /\ n \in Nat /\ o \in Nat
      /\ \A i \in 1 .. n : l[i] = p[i]
      /\ \A i \in n + 1 .. n + o : l[i] = q[i - n]
  BY Joined
<1>2. n > 0 /\ o > 0 /\ InOrder(p[n], q[1])
  OBVIOUS
<1> HIDE DEF l
<1>3. ASSUME NEW i \in 1 .. n + o
      PROVE  Fits(l[i]) /\ (i = n + o => ~SetsLatency(l[i]))
  <2>1. CASE i \in 1 .. n
    BY <2>1, <1>1, <1>2 DEF Planned
  <2>2. CASE i \in n + 1 .. n + o
    <3>1. i - n \in 1 .. o /\ l[i] = q[i - n] /\ (i = n + o => i - n = o)
      BY <2>2, <1>1
    <3>2. Fits(q[i - n]) /\ (i - n = o => ~SetsLatency(q[i - n]))
      BY <3>1 DEF Planned
    <3> QED BY <3>1, <3>2
  <2> QED BY <2>1, <2>2, <1>1
<1>4. ASSUME NEW i \in 1 .. n + o, i < n + o
      PROVE  InOrder(l[i], l[i + 1])
  <2>1. CASE i < n
    <3>1. /\ i \in 1 .. n /\ i + 1 \in 1 .. n /\ l[i] = p[i]
          /\ l[i + 1] = p[i + 1]
      BY <2>1, <1>1
    <3> QED BY <3>1, <2>1 DEF Planned
  <2>2. CASE i = n
    <3>1. l[i] = p[n] /\ l[i + 1] = q[1]
      BY <2>2, <1>1, <1>2
    <3> QED BY <3>1, <1>2
  <2>3. CASE i > n
    <3> DEFINE j == i - n
    <3>1. j \in 1 .. o /\ j < o /\ l[i] = q[j] /\ l[i + 1] = q[j + 1]
      <4>1. i + 1 \in n + 1 .. n + o /\ (i + 1) - n = j + 1
        BY <2>3, <1>1, <1>4
      <4>2. l[i + 1] = q[(i + 1) - n]
        BY <4>1, <1>1
      <4>3. i \in n + 1 .. n + o /\ i - n \in 1 .. o /\ i - n < o
        BY <2>3, <1>1, <1>4
      <4>4. l[i] = q[i - n]
        BY <4>3, <1>1
      <4>5. j \in 1 .. o /\ j < o /\ l[i] = q[j]
        BY <4>3, <4>4
      <4>6. l[i + 1] = q[j + 1]
        BY <4>1, <4>2, Zenon
      <4> QED BY <4>5, <4>6
    <3> HIDE DEF j
    <3> QED BY <3>1 DEF Planned
  <2> QED BY <2>1, <2>2, <2>3, <1>1
<1>5. Planned(l)
  BY <1>1, <1>3, <1>4 DEF Planned
<1> QED BY <1>5 DEF l

(* The CRM bit may be set at the start of the second list when the first one
   left a quad mode. *)
LEMMA JoinedCrm ==
    ASSUME NEW p \in Seq(Calls), NEW q \in Seq(Calls), NEW m, CrmInQuad(p, m),
           \A i \in 1 .. Len(q) : q[i].op = "crm" => i = 1 /\ EndsInQuad(p)
    PROVE  CrmInQuad(p \o q, m)
<1> DEFINE l == p \o q
           n == Len(p)
           o == Len(q)
<1>1. /\ l \in Seq(Calls) /\ Len(l) = n + o /\ n \in Nat /\ o \in Nat
      /\ \A i \in 1 .. n : l[i] = p[i]
      /\ \A i \in n + 1 .. n + o : l[i] = q[i - n]
  BY Joined
<1> HIDE DEF l
<1> SUFFICES ASSUME NEW i \in 1 .. n + o, l[i].op = "crm"
             PROVE  \/ m \in QuadModes /\ \A j \in 1 .. i - 1 : Quiet(l[j])
                    \/ \E k \in 1 .. i - 1 :
                          /\ l[k].op = "spictrl" /\ l[k].mode \in QuadModes
                          /\ \A j \in k + 1 .. i - 1 : Quiet(l[j])
  BY <1>1 DEF CrmInQuad, l
<1>2. CASE i \in 1 .. n
  <2>1. p[i].op = "crm"
    BY <1>1, <1>2
  <2>2. \A j \in 1 .. i - 1 :
          j \in 1 .. n /\ l[j] = p[j] /\ \A h \in j + 1 .. i - 1 : l[h] = p[h]
    BY <1>1, <1>2
  <2>3. \/ m \in QuadModes /\ \A j \in 1 .. i - 1 : Quiet(p[j])
        \/ \E k \in 1 .. i - 1 :
              /\ p[k].op = "spictrl" /\ p[k].mode \in QuadModes
              /\ \A j \in k + 1 .. i - 1 : Quiet(p[j])
    BY <1>2, <2>1 DEF CrmInQuad
  <2> QED BY <2>2, <2>3
<1>3. CASE i \in n + 1 .. n + o
  <2>1. i = n + 1 /\ EndsInQuad(p)
    <3>1. i - n \in 1 .. o /\ q[i - n].op = "crm"
      BY <1>1, <1>3
    <3>2. i - n = 1 /\ EndsInQuad(p)
      BY <3>1
    <3> QED BY <3>2, <1>1, <1>3
  <2>2. PICK k \in 1 .. n : /\ p[k].op = "spictrl" /\ p[k].mode \in QuadModes
                            /\ \A j \in k + 1 .. n : Quiet(p[j])
    BY <2>1 DEF EndsInQuad
  <2>3. i - 1 = n /\ l[k] = p[k] /\ \A j \in k + 1 .. n : l[j] = p[j]
    BY <2>1, <1>1
  <2> QED BY <2>2, <2>3
<1> QED BY <1>1, <1>2, <1>3

(* The same for everything a command must satisfy.                         *)
LEMMA JoinedWell ==
    ASSUME NEW p, NEW q, Well(p), q \in Seq(Calls), Len(q) > 0, Planned(q),
           InOrder(p[Len(p)], q[1]),
           \A i \in 1 .. Len(q) : q[i].op = "crm" => i = 1 /\ EndsInQuad(p)
    PROVE  /\ Well(p \o q) /\ (p \o q)[1] = p[1]
           /\ (p \o q)[Len(p \o q)] = q[Len(q)]
<1>1. Planned(p \o q) /\ \A m : CrmInQuad(p \o q, m)
  BY JoinedPlanned, JoinedCrm DEF Well
<1>2. p \in Seq(Calls) /\ Len(p) > 0
  BY DEF Well
<1>3. /\ p \o q \in Seq(Calls) /\ Len(p \o q) > 0 /\ (p \o q)[1] = p[1]
      /\ (p \o q)[Len(p \o q)] = q[Len(q)]
  <2> DEFINE l == p \o q
             n == Len(p)
             o == Len(q)
  <2>1. /\ l \in Seq(Calls) /\ Len(l) = n + o /\ n \in Nat /\ o \in Nat
        /\ \A i \in 1 .. n : l[i] = p[i]
        /\ \A i \in n + 1 .. n + o : l[i] = q[i - n]
    BY <1>2, Joined
  <2> HIDE DEF l
  <2>2. l[1] = p[1] /\ Len(l) > 0
    BY <2>1, <1>2
  <2>3. n + o \in n + 1 .. n + o /\ (n + o) - n = o
    BY <2>1
  <2>4. l[n + o] = q[o]
    BY <2>1, <2>3
  <2> QED BY <2>1, <2>2, <2>4 DEF l
<1> QED BY <1>1, <1>3 DEF Well

(* Where the x-th call of a loop is: its round, and its place in it. *)
RoundOf(x, k) == ((x - 1) \div k) + 1
PlaceOf(x, k) == ((x - 1) % k) + 1

(* The next call is the next of the round, or the first of the next round. *)
InRounds(x, n, k, z) ==
    /\ RoundOf(x, k) \in 1 .. n /\ PlaceOf(x, k) \in 1 .. k
    /\ PlaceOf(x, k) < k =>
         RoundOf(x + 1, k) = RoundOf(x, k) /\ PlaceOf(x + 1, k) = PlaceOf(x, k) + 1
    /\ PlaceOf(x, k) = k /\ x < z =>
         RoundOf(x, k) < n /\ RoundOf(x + 1, k) = RoundOf(x, k) + 1 /\ PlaceOf(x + 1, k) = 1
    /\ x = z => RoundOf(x, k) = n /\ PlaceOf(x, k) = k
    /\ x = 1 => RoundOf(x, k) = 1 /\ PlaceOf(x, k) = 1

(* The two shapes of the loops: eight rounds of six calls and six rounds of
   five. *)
LEMMA Places ==
    /\ \A x \in 1 .. 48 : InRounds(x, 8, 6, 48)
    /\ \A x \in 1 .. 30 : InRounds(x, 6, 5, 30)
BY DEF InRounds, RoundOf, PlaceOf

(* A function on 1 .. z whose values are calls is a list of z calls.       *)
LEMMA ListOfCalls ==
    ASSUME NEW z \in Nat, NEW s, s = [x \in 1 .. z |-> s[x]],
           \A x \in 1 .. z : s[x] \in Calls
    PROVE  s \in Seq(Calls) /\ Len(s) = z
BY SMT

(* A list of calls has calls in it.                                        *)
LEMMA CallOfList ==
    ASSUME NEW s \in Seq(Calls), NEW k, Len(s) = k, NEW j \in 1 .. k
    PROVE  s[j] \in Calls
OBVIOUS

(* On the HX8K board no command sets the CRM bit by itself.                *)
LEMMA NoCrm ==
    ASSUME HX8K, NEW l, Planned(l), NEW m
    PROVE  CrmInQuad(l, m)
BY DEF Planned, Fits, CrmInQuad

(* The calls l of n rounds, of the k calls r[i] each. *)
Loop(l, r, n, k, z) ==
    /\ <<n, k, z>> \in {<<8, 6, 48>>, <<6, 5, 30>>}
    /\ \A i \in 1 .. n : r[i] \in Seq(Calls) /\ Len(r[i]) = k /\ Planned(r[i])
    /\ \A i \in 1 .. n : i < n => InOrder(r[i][k], r[i + 1][1])
    /\ l = [x \in 1 .. z |-> r[((x - 1) \div k) + 1][((x - 1) % k) + 1]]

(* A loop is a command when its rounds are lists that fit one after the
   other (the for loops of cmd_benchmark_all and cmd_read_flash_regs). *)
LEMMA RoundsWell ==
    ASSUME HX8K, NEW n, NEW k, NEW z, NEW r, NEW l, Loop(l, r, n, k, z)
    PROVE  Well(l) /\ l[1] = r[1][1] /\ l[Len(l)] = r[n][k]
<1> USE DEF Loop
<1>1. \A x \in 1 .. z : InRounds(x, n, k, z)
  BY Places
<1>2. \A x \in 1 .. z : l[x] = r[RoundOf(x, k)][PlaceOf(x, k)]
  BY DEF RoundOf, PlaceOf
<1>3. z \in Nat /\ z > 0
  OBVIOUS
<1>4. l \in Seq(Calls) /\ Len(l) = z
  <2>1. \A i \in 1 .. n : \A j \in 1 .. k : r[i][j] \in Calls
    BY CallOfList
  <2>2. \A x \in 1 .. z : l[x] \in Calls
    BY <1>1, <1>2, <2>1 DEF InRounds
  <2>3. l = [x \in 1 .. z |-> l[x]]
    OBVIOUS
  <2> QED BY <2>2, <2>3, ListOfCalls
<1>5. ASSUME NEW x \in 1 .. z
      PROVE  Fits(l[x]) /\ (x = z => ~SetsLatency(l[x]))
  <2>1. Planned(r[RoundOf(x, k)]) /\ Len(r[RoundOf(x, k)]) = k
    BY <1>1 DEF InRounds
  <2> QED BY <1>1, <1>2, <2>1 DEF Planned, InRounds
<1>6. ASSUME NEW x \in 1 .. z, x < z
      PROVE  InOrder(l[x], l[x + 1])
  <2>1. x + 1 \in 1 .. z
    BY <1>3, <1>6
  <2>2. /\ l[x] = r[RoundOf(x, k)][PlaceOf(x, k)]
        /\ l[x + 1] = r[RoundOf(x + 1, k)][PlaceOf(x + 1, k)]
    BY <1>2, <2>1
  <2>3. CASE PlaceOf(x, k) < k
    <3>1. /\ Planned(r[RoundOf(x, k)]) /\ Len(r[RoundOf(x, k)]) = k
          /\ PlaceOf(x, k) \in 1 .. k
      BY <1>1 DEF InRounds
    <3>2. l[x + 1] = r[RoundOf(x, k)][PlaceOf(x, k) + 1]
      BY <1>1, <2>2, <2>3 DEF InRounds
    <3> QED BY <2>2, <2>3, <3>1, <3>2 DEF Planned
  <2>4. CASE PlaceOf(x, k) = k
    <3>1. /\ RoundOf(x, k) \in 1 .. n /\ RoundOf(x, k) < n
          /\ l[x + 1] = r[RoundOf(x, k) + 1][1]
      BY <1>1, <1>6, <2>2, <2>4 DEF InRounds
    <3> QED BY <2>2, <2>4, <3>1
  <2> QED BY <1>1, <2>3, <2>4 DEF InRounds
<1>7. Planned(l)
  BY <1>4, <1>5, <1>6 DEF Planned
<1>8. l[1] = r[1][1] /\ l[z] = r[n][k]
  <2>1. 1 \in 1 .. z /\ z \in 1 .. z
    BY <1>3
  <2> QED BY <1>1, <1>2, <2>1, Zenon DEF InRounds
<1> QED BY <1>3, <1>4, <1>7, <1>8, NoCrm DEF Well

(* The calls are calls.                                                    *)
LEMMA CallTypes ==
    /\ \A m \in Modes, c \in BOOLEAN, v \in Nat : Set(m, c, v) \in Calls
    /\ \A cmd \in FlashCommands, v \in Nat : Flashio(cmd, v) \in Calls
    /\ \A v \in Nat : Dec(v) \in Calls /\ Hex(v) \in Calls
    /\ \A p \in BOOLEAN : GetChar(p) \in Calls /\ Poll(p) \in Calls
    /\ {DecLatency, Bench, Memtest, Crm, Toggle} \subseteq Calls
<1>1. \A m \in Modes, c \in BOOLEAN, v \in Nat : Set(m, c, v) \in SetCalls
  BY DEF SetCalls, Set
<1>2. \A cmd \in FlashCommands, v \in Nat : Flashio(cmd, v) \in FlashCalls
  BY DEF FlashCalls, Flashio
<1>3. \A v \in Nat : Dec(v) \in NumberCalls /\ Hex(v) \in NumberCalls
  BY DEF NumberCalls, Dec, Hex
<1>4. \A p \in BOOLEAN : GetChar(p) \in CharCalls /\ Poll(p) \in CharCalls
  BY DEF CharCalls, GetChar, Poll
<1>5. {DecLatency, Bench, Memtest, Crm, Toggle} \subseteq PlainCalls
  BY DEF PlainCalls, DecLatency, Bench, Memtest, Crm, Toggle
<1> QED BY <1>1, <1>2, <1>3, <1>4, <1>5 DEF Calls

(* The calls that may come anywhere.  *)
Plain(c) == c.op \in {"dec", "hex", "bench", "memtest", "declatency", "getchar", "poll"}

(* Printing, the benchmark, memtest and reading a character touch neither
   the register nor the flash. *)
LEMMA PlainOps ==
    /\ \A v :
         Plain(Dec(v)) /\ Plain(Hex(v)) /\ Plain(GetChar(v)) /\ Plain(Poll(v))
    /\ Plain(Bench) /\ Plain(Memtest) /\ Plain(DecLatency)
BY DEF Plain, Dec, Hex, GetChar, Poll, Bench, Memtest, DecLatency

(* Such a call may come after any that does not change the latency.        *)
LEMMA PlainFits ==
    /\ \A c : Plain(c) => Fits(c) /\ ~SetsLatency(c) /\ c.op # "crm"
    /\ \A a, c : Plain(c) /\ ~SetsLatency(a) => InOrder(a, c)
BY DEF Plain, Fits, SetsLatency, InOrder, IsFlash

(* A list of one call.                                                     *)
LEMMA Single ==
    ASSUME NEW c \in Calls, Fits(c), ~SetsLatency(c)
    PROVE  /\ <<c>> \in Seq(Calls) /\ Len(<<c>>) = 1 /\ <<c>>[1] = c
           /\ Planned(<<c>>)
           /\ c.op # "crm" => Well(<<c>>)
<1>1. <<c>> \in Seq(Calls) /\ Len(<<c>>) = 1 /\ <<c>>[1] = c
  OBVIOUS
<1>2. Planned(<<c>>)
  BY <1>1 DEF Planned
<1>3. c.op # "crm" => \A m : CrmInQuad(<<c>>, m)
  BY <1>1 DEF CrmInQuad
<1> QED BY <1>1, <1>2, <1>3 DEF Well

(* One more call at the end of a command.                                  *)
LEMMA OneMore ==
    ASSUME NEW p, Well(p), NEW c \in Calls, Fits(c), ~SetsLatency(c),
           InOrder(p[Len(p)], c),
           c.op = "crm" => EndsInQuad(p)
    PROVE  /\ Well(p \o <<c>>) /\ (p \o <<c>>)[1] = p[1]
           /\ (p \o <<c>>)[Len(p \o <<c>>)] = c
<1>1. <<c>> \in Seq(Calls) /\ Len(<<c>>) = 1 /\ <<c>>[1] = c /\ Planned(<<c>>)
  BY Single
<1>2. \A i \in 1 .. 1 : i = 1
  OBVIOUS
<1> DEFINE q == <<c>>
<1>3. q \in Seq(Calls) /\ Len(q) = 1 /\ q[1] = c /\ Planned(q)
  BY <1>1
<1> HIDE DEF q
<1>4. \A i \in 1 .. Len(q) : q[i].op = "crm" => i = 1 /\ EndsInQuad(p)
  BY <1>2, <1>3
<1>5. Well(p \o q) /\ (p \o q)[1] = p[1] /\ (p \o q)[Len(p \o q)] = q[Len(q)]
  <2>1. Len(q) > 0 /\ InOrder(p[Len(p)], q[1])
    BY <1>3
  <2> QED BY <1>3, <1>4, <2>1, JoinedWell, Zenon
<1> QED BY <1>3, <1>5 DEF q

(* A list of six calls, call by call.                                      *)
LEMMA Six ==
    ASSUME NEW l, Len(l) = 6, Fits(l[1]), Fits(l[2]), Fits(l[3]), Fits(l[4]),
           Fits(l[5]), Fits(l[6]), ~SetsLatency(l[6]),
           InOrder(l[1], l[2]), InOrder(l[2], l[3]), InOrder(l[3], l[4]), InOrder(l[4], l[5]), InOrder(l[5], l[6])
    PROVE  Planned(l)
BY DEF Planned

(* A list of five calls, call by call.                                     *)
LEMMA Five ==
    ASSUME NEW l, Len(l) = 5, Fits(l[1]), Fits(l[2]), Fits(l[3]), Fits(l[4]),
           Fits(l[5]), ~SetsLatency(l[5]),
           InOrder(l[1], l[2]), InOrder(l[2], l[3]), InOrder(l[3], l[4]), InOrder(l[4], l[5])
    PROVE  Planned(l)
BY DEF Planned

(* The round of the benchmark loop, spelled out.                           *)
LEMMA JoinSix ==
    ASSUME NEW a \in Calls, NEW b \in Calls, NEW c \in Calls, NEW d \in Calls,
           NEW e \in Calls, NEW f \in Calls,
           NEW l, l = <<a>> \o <<b, c>> \o <<d, e, f>>
    PROVE  /\ l \in Seq(Calls) /\ Len(l) = 6
           /\ l[1] = a /\ l[2] = b /\ l[3] = c /\ l[4] = d /\ l[5] = e
           /\ l[6] = f
OBVIOUS

(* The round of the loop over the registers, spelled out.                  *)
LEMMA JoinFive ==
    ASSUME NEW a \in Calls, NEW b \in Calls, NEW c \in Calls, NEW d \in Calls,
           NEW e \in Calls,
           NEW l, l = <<a, b>> \o <<c, d, e>>
    PROVE  /\ l \in Seq(Calls) /\ Len(l) = 5
           /\ l[1] = a /\ l[2] = b /\ l[3] = c /\ l[4] = d /\ l[5] = e
OBVIOUS

(* One configuration of the benchmark at its eight latencies: the latency of
   the chip is set in the single mode, right after that of the controller,
   before the mode is entered. *)
LEMMA SweepWell ==
    ASSUME HX8K, NEW m \in Modes \ {"spi"}, NEW c \in BOOLEAN
    PROVE  /\ Well(Sweep(m, c)) /\ Plain(Sweep(m, c)[1])
           /\ Plain(Sweep(m, c)[Len(Sweep(m, c))])
<1> DEFINE r == [i \in 1 .. 8 |->
                   <<Dec(9 - i)>> \o set_flash_latency(9 - i)
                   \o <<Set(m, c, Keep), Bench, Hex(8)>>]
<1>1. ASSUME NEW i \in 1 .. 8
      PROVE  /\ r[i] \in Seq(Calls) /\ Len(r[i]) = 6 /\ Planned(r[i])
             /\ r[i][1] = Dec(9 - i) /\ r[i][6] = Hex(8)
  <2>1. r[i] = <<Dec(9 - i)>> \o <<Set("spi", FALSE, 9 - i), Flashio("latency", 9 - i)>> \o <<Set(m, c, Keep), Bench, Hex(8)>>
    BY DEF set_flash_latency
  <2>2. 9 - i \in Nat /\ 9 - i # Keep /\ Keep \in Nat
    BY DEF Keep
  <2>3. /\ Dec(9 - i) \in Calls /\ Set("spi", FALSE, 9 - i) \in Calls
        /\ Flashio("latency", 9 - i) \in Calls
        /\ Set(m, c, Keep) \in Calls /\ Bench \in Calls /\ Hex(8) \in Calls
    BY <2>2, CallTypes DEF Modes, FlashCommands
  <2>4. /\ Fits(Set("spi", FALSE, 9 - i)) /\ Fits(Flashio("latency", 9 - i))
        /\ Fits(Set(m, c, Keep))
        /\ SetsLatency(Set("spi", FALSE, 9 - i))
        /\ ~SetsLatency(Flashio("latency", 9 - i))
        /\ ~SetsLatency(Set(m, c, Keep))
    BY <2>2 DEF Fits, Set, Flashio, SetsLatency, IsFlash
  <2>5. /\ ~SetsLatency(Dec(9 - i)) /\ ~SetsLatency(Bench) /\ Fits(Dec(9 - i))
        /\ Fits(Bench) /\ Fits(Hex(8)) /\ ~SetsLatency(Hex(8))
    BY PlainFits, PlainOps
  <2>6. InOrder(Set(m, c, Keep), Bench) /\ InOrder(Bench, Hex(8))
    BY <2>4, <2>5, PlainFits, PlainOps
  <2>7. /\ InOrder(Dec(9 - i), Set("spi", FALSE, 9 - i))
        /\ InOrder(Set("spi", FALSE, 9 - i), Flashio("latency", 9 - i))
        /\ InOrder(Flashio("latency", 9 - i), Set(m, c, Keep))
    BY <2>4, <2>5 DEF InOrder, IsFlash, Set, Flashio
  <2> HIDE DEF r
  <2>8. /\ r[i] \in Seq(Calls) /\ Len(r[i]) = 6
        /\ r[i][1] = Dec(9 - i) /\ r[i][2] = Set("spi", FALSE, 9 - i)
        /\ r[i][3] = Flashio("latency", 9 - i)
        /\ r[i][4] = Set(m, c, Keep) /\ r[i][5] = Bench /\ r[i][6] = Hex(8)
    <3> DEFINE ca == Dec(9 - i)
               cb == Set("spi", FALSE, 9 - i)
               cc == Flashio("latency", 9 - i)
               cd == Set(m, c, Keep)
               ce == Bench
               cf == Hex(8)
               l == r[i]
    <3>1. /\ ca \in Calls /\ cb \in Calls /\ cc \in Calls /\ cd \in Calls
          /\ ce \in Calls /\ cf \in Calls
          /\ l = <<ca>> \o <<cb, cc>> \o <<cd, ce, cf>>
      BY <2>1, <2>3
    <3> HIDE DEF ca, cb, cc, cd, ce, cf, l
    <3>2. /\ l \in Seq(Calls) /\ Len(l) = 6
          /\ l[1] = ca /\ l[2] = cb /\ l[3] = cc /\ l[4] = cd /\ l[5] = ce
          /\ l[6] = cf
      BY <3>1, JoinSix
    <3> QED BY <3>2 DEF ca, cb, cc, cd, ce, cf, l
  <2>9. Planned(r[i])
    BY <2>4, <2>5, <2>6, <2>7, <2>8, Six, Zenon
  <2> QED BY <2>8, <2>9
<1>2. \A i \in 1 .. 8 : i < 8 => InOrder(r[i][6], r[i + 1][1])
  <2>1. ASSUME NEW i \in 1 .. 8, i < 8 PROVE InOrder(r[i][6], r[i + 1][1])
    <3>1. i + 1 \in 1 .. 8
      BY <2>1
    <3>2. r[i][6] = Hex(8) /\ r[i + 1][1] = Dec(9 - (i + 1))
      BY <1>1, <3>1
    <3> QED BY <3>2, PlainFits, PlainOps
  <2> QED BY <2>1
<1>3. Sweep(m, c) = [x \in 1 .. 48 |-> r[((x - 1) \div 6) + 1][((x - 1) % 6) + 1]]
  <2>1. Sweep(m, c) = Rounds(r, 8, 6)
    BY DEF Sweep
  <2>2. 8 * 6 = 48
    OBVIOUS
  <2> HIDE DEF r
  <2> QED BY <2>1, <2>2 DEF Rounds
<1> HIDE DEF r
<1>4. \A i \in 1 .. 8 : r[i] \in Seq(Calls) /\ Len(r[i]) = 6 /\ Planned(r[i])
  BY <1>1
<1>5. /\ Well(Sweep(m, c)) /\ Sweep(m, c)[1] = r[1][1]
      /\ Sweep(m, c)[Len(Sweep(m, c))] = r[8][6]
  <2> DEFINE l == Sweep(m, c)
  <2>1. l = [x \in 1 .. 48 |-> r[((x - 1) \div 6) + 1][((x - 1) % 6) + 1]]
    BY <1>3
  <2> HIDE DEF l
  <2>2. Well(l) /\ l[1] = r[1][1] /\ l[Len(l)] = r[8][6]
    <3>1. Loop(l, r, 8, 6, 48)
      BY <1>2, <1>4, <2>1 DEF Loop
    <3> QED BY <3>1, RoundsWell
  <2> QED BY <2>2 DEF l
<1> QED BY <1>1, <1>5, PlainOps

(* On the HX8K board a command can be followed by another one that begins
   with a plain call. *)
LEMMA PieceMore ==
    ASSUME HX8K, NEW p, NEW q, Well(p), Well(q), Plain(q[1])
    PROVE  Well(p \o q) /\ (p \o q)[1] = p[1]
<1>1. /\ p \in Seq(Calls) /\ Len(p) \in Nat /\ Len(p) > 0
      /\ ~SetsLatency(p[Len(p)])
      /\ q \in Seq(Calls) /\ Len(q) > 0 /\ Planned(q)
  BY DEF Well, Planned
<1>2. InOrder(p[Len(p)], q[1])
  BY <1>1, PlainFits
<1>3. \A i \in 1 .. Len(q) : q[i].op # "crm"
  BY DEF Well, Planned, Fits
<1>4. Well(p \o q) /\ (p \o q)[1] = p[1] /\ (p \o q)[Len(p \o q)] = q[Len(q)]
  BY <1>1, <1>2, <1>3, JoinedWell, Zenon
<1> QED BY <1>4

(* Reading the registers on the HX8K board: each is read right after the
   latency was set to eight. *)
LEMMA RegsWell ==
    ASSUME HX8K
    PROVE  /\ Well(cmd_read_flash_regs)
           /\ cmd_read_flash_regs[1] = Set("spi", FALSE, 8)
<1> DEFINE r == [i \in 1 .. 6 |->
                   set_flash_latency(8)
                   \o <<Flashio("rdar", i), Hex(6), Hex(2)>>]
<1>1. ASSUME NEW i \in 1 .. 6
      PROVE  /\ r[i] \in Seq(Calls) /\ Len(r[i]) = 5 /\ Planned(r[i])
             /\ r[i][1] = Set("spi", FALSE, 8) /\ r[i][5] = Hex(2)
  <2>1. r[i] = <<Set("spi", FALSE, 8), Flashio("latency", 8)>> \o <<Flashio("rdar", i), Hex(6), Hex(2)>>
    BY DEF set_flash_latency
  <2>2. i \in Nat /\ 8 # Keep
    BY DEF Keep
  <2>3. /\ Set("spi", FALSE, 8) \in Calls /\ Flashio("latency", 8) \in Calls
        /\ Flashio("rdar", i) \in Calls
        /\ Hex(6) \in Calls /\ Hex(2) \in Calls
    BY <2>2, CallTypes DEF Modes, FlashCommands
  <2>4. /\ Fits(Set("spi", FALSE, 8)) /\ Fits(Flashio("latency", 8))
        /\ Fits(Flashio("rdar", i))
        /\ ~SetsLatency(Flashio("rdar", i))
    BY <2>2 DEF Fits, Set, Flashio, SetsLatency, IsFlash
  <2>5. /\ Fits(Hex(6)) /\ Fits(Hex(2)) /\ ~SetsLatency(Hex(6))
        /\ ~SetsLatency(Hex(2))
    BY PlainFits, PlainOps
  <2>6. InOrder(Flashio("rdar", i), Hex(6)) /\ InOrder(Hex(6), Hex(2))
    BY <2>4, <2>5, PlainFits, PlainOps
  <2>7. /\ InOrder(Set("spi", FALSE, 8), Flashio("latency", 8))
        /\ InOrder(Flashio("latency", 8), Flashio("rdar", i))
    BY <2>2 DEF InOrder, IsFlash, Set, Flashio, SetsLatency
  <2> HIDE DEF r
  <2>8. /\ r[i] \in Seq(Calls) /\ Len(r[i]) = 5
        /\ r[i][1] = Set("spi", FALSE, 8) /\ r[i][2] = Flashio("latency", 8)
        /\ r[i][3] = Flashio("rdar", i)
        /\ r[i][4] = Hex(6) /\ r[i][5] = Hex(2)
    <3> DEFINE ca == Set("spi", FALSE, 8)
               cb == Flashio("latency", 8)
               cc == Flashio("rdar", i)
               cd == Hex(6)
               ce == Hex(2)
               l == r[i]
    <3>1. /\ ca \in Calls /\ cb \in Calls /\ cc \in Calls /\ cd \in Calls
          /\ ce \in Calls
          /\ l = <<ca, cb>> \o <<cc, cd, ce>>
      BY <2>1, <2>3
    <3> HIDE DEF ca, cb, cc, cd, ce, l
    <3>2. /\ l \in Seq(Calls) /\ Len(l) = 5
          /\ l[1] = ca /\ l[2] = cb /\ l[3] = cc /\ l[4] = cd /\ l[5] = ce
      BY <3>1, JoinFive
    <3> QED BY <3>2 DEF ca, cb, cc, cd, ce, l
  <2>9. Planned(r[i])
    BY <2>4, <2>5, <2>6, <2>7, <2>8, Five, Zenon
  <2> QED BY <2>8, <2>9
<1>2. \A i \in 1 .. 6 : i < 6 => InOrder(r[i][5], r[i + 1][1])
  <2>1. ASSUME NEW i \in 1 .. 6, i < 6 PROVE InOrder(r[i][5], r[i + 1][1])
    <3>1. i + 1 \in 1 .. 6
      BY <2>1
    <3>2. r[i][5] = Hex(2) /\ r[i + 1][1] = Set("spi", FALSE, 8)
      BY <1>1, <3>1
    <3>3. ~SetsLatency(Hex(2))
      BY PlainFits, PlainOps
    <3>4. InOrder(Hex(2), Set("spi", FALSE, 8))
      BY <3>3 DEF InOrder, IsFlash, Set
    <3> HIDE DEF r
    <3> QED BY <3>2, <3>4
  <2> QED BY <2>1
<1>3. cmd_read_flash_regs = [x \in 1 .. 30 |-> r[((x - 1) \div 5) + 1][((x - 1) % 5) + 1]]
  <2>1. cmd_read_flash_regs = Rounds(r, 6, 5)
    BY DEF cmd_read_flash_regs
  <2>2. 6 * 5 = 30
    OBVIOUS
  <2> HIDE DEF r
  <2> QED BY <2>1, <2>2 DEF Rounds
<1> HIDE DEF r
<1>4. \A i \in 1 .. 6 : r[i] \in Seq(Calls) /\ Len(r[i]) = 5 /\ Planned(r[i])
  BY <1>1
<1> DEFINE l == cmd_read_flash_regs
<1>5. l = [x \in 1 .. 30 |-> r[((x - 1) \div 5) + 1][((x - 1) % 5) + 1]]
  BY <1>3
<1> HIDE DEF l
<1>6. Well(l) /\ l[1] = r[1][1]
  <2>1. Loop(l, r, 6, 5, 30)
    BY <1>2, <1>4, <1>5 DEF Loop
  <2> QED BY <2>1, RoundsWell
<1>7. r[1][1] = Set("spi", FALSE, 8)
  <2>1. \A i \in 1 .. 6 : r[i][1] = Set("spi", FALSE, 8)
    BY <1>1
  <2>2. 1 \in 1 .. 6
    OBVIOUS
  <2> QED BY <2>1, <2>2, Zenon
<1> QED BY <1>6, <1>7 DEF l

(* The whole benchmark on the HX8K board.                                  *)
LEMMA HxBenchmarkWell ==
    ASSUME HX8K
    PROVE  /\ Well(cmd_benchmark_all)
           /\ cmd_benchmark_all[1] = Set("spi", FALSE, Keep)
<1> DEFINE c == Set("spi", FALSE, Keep)
           start == <<c, Bench, Hex(8)>>
<1>1. Well(start) /\ start[1] = c
  <2>1. /\ Keep \in Nat /\ Fits(c) /\ ~SetsLatency(c) /\ c.op # "crm"
    BY DEF Keep, Fits, Set, SetsLatency, IsFlash
  <2>2. c \in Calls /\ Bench \in Calls /\ Hex(8) \in Calls
    BY <2>1, CallTypes DEF Modes
  <2>3. /\ Fits(Bench) /\ Fits(Hex(8)) /\ ~SetsLatency(Bench)
        /\ ~SetsLatency(Hex(8)) /\ InOrder(c, Bench) /\ InOrder(Bench, Hex(8))
    BY <2>1, PlainFits, PlainOps
  <2> HIDE DEF c
  <2>4. /\ start \in Seq(Calls) /\ Len(start) = 3 /\ start[1] = c
        /\ start[2] = Bench /\ start[3] = Hex(8)
    BY <2>2
  <2> HIDE DEF start
  <2>5. Planned(start)
    BY <2>1, <2>3, <2>4 DEF Planned
  <2> QED BY <2>4, <2>5, NoCrm DEF Well
<1>2. \A m \in {"dual", "quad", "qddr"} : \A t \in BOOLEAN :
        Well(Sweep(m, t)) /\ Plain(Sweep(m, t)[1])
  BY SweepWell DEF Modes
<1>3. Well(<<Hex(8)>>) /\ Plain(<<Hex(8)>>[1])
  <2>1. /\ Hex(8) \in Calls /\ Fits(Hex(8)) /\ ~SetsLatency(Hex(8))
        /\ Hex(8).op # "crm" /\ Plain(Hex(8))
    BY PlainFits, PlainOps, CallTypes
  <2> QED BY <2>1, Single
<1> DEFINE l1 == start \o Sweep("dual", FALSE)
           l2 == l1 \o Sweep("dual", TRUE)
           l3 == l2 \o Sweep("quad", FALSE)
           l4 == l3 \o Sweep("quad", TRUE)
           l5 == l4 \o Sweep("qddr", FALSE)
           l6 == l5 \o Sweep("qddr", TRUE)
           l7 == l6 \o <<Hex(8)>>
<1>4. cmd_benchmark_all = l7
  BY DEF cmd_benchmark_all
<1> HIDE DEF start
<1>5. Well(l1) /\ l1[1] = c
  BY <1>1, <1>2, PieceMore
<1> HIDE DEF l1
<1>6. Well(l2) /\ l2[1] = c
  BY <1>5, <1>2, PieceMore
<1> HIDE DEF l2
<1>7. Well(l3) /\ l3[1] = c
  BY <1>6, <1>2, PieceMore
<1> HIDE DEF l3
<1>8. Well(l4) /\ l4[1] = c
  BY <1>7, <1>2, PieceMore
<1> HIDE DEF l4
<1>9. Well(l5) /\ l5[1] = c
  BY <1>8, <1>2, PieceMore
<1> HIDE DEF l5
<1>10. Well(l6) /\ l6[1] = c
  BY <1>9, <1>2, PieceMore
<1> HIDE DEF l6
<1>11. Well(l7) /\ l7[1] = c
  BY <1>10, <1>3, PieceMore
<1> QED BY <1>4, <1>11

(* A command does not end between the two writes of the latency.           *)
LEMMA LastCall ==
    ASSUME NEW p, Well(p)
    PROVE  /\ p \in Seq(Calls) /\ Len(p) \in Nat /\ Len(p) > 0
           /\ ~SetsLatency(p[Len(p)])
BY DEF Well, Planned

(* A benchmark after what set the mode.                                    *)
LEMMA RunMore ==
    ASSUME NEW p, Well(p)
    PROVE  LET l == p \o <<Bench, Hex(8)>>
           IN  Well(l) /\ l[1] = p[1] /\ (EndsInQuad(p) => EndsInQuad(l))
<1> DEFINE q == <<Bench, Hex(8)>>
           l == p \o q
           n == Len(p)
<1>1. p \in Seq(Calls) /\ n \in Nat /\ n > 0 /\ ~SetsLatency(p[n])
  BY LastCall
<1>2. /\ Bench \in Calls /\ Hex(8) \in Calls /\ Fits(Bench) /\ Fits(Hex(8))
      /\ ~SetsLatency(Bench) /\ ~SetsLatency(Hex(8)) /\ InOrder(Bench, Hex(8))
      /\ InOrder(p[n], Bench)
      /\ Bench.op # "crm" /\ Hex(8).op # "crm"
  BY <1>1, PlainFits, PlainOps, CallTypes
<1>3. Quiet(Bench) /\ Quiet(Hex(8))
  BY DEF Quiet, Bench, Hex
<1>4. q \in Seq(Calls) /\ Len(q) = 2 /\ q[1] = Bench /\ q[2] = Hex(8)
  BY <1>2
<1> HIDE DEF q
<1>5. Planned(q)
  BY <1>2, <1>4 DEF Planned
<1>6. \A i \in 1 .. Len(q) : q[i].op # "crm"
  BY <1>2, <1>4
<1>7. Len(q) > 0 /\ InOrder(p[n], q[1])
  BY <1>2, <1>4
<1>8. Well(l) /\ l[1] = p[1]
  BY <1>4, <1>5, <1>6, <1>7, JoinedWell, Zenon
<1>9. ASSUME EndsInQuad(p) PROVE EndsInQuad(l)
  <2>1. PICK k \in 1 .. n : /\ p[k].op = "spictrl" /\ p[k].mode \in QuadModes
                            /\ \A j \in k + 1 .. n : Quiet(p[j])
    BY <1>9 DEF EndsInQuad
  <2>2. /\ l \in Seq(Calls) /\ Len(l) = n + 2
        /\ \A i \in 1 .. n : l[i] = p[i]
        /\ \A i \in n + 1 .. n + 2 : l[i] = q[i - n]
    <3>1. /\ l \in Seq(Calls) /\ Len(l) = n + Len(q)
          /\ \A i \in 1 .. n : l[i] = p[i]
          /\ \A i \in n + 1 .. n + Len(q) : l[i] = q[i - n]
      BY <1>1, <1>4, Joined
    <3> HIDE DEF l
    <3> QED BY <3>1, <1>4
  <2> HIDE DEF l
  <2>3. l[n + 1] = Bench /\ l[n + 2] = Hex(8)
    <3>1. /\ n + 1 \in n + 1 .. n + 2 /\ (n + 1) - n = 1
          /\ n + 2 \in n + 1 .. n + 2 /\ (n + 2) - n = 2
      BY <1>1
    <3>2. l[n + 1] = q[(n + 1) - n] /\ l[n + 2] = q[(n + 2) - n]
      BY <3>1, <2>2
    <3> QED BY <3>1, <3>2, <1>4
  <2>4. k \in 1 .. n + 2 /\ l[k] = p[k]
    BY <2>2, <1>1
  <2>5. ASSUME NEW j \in k + 1 .. n + 2 PROVE Quiet(l[j])
    <3>1. CASE j \in k + 1 .. n
      BY <3>1, <2>1, <2>2
    <3>2. CASE j = n + 1 \/ j = n + 2
      BY <3>2, <2>3, <1>3
    <3> QED BY <3>1, <3>2, <1>1
  <2> QED BY <2>1, <2>2, <2>4, <2>5 DEF EndsInQuad
<1> QED BY <1>8, <1>9 DEF l, q

(* The register write of set_flash_mode on the iCEBreaker.                 *)
LEMMA ModeFits ==
    ASSUME ~HX8K, NEW m \in Modes
    PROVE  LET c == Set(m, FALSE, Dummy[m])
           IN  /\ c \in Calls /\ Fits(c) /\ ~SetsLatency(c) /\ c.op = "spictrl" /\ c.mode = m
               /\ \A a : InOrder(a, c)
<1>1. Dummy[m] \in Nat
  BY DEF Dummy, Modes
<1>2. Set(m, FALSE, Dummy[m]) \in Calls
  BY <1>1, CallTypes
<1>3. Fits(Set(m, FALSE, Dummy[m])) /\ ~SetsLatency(Set(m, FALSE, Dummy[m]))
  BY DEF Fits, Set, SetsLatency, IsFlash
<1>4. \A a : InOrder(a, Set(m, FALSE, Dummy[m]))
  BY DEF InOrder, Set, SetsLatency, IsFlash
<1>5. /\ Set(m, FALSE, Dummy[m]).op = "spictrl"
      /\ Set(m, FALSE, Dummy[m]).mode = m
  BY DEF Set
<1> QED BY <1>2, <1>3, <1>4, <1>5

(* Another mode, at the end of a command.                                  *)
LEMMA ModeMore ==
    ASSUME ~HX8K, NEW p, Well(p), NEW m \in Modes
    PROVE  LET l == p \o set_flash_mode(m)
           IN  Well(l) /\ l[1] = p[1] /\ (m \in QuadModes => EndsInQuad(l))
<1> DEFINE c == Set(m, FALSE, Dummy[m])
           l == p \o <<c>>
<1>1. set_flash_mode(m) = <<c>>
  BY DEF set_flash_mode
<1>2. /\ c \in Calls /\ Fits(c) /\ ~SetsLatency(c) /\ c.op = "spictrl"
      /\ c.mode = m /\ InOrder(p[Len(p)], c)
  BY ModeFits
<1> HIDE DEF c
<1>3. Well(l) /\ l[1] = p[1] /\ l[Len(l)] = c
  BY <1>2, OneMore
<1> HIDE DEF l
<1>4. m \in QuadModes => EndsInQuad(l)
  <2>1. Len(l) \in Nat /\ Len(l) > 0
    BY <1>3, LastCall
  <2>2. Len(l) \in 1 .. Len(l) /\ \A j \in Len(l) + 1 .. Len(l) : FALSE
    BY <2>1
  <2>3. ASSUME m \in QuadModes
        PROVE \E k \in 1 .. Len(l) : /\ l[k].op = "spictrl" /\ l[k].mode \in QuadModes
                                     /\ \A j \in k + 1 .. Len(l) : Quiet(l[j])
    <3>1. l[Len(l)].op = "spictrl" /\ l[Len(l)].mode \in QuadModes
      BY <1>2, <1>3, <2>3
    <3> DEFINE k == Len(l)
    <3>2. /\ l[k].op = "spictrl" /\ l[k].mode \in QuadModes
          /\ \A j \in k + 1 .. Len(l) : Quiet(l[j])
      BY <3>1, <2>2
    <3> QED BY <3>2, <2>2
  <2> QED BY <2>3 DEF EndsInQuad
<1> QED BY <1>1, <1>3, <1>4 DEF l

(* The CRM bit after a quad mode.                                          *)
LEMMA CrmMore ==
    ASSUME ~HX8K, NEW p, Well(p), EndsInQuad(p)
    PROVE  LET l == p \o <<Crm>> IN Well(l) /\ l[1] = p[1]
<1>1. Crm \in Calls /\ Fits(Crm) /\ ~SetsLatency(Crm)
  BY CallTypes DEF Crm, Fits, SetsLatency, IsFlash
<1>2. InOrder(p[Len(p)], Crm)
  BY LastCall DEF InOrder, IsFlash, Crm
<1> QED BY <1>1, <1>2, OneMore

(* set_flash_mode on the iCEBreaker.                                       *)
LEMMA ModeWell ==
    ASSUME ~HX8K, NEW m \in Modes
    PROVE  Well(set_flash_mode(m)) /\ set_flash_mode(m)[1].op = "spictrl"
<1> DEFINE c == Set(m, FALSE, Dummy[m])
<1>1. set_flash_mode(m) = <<c>>
  BY DEF set_flash_mode
<1>2. /\ c \in Calls /\ Fits(c) /\ ~SetsLatency(c) /\ c.op = "spictrl"
      /\ c.op # "crm"
  BY ModeFits
<1> HIDE DEF c
<1>3. Well(<<c>>) /\ <<c>>[1] = c
  BY <1>2, Single
<1> QED BY <1>1, <1>2, <1>3

(* The whole benchmark on the iCEBreaker: both CRM bits are set in a quad
   mode. *)
LEMMA IceBenchmarkWell ==
    ASSUME ~HX8K
    PROVE  Well(cmd_benchmark_all) /\ cmd_benchmark_all[1].op = "spictrl"
<1> DEFINE run == <<Bench, Hex(8)>>
           first == set_flash_mode("spi")
           p1 == first \o run
           p2 == p1 \o set_flash_mode("dual")
           p3 == p2 \o run
           p4 == p3 \o set_flash_mode("quad")
           p5 == p4 \o run
           p6 == p5 \o <<Crm>>
           p7 == p6 \o run
           p8 == p7 \o set_flash_mode("qddr")
           p9 == p8 \o run
           p10 == p9 \o <<Crm>>
           p11 == p10 \o run
<1>0. cmd_benchmark_all = p11
  BY DEF cmd_benchmark_all
<1>modes. /\ {"spi", "dual", "quad", "qddr"} \subseteq Modes
          /\ "quad" \in QuadModes /\ "qddr" \in QuadModes
  BY DEF Modes, QuadModes
<1>first. Well(first) /\ first[1].op = "spictrl"
  BY <1>modes, ModeWell
<1> HIDE DEF first
<1>1. Well(p1) /\ p1[1] = first[1]
  BY <1>first, RunMore
<1> HIDE DEF p1
<1>2. Well(p2) /\ p2[1] = first[1]
  BY <1>1, <1>modes, ModeMore
<1> HIDE DEF p2
<1>3. Well(p3) /\ p3[1] = first[1]
  BY <1>2, RunMore
<1> HIDE DEF p3
<1>4. Well(p4) /\ p4[1] = first[1] /\ EndsInQuad(p4)
  BY <1>3, <1>modes, ModeMore
<1> HIDE DEF p4
<1>5. Well(p5) /\ p5[1] = first[1] /\ EndsInQuad(p5)
  BY <1>4, RunMore
<1> HIDE DEF p5
<1>6. Well(p6) /\ p6[1] = first[1]
  BY <1>5, CrmMore
<1> HIDE DEF p6
<1>7. Well(p7) /\ p7[1] = first[1]
  BY <1>6, RunMore
<1> HIDE DEF p7
<1>8. Well(p8) /\ p8[1] = first[1] /\ EndsInQuad(p8)
  BY <1>7, <1>modes, ModeMore
<1> HIDE DEF p8
<1>9. Well(p9) /\ p9[1] = first[1] /\ EndsInQuad(p9)
  BY <1>8, RunMore
<1> HIDE DEF p9
<1>10. Well(p10) /\ p10[1] = first[1]
  BY <1>9, CrmMore
<1> HIDE DEF p10
<1>11. Well(p11) /\ p11[1] = first[1]
  BY <1>10, RunMore
<1> HIDE DEF p11
<1> QED BY <1>0, <1>11, <1>first

(* set_flash_mode on the HX8K board keeps the latency.                     *)
LEMMA HxModeWell ==
    ASSUME HX8K, NEW m \in Modes
    PROVE  Well(set_flash_mode(m)) /\ set_flash_mode(m)[1].op = "spictrl"
<1> DEFINE c == Set(m, FALSE, Keep)
<1>1. set_flash_mode(m) = <<c>>
  BY DEF set_flash_mode
<1>2. /\ c \in Calls /\ Fits(c) /\ ~SetsLatency(c) /\ c.op = "spictrl"
      /\ c.op # "crm"
  <2>1. Keep \in Nat
    BY DEF Keep
  <2>2. c \in Calls
    BY <2>1, CallTypes
  <2>3. Fits(c) /\ ~SetsLatency(c) /\ c.op = "spictrl"
    BY DEF Fits, Set, SetsLatency, IsFlash
  <2> QED BY <2>2, <2>3
<1> HIDE DEF c
<1>3. Well(<<c>>) /\ <<c>>[1] = c
  BY <1>2, Single
<1> QED BY <1>1, <1>2, <1>3

(* Reading the registers on the iCEBreaker.                                *)
LEMMA IceRegsWell ==
    ASSUME ~HX8K
    PROVE  /\ Well(cmd_read_flash_regs)
           /\ cmd_read_flash_regs[1] = Flashio("read", 1)
<1> DEFINE l == [r \in 1 .. 3 |-> Flashio("read", r)]
<1>1. cmd_read_flash_regs = l
  BY DEF cmd_read_flash_regs
<1>2. \A r \in 1 .. 3 : l[r] = Flashio("read", r)
  OBVIOUS
<1>3. \A r \in 1 .. 3 : Flashio("read", r) \in Calls
  BY CallTypes DEF FlashCommands
<1>4. l = [r \in 1 .. 3 |-> l[r]]
  OBVIOUS
<1> HIDE DEF l
<1>5. l \in Seq(Calls) /\ Len(l) = 3
  BY <1>2, <1>3, <1>4, ListOfCalls
<1>6. \A r \in 1 .. 3 :
        Fits(Flashio("read", r)) /\ Flashio("read", r).op # "crm"
  BY DEF Fits, Flashio, IsFlash
<1>7. \A r \in 1 .. 3 :
        r < 3 => InOrder(Flashio("read", r), Flashio("read", r + 1))
  BY DEF InOrder, Flashio, IsFlash, SetsLatency
<1>8. \A r \in 1 .. 3 : ~SetsLatency(l[r]) /\ Fits(l[r]) /\ l[r].op # "crm"
  BY <1>2, <1>6 DEF SetsLatency
<1>9. \A r \in 1 .. 3 : r < 3 => InOrder(l[r], l[r + 1])
  <2>1. \A r \in 1 .. 3 : r < 3 => r + 1 \in 1 .. 3
    OBVIOUS
  <2> QED BY <1>2, <1>7, <2>1
<1>10. Planned(l)
  BY <1>5, <1>8, <1>9 DEF Planned
<1>11. \A m : CrmInQuad(l, m)
  BY <1>5, <1>8 DEF CrmInQuad
<1>12. l[1] = Flashio("read", 1)
  BY <1>2
<1> QED BY <1>1, <1>5, <1>10, <1>11, <1>12 DEF Well

(* Reading the identification.                                             *)
LEMMA IdWell ==
    Well(cmd_read_flash_id) /\ cmd_read_flash_id[1] = Flashio("id", 0)
<1> DEFINE c == Flashio("id", 0)
           q == [i \in 1 .. 16 |-> Hex(2)]
<1>1. c \in Calls /\ Fits(c) /\ ~SetsLatency(c) /\ c.op # "crm"
  BY CallTypes DEF FlashCommands, Fits, Flashio, IsFlash, SetsLatency
<1>2. Well(<<c>>) /\ <<c>>[1] = c /\ Len(<<c>>) = 1
  BY <1>1, Single
<1>3. \A i \in 1 .. 16 : q[i] = Hex(2)
  OBVIOUS
<1>4. Hex(2) \in Calls /\ Plain(Hex(2))
  BY CallTypes, PlainOps
<1>5. q = [i \in 1 .. 16 |-> q[i]]
  OBVIOUS
<1>6. cmd_read_flash_id = <<c>> \o q
  BY DEF cmd_read_flash_id
<1> HIDE DEF c, q
<1>7. q \in Seq(Calls) /\ Len(q) = 16
  BY <1>3, <1>4, <1>5, ListOfCalls
<1>8. /\ Fits(Hex(2)) /\ ~SetsLatency(Hex(2)) /\ InOrder(Hex(2), Hex(2))
      /\ InOrder(c, Hex(2)) /\ Hex(2).op # "crm"
  BY <1>1, <1>4, PlainFits
<1>9. Planned(q)
  <2>1. \A i \in 1 .. 16 : i < 16 => i + 1 \in 1 .. 16
    OBVIOUS
  <2> QED BY <1>3, <1>7, <1>8, <2>1 DEF Planned
<1> DEFINE p == <<c>>
<1>10. Well(p) /\ p[1] = c /\ Len(p) = 1
  BY <1>2
<1> HIDE DEF p
<1>11. Well(p \o q) /\ (p \o q)[1] = p[1]
  <2>1. /\ Len(q) > 0 /\ InOrder(p[Len(p)], q[1])
        /\ \A i \in 1 .. Len(q) : q[i].op # "crm"
    BY <1>3, <1>7, <1>8, <1>10
  <2> QED BY <1>7, <1>9, <1>10, <2>1, JoinedWell, Zenon
<1> QED BY <1>6, <1>10, <1>11 DEF p, c

(* The benchmark of the present mode.                                      *)
LEMMA BenchWell ==
    /\ Well(<<Bench, Hex(8), Hex(8), Hex(8)>>)
    /\ <<Bench, Hex(8), Hex(8), Hex(8)>>[1] = Bench
<1> DEFINE l == <<Bench, Hex(8), Hex(8), Hex(8)>>
<1>1. Bench \in Calls /\ Hex(8) \in Calls /\ Plain(Bench) /\ Plain(Hex(8))
  BY CallTypes, PlainOps
<1>2. /\ Fits(Bench) /\ Fits(Hex(8)) /\ ~SetsLatency(Bench)
      /\ ~SetsLatency(Hex(8))
      /\ InOrder(Bench, Hex(8)) /\ InOrder(Hex(8), Hex(8)) /\ Bench.op # "crm"
      /\ Hex(8).op # "crm"
  BY <1>1, PlainFits
<1>3. /\ l \in Seq(Calls) /\ Len(l) = 4 /\ l[1] = Bench /\ l[2] = Hex(8)
      /\ l[3] = Hex(8) /\ l[4] = Hex(8)
  BY <1>1
<1> HIDE DEF l
<1>4. \A i \in 1 .. 4 : i = 1 \/ i = 2 \/ i = 3 \/ i = 4
  OBVIOUS
<1>5. Planned(l)
  BY <1>2, <1>3, <1>4 DEF Planned
<1>6. \A m : CrmInQuad(l, m)
  BY <1>2, <1>3, <1>4 DEF CrmInQuad
<1>7. Well(l) /\ l[1] = Bench
  BY <1>3, <1>5, <1>6 DEF Well
<1> QED BY <1>7 DEF l

(* Every command of the menu is a good list; one that begins with a flash
   command asks for the ID or the status, and key 7 changes the CRM bit. *)
LEMMA CommandsWell ==
    ASSUME NEW key \in Commands
    PROVE  /\ Well(Command(key))
           /\ LET c == Command(key)[1]
              IN  /\ c.op = "flashio" => Asks(c)
                  /\ c.op = "toggle" => key = "7"
<1>modes. {"spi", "dual", "quad", "qddr"} \subseteq Modes
  BY DEF Modes
<1>0. \A m \in Modes :
        Well(set_flash_mode(m)) /\ set_flash_mode(m)[1].op = "spictrl"
  BY HxModeWell, ModeWell
<1>1. CASE key = "1"
  <2>1. Command(key) = cmd_read_flash_id
    BY <1>1 DEF Command
  <2> QED BY <1>1, <2>1, IdWell DEF Flashio, Asks
<1>2. CASE key = "2"
  <2>1. Command(key) = cmd_read_flash_regs
    BY <1>2 DEF Command
  <2>2. CASE HX8K
    BY <1>2, <2>1, <2>2, RegsWell DEF Set
  <2>3. CASE ~HX8K
    BY <1>2, <2>1, <2>3, IceRegsWell DEF Flashio, Asks
  <2> QED BY <2>2, <2>3
<1>3. CASE key \in {"3", "4", "5", "6"}
  <2>1. \E m \in Modes : Command(key) = set_flash_mode(m)
    BY <1>3, <1>modes DEF Command
  <2> QED BY <1>0, <2>1
<1>4. CASE key = "7"
  <2>1. Command(key) = <<Toggle>>
    BY <1>4 DEF Command
  <2>2. /\ Toggle \in Calls /\ Fits(Toggle) /\ ~SetsLatency(Toggle)
        /\ Toggle.op # "crm" /\ Toggle.op # "flashio"
    BY CallTypes DEF Toggle, Fits, SetsLatency, IsFlash
  <2> QED BY <1>4, <2>1, <2>2, Single
<1>5. CASE key = "9"
  <2>1. Command(key) = <<Bench, Hex(8), Hex(8), Hex(8)>>
    BY <1>5 DEF Command
  <2>2. Bench.op = "bench"
    BY DEF Bench
  <2> QED BY <2>1, <2>2, BenchWell
<1>6. CASE key = "0"
  <2>1. Command(key) = cmd_benchmark_all
    BY <1>6 DEF Command
  <2>2. Set("spi", FALSE, Keep).op = "spictrl"
    BY DEF Set
  <2> QED BY <2>1, <2>2, HxBenchmarkWell, IceBenchmarkWell
<1>7. ASSUME NEW c \in Calls, Plain(c), Command(key) = <<c>>
      PROVE  /\ Well(Command(key))
             /\ Command(key)[1].op \notin {"flashio", "toggle"}
  <2>1. Fits(c) /\ ~SetsLatency(c) /\ c.op # "crm"
    BY <1>7, PlainFits
  <2> QED BY <1>7, <2>1, Single DEF Plain
<1>8. CASE key \in {"M", "S", "e"}
  <2>1. \/ Command(key) = <<Memtest>>
        \/ Command(key) = <<DecLatency>>
        \/ Command(key) = <<GetChar(FALSE)>>
    BY <1>8 DEF Command, cmd_print_spi_state
  <2>2. /\ Memtest \in Calls /\ DecLatency \in Calls
        /\ GetChar(FALSE) \in Calls
        /\ Plain(Memtest) /\ Plain(DecLatency) /\ Plain(GetChar(FALSE))
    BY CallTypes, PlainOps
  <2> QED BY <1>7, <2>1, <2>2
<1> QED BY <1>1, <1>2, <1>3, <1>4, <1>5, <1>6, <1>8 DEF Commands

(* What holds of a list holds of it in the next state: the board stays.    *)
LEMMA PlannedNext ==
    ASSUME board' = board, NEW l, todo' = l, Planned(l)
    PROVE  Planned(todo)'
BY DEF Planned, Fits, InOrder, SetsLatency, IsFlash, HX8K

(* The same for the call that is next.                                     *)
LEMMA ReadyNext ==
    ASSUME board' = board, NEW l, todo' = l, NEW s, spictrl' = s, NEW h,
           chip' = h,
           l # <<>> => Ready(Head(l), s, h),
           got' = got \/ (l # <<>> => Head(l).op # "toggle")
    PROVE  (todo # <<>> => Ready(Call, spictrl, chip))'
BY DEF Ready, Asks, IsFlash, Call

(* The same for the ways in which the flash is lost.                       *)
LEMMA LostNext ==
    ASSUME UNCHANGED <<board, spictrl, chip, got>>, FetchesDecode
    PROVE  FetchesDecode'
BY DEF FetchesDecode, Decodes, TakesCommand, Latency

(* And for the mode the chip answers.                                      *)
LEMMA DecodesNext ==
    ASSUME board' = board, NEW s, spictrl' = s, NEW h, chip' = h, Decodes(s, h)
    PROVE  FetchesDecode'
BY DEF FetchesDecode, Decodes, TakesCommand, Latency

(* A call is taken off the list, by whichever action takes it.             *)
LEMMA Consumed ==
    ASSUME Invariant, todo # <<>>, todo' = Tail(todo), board' = board
    PROVE  /\ Call \in Calls /\ Fits(Call)
           /\ todo' \in Seq(Calls) /\ Planned(todo)'
           /\ todo' # <<>> => InOrder(Call, Head(todo'))
           /\ todo' = <<>> => ~SetsLatency(Call)
           /\ Call.op = "crm" => spictrl.mode \in QuadModes
           /\ Quiet(Call) => CrmInQuad(todo', spictrl.mode)
           /\ Call.op = "spictrl" => CrmInQuad(todo', Call.mode)
           /\ ~Quiet(Call) /\ Call.op # "spictrl" => \A n : CrmInQuad(todo', n)
<1>1. todo \in Seq(Calls) /\ Planned(todo) /\ CrmInQuad(todo, spictrl.mode)
  BY DEF Invariant, Types
<1>2. /\ Tail(todo) \in Seq(Calls) /\ Planned(Tail(todo))
      /\ Head(todo) \in Calls
      /\ Fits(Head(todo))
      /\ Tail(todo) = <<>> => ~SetsLatency(Head(todo))
      /\ Tail(todo) # <<>> => InOrder(Head(todo), Head(Tail(todo)))
  BY <1>1, TailPlanned
<1>3. Planned(todo)'
  BY <1>2, PlannedNext
<1>4. /\ Head(todo).op = "crm" => spictrl.mode \in QuadModes
      /\ Quiet(Head(todo)) => CrmInQuad(Tail(todo), spictrl.mode)
      /\ Head(todo).op = "spictrl" => CrmInQuad(Tail(todo), Head(todo).mode)
      /\ ~Quiet(Head(todo)) /\ Head(todo).op # "spictrl"
           => \A n : CrmInQuad(Tail(todo), n)
  BY <1>1, TailCrm
<1> QED BY <1>2, <1>3, <1>4 DEF Call

(* The QUAD flag is set unless the next call is one of those that set it.  *)
LEMMA NotBooting ==
    ASSUME Invariant, todo # <<>>
    PROVE  /\ pc # "boot"
           /\ (Call.op # "flashio" => chip.quad)
<1>1. pc # "boot"
  BY DEF Invariant, Booting
<1>2. Call.op # "flashio" => chip.quad
  <2>1. /\ Head(set_flash_qspi_flag \o <<GetChar(TRUE)>>).op = "flashio"
        /\ Head(Tail(set_flash_qspi_flag \o <<GetChar(TRUE)>>)).op = "flashio"
    BY DEF set_flash_qspi_flag, Flashio
  <2> QED BY <1>1, <2>1 DEF Invariant, FlagSet, Call
<1> QED BY <1>1, <1>2

(* The fields of a call have their types.                                  *)
LEMMA CallFields ==
    ASSUME NEW c \in Calls
    PROVE  /\ c.op = "flashio" => c.cmd \in FlashCommands /\ c.arg \in Nat
           /\ c.op = "spictrl" => c.mode \in Modes /\ c.cont \in BOOLEAN /\ c.lat \in Nat
BY DEF Calls, SetCalls, FlashCalls, CharCalls, NumberCalls, PlainCalls

(* A flash command follows another flash command or the write of the
   latency, and nothing else. *)
LEMMA NoFlashNext ==
    ASSUME NEW c, NEW d \in Calls, InOrder(c, d), ~SetsLatency(c),
           c.op # "flashio"
    PROVE  d.op # "flashio" /\ d.op # "toggle" /\ \A s, h : Ready(d, s, h)
<1>1. d.op # "flashio"
  BY CallFields DEF InOrder, IsFlash, FlashCommands
<1> QED BY <1>1 DEF InOrder, Ready, IsFlash

(* Printing changes neither the controller nor the chip.                   *)
LEMMA ShowStep ==
    ASSUME Invariant, todo # <<>>, Show, UNCHANGED <<board, pc, rep>>
    PROVE  Invariant'
<1> DEFINE c == Call
<1>1. c.op \in {"dec", "declatency", "hex", "memtest", "bench"}
  BY DEF Show
<1>2. /\ todo' = Tail(todo)
      /\ UNCHANGED <<board, pc, rep, spictrl, chip, rx, got, cycles, begin, leds>>
  BY DEF Show, Done
<1>3. /\ c \in Calls /\ Fits(c)
      /\ todo' \in Seq(Calls) /\ Planned(todo)'
      /\ todo' # <<>> => InOrder(c, Head(todo'))
      /\ CrmInQuad(todo', spictrl.mode)
  BY <1>1, <1>2, Consumed
<1>4. pc # "boot" /\ chip.quad
  BY <1>1, NotBooting
<1> HIDE DEF c
<1>5. Types'
  BY <1>2, <1>3 DEF Invariant, Types
<1>6. todo' # <<>> => Ready(Head(todo'), spictrl, chip)
  <2>1. todo' # <<>> => Head(todo') \in Calls
    BY <1>3
  <2>2. ~SetsLatency(c) /\ c.op # "flashio"
    BY <1>1 DEF SetsLatency
  <2> QED BY <1>3, <2>1, <2>2, NoFlashNext
<1>7. (todo # <<>> => Ready(Call, spictrl, chip))'
  BY <1>2, <1>6, ReadyNext
<1>8. InStep'
  <2>1. HX8K => spictrl.latency = chip.latency
    BY <1>1 DEF Invariant, InStep, IsFlash, c
  <2> QED BY <1>2, <2>1 DEF InStep, HX8K
<1>9. FlagSet' /\ Booting'
  BY <1>2, <1>4 DEF FlagSet, Booting
<1>10. FetchesDecode'
  BY <1>2, LostNext DEF Invariant
<1>11. CrmInQuad(todo, spictrl.mode)'
  BY <1>2, <1>3
<1> QED BY <1>2, <1>3, <1>5, <1>7, <1>8, <1>9, <1>10, <1>11 DEF Invariant

(* After a write of the register that keeps the latencies together the next
   fetch is answered, but for a chip that was in a dual continuous read and
   for key 7 in the default mode. *)
LEMMA WrittenRegister ==
    ASSUME Invariant, Decodes(spictrl, chip), todo # <<>>, NEW s, WriteSpictrl(s),
           UNCHANGED <<board, pc, rep>>,
           Call.op \in {"spictrl", "crm", "toggle"},
           s \in [mode : Modes, cont : BOOLEAN, latency : Nat],
           s.mode = "spi" /\ s.cont => got = "7",
           HX8K => s.latency = chip.latency \/ SetsLatency(Call),
           ~HX8K => s.mode = "spi" \/ s.latency = Dummy[s.mode],
           SetsLatency(Call) => s.mode = "spi" /\ ~s.cont /\ s.latency = Call.lat,
           CrmInQuad(Tail(todo), s.mode)
    PROVE  Invariant'
<1> DEFINE c == Call
<1>1. /\ todo' = Tail(todo) /\ spictrl' = s /\ chip' = Fetched(s, Leave(chip))
      /\ UNCHANGED <<board, pc, rep, rx, got, cycles, begin, leds, said>>
  BY DEF WriteSpictrl, Done
<1>2. /\ c \in Calls /\ Fits(c)
      /\ todo' \in Seq(Calls) /\ Planned(todo)'
      /\ todo' # <<>> => InOrder(c, Head(todo'))
      /\ todo' = <<>> => ~SetsLatency(c)
  BY <1>1, Consumed
<1>3. pc # "boot" /\ chip.quad
  BY NotBooting
<1>4. c.op \in {"spictrl", "crm", "toggle"}
  OBVIOUS
<1>5. /\ HX8K => s.latency = chip.latency \/ SetsLatency(c)
      /\ SetsLatency(c) => s.mode = "spi" /\ ~s.cont /\ s.latency = c.lat
  OBVIOUS
<1> HIDE DEF c
<1> DEFINE h == Fetched(s, Leave(chip))
<1>6. /\ chip \in [xip : (Modes \ {"spi"}) \cup {"none", "adrift"}, quad : BOOLEAN, latency : Nat]
      /\ spictrl.mode \in Modes /\ chip.xip # "adrift"
  BY DEF Invariant, Types, Decodes, Modes
<1>7. Leave(chip) = [chip EXCEPT !.xip = IF chip.xip = "dual" THEN "adrift" ELSE "none"]
  BY <1>6 DEF Leave
<1>8. /\ h \in [xip : (Modes \ {"spi"}) \cup {"none", "adrift"}, quad : BOOLEAN, latency : Nat]
      /\ h.quad /\ h.latency = chip.latency
  BY <1>3, <1>6, <1>7 DEF Fetched, Modes
<1>9. s.mode # "spi" => s.latency = Latency(chip, s.mode)
  BY <1>5 DEF Latency, HX8K
<1>10. TakesCommand(s, Leave(chip))
  BY <1>3, <1>6, <1>7, <1>9 DEF TakesCommand, Latency
<1>11. Decodes(s, h) \/ (got = "7" /\ s.mode = "spi" /\ s.cont) \/ h.xip = "adrift"
  <2>1. CASE chip.xip = "dual"
    BY <1>6, <1>7, <2>1 DEF Fetched
  <2>2. CASE chip.xip # "dual" /\ s.mode = "spi"
    <3>1. h.xip = "none"
      BY <1>6, <1>7, <2>2 DEF Fetched
    <3> QED BY <2>2, <3>1 DEF Decodes, TakesCommand
  <2>3. CASE chip.xip # "dual" /\ s.mode # "spi" /\ s.cont
    <3>1. h.xip = s.mode
      BY <1>6, <1>7, <1>10, <2>3 DEF Fetched
    <3> QED BY <1>8, <1>9, <2>3, <3>1 DEF Decodes, Latency
  <2>4. CASE chip.xip # "dual" /\ s.mode # "spi" /\ ~s.cont
    <3>1. h = Leave(chip) /\ h.xip = "none"
      BY <1>6, <1>7, <2>4 DEF Fetched
    <3> QED BY <1>10, <2>4, <3>1 DEF Decodes
  <2> QED BY <2>1, <2>2, <2>3, <2>4
<1> HIDE DEF h
<1>12. chip' = h
  BY <1>1 DEF h
<1>13. FetchesDecode'
  <2>1. CASE Decodes(s, h)
    BY <1>1, <1>12, <2>1, DecodesNext
  <2>2. CASE (got = "7" /\ s.mode = "spi" /\ s.cont) \/ h.xip = "adrift"
    BY <1>1, <1>12, <2>2 DEF FetchesDecode
  <2> QED BY <1>11, <2>1, <2>2
<1>14. Types'
  BY <1>1, <1>2, <1>8, <1>12 DEF Invariant, Types
<1>15. todo' # <<>> => Ready(Head(todo'), s, h)
  <2> SUFFICES ASSUME todo' # <<>> PROVE Ready(Head(todo'), s, h)
    OBVIOUS
  <2>1. Head(todo') \in Calls /\ InOrder(c, Head(todo'))
    BY <1>2
  <2>2. CASE ~SetsLatency(c)
    BY <1>4, <2>1, <2>2, NoFlashNext
  <2>3. CASE SetsLatency(c)
    BY <1>5, <2>1, <2>3 DEF InOrder, Ready, IsFlash
  <2> QED BY <2>2, <2>3
<1>16. (todo # <<>> => Ready(Call, spictrl, chip))'
  BY <1>1, <1>12, <1>15, ReadyNext
<1>17. InStep'
  <2>1. HX8K => s.latency = h.latency \/ (todo' # <<>> /\ IsFlash(Head(todo'), {"latency"}))
    BY <1>2, <1>5, <1>8 DEF InOrder
  <2> QED BY <1>1, <1>12, <2>1 DEF InStep, HX8K, Call, IsFlash
<1>18. FlagSet' /\ Booting'
  BY <1>1, <1>3, <1>8, <1>12 DEF FlagSet, Booting
<1>19. CrmInQuad(todo, spictrl.mode)'
  BY <1>1
<1> QED BY <1>2, <1>13, <1>14, <1>16, <1>17, <1>18, <1>19 DEF Invariant

(* Every write of the register is such a write.                            *)
LEMMA RegisterStep ==
    ASSUME Invariant, Decodes(spictrl, chip), todo # <<>>, reg_spictrl,
           UNCHANGED <<board, pc, rep>>
    PROVE  Invariant'
<1> DEFINE c == Call
           l == Tail(todo)
<1>0. todo' = l /\ board' = board
  BY DEF reg_spictrl, WriteSpictrl, Done
<1>1. /\ c \in Calls /\ Fits(c)
      /\ c.op = "crm" => spictrl.mode \in QuadModes
      /\ c.op = "spictrl" => CrmInQuad(l, c.mode)
      /\ ~Quiet(c) /\ c.op # "spictrl" => \A n : CrmInQuad(l, n)
  BY <1>0, Consumed
<1>2. /\ spictrl \in [mode : Modes, cont : BOOLEAN, latency : Nat]
      /\ chip.xip # "spi"
  BY DEF Invariant, Types
<1>3. HX8K /\ ~IsFlash(c, {"latency"}) => spictrl.latency = chip.latency
  BY DEF Invariant, InStep
<1>4. spictrl.mode # "spi" => spictrl.latency = Latency(chip, spictrl.mode)
  BY <1>2 DEF Decodes, TakesCommand
<1>5. Ready(c, spictrl, chip)
  BY DEF Invariant
<1>6. CASE c.op = "spictrl"
  <2> DEFINE s == [mode |-> c.mode, cont |-> c.cont,
                   latency |-> IF c.lat = Keep THEN spictrl.latency ELSE c.lat]
  <2>1. WriteSpictrl(s)
    BY <1>6 DEF reg_spictrl
  <2>2. c.mode \in Modes /\ c.cont \in BOOLEAN /\ c.lat \in Nat
    BY <1>1, <1>6, CallFields
  <2>3. s \in [mode : Modes, cont : BOOLEAN, latency : Nat] /\ s.mode = c.mode /\ s.cont = c.cont
    BY <1>2, <2>2
  <2>4. /\ HX8K /\ ~SetsLatency(c) => s.latency = chip.latency
        /\ SetsLatency(c) => s.latency = c.lat
    BY <1>3, <1>6 DEF SetsLatency, IsFlash
  <2>5. /\ s.mode = "spi" => ~s.cont
        /\ SetsLatency(c) => s.mode = "spi" /\ ~s.cont
        /\ ~HX8K => c.lat = Dummy[c.mode]
    BY <1>1, <1>6, <2>3 DEF Fits, SetsLatency
  <2>6. ~HX8K => s.latency = Dummy[s.mode]
    BY <2>2, <2>3, <2>5 DEF Dummy, Modes, Keep
  <2> HIDE DEF s
  <2> QED BY <1>0, <1>1, <1>6, <2>1, <2>3, <2>4, <2>5, <2>6, WrittenRegister
<1>7. CASE c.op = "crm"
  <2> DEFINE s == [spictrl EXCEPT !.cont = TRUE]
  <2>1. WriteSpictrl(s)
    BY <1>7 DEF reg_spictrl
  <2>2. /\ s \in [mode : Modes, cont : BOOLEAN, latency : Nat]
        /\ s.mode = spictrl.mode /\ s.latency = spictrl.latency
        /\ s.mode \in QuadModes
    BY <1>1, <1>2, <1>7
  <2>3. ~SetsLatency(c) /\ ~Quiet(c)
    BY <1>7 DEF SetsLatency, Quiet
  <2>4. HX8K => s.latency = chip.latency
    BY <1>3, <1>7, <2>2 DEF IsFlash
  <2>5. ~HX8K => s.latency = Dummy[s.mode]
    BY <1>4, <2>2 DEF Latency, HX8K, QuadModes
  <2> HIDE DEF s
  <2> QED BY <1>0, <1>1, <1>7, <2>1, <2>2, <2>3, <2>4, <2>5, WrittenRegister DEF QuadModes
<1>8. CASE c.op = "toggle"
  <2> DEFINE s == [spictrl EXCEPT !.cont = ~@]
  <2>1. WriteSpictrl(s)
    BY <1>8 DEF reg_spictrl
  <2>2. /\ s \in [mode : Modes, cont : BOOLEAN, latency : Nat]
        /\ s.mode = spictrl.mode /\ s.latency = spictrl.latency
    BY <1>2
  <2> HIDE DEF s
  <2>3. ~SetsLatency(c) /\ ~Quiet(c)
    BY <1>8 DEF SetsLatency, Quiet
  <2>4. got = "7"
    BY <1>5, <1>8 DEF Ready
  <2>5. HX8K => s.latency = chip.latency
    BY <1>3, <1>8, <2>2 DEF IsFlash
  <2>6. ~HX8K => s.mode = "spi" \/ s.latency = Dummy[s.mode]
    BY <1>4, <2>2 DEF Latency, HX8K
  <2>7. CrmInQuad(l, s.mode)
    BY <1>1, <1>8, <2>3
  <2> HIDE DEF l
  <2>8. CrmInQuad(Tail(todo), s.mode)
    BY <2>7 DEF l
  <2> QED BY <1>8, <2>1, <2>2, <2>3, <2>4, <2>5, <2>6, <2>8, WrittenRegister
<1> QED BY <1>1, <1>6, <1>7, <1>8 DEF reg_spictrl

(* While the code is fetched, a flash command that only asks may meet a chip
   in a continuous read, and no other one does. *)
LEMMA InvariantUnderstood ==
    ASSUME Invariant
    PROVE  CommandsUnderstood
BY DEF Invariant, Decodes, Ready, Asks, IsFlash, CommandsUnderstood, Understood

(* A flash command leaves the chip readable, understood or not, and one that
   changes its latency completes the change. *)
LEMMA FlashStep ==
    ASSUME Invariant, Decodes(spictrl, chip), todo # <<>>, flashio,
           UNCHANGED <<board, pc, rep>>
    PROVE  Invariant'
<1> DEFINE c == Call
           h == IF Understood(c, chip) THEN Obey(c, chip)
                ELSE [chip EXCEPT !.xip = "none"]
           k == Fetched(spictrl, Leave(h))
<1>1. c.op = "flashio" /\ todo' = Tail(todo) /\ chip' = k
      /\ UNCHANGED <<board, pc, rep, spictrl, rx, got, cycles, begin, leds, said>>
  BY DEF flashio, Done
<1>2. /\ c \in Calls /\ Fits(c)
      /\ todo' \in Seq(Calls) /\ Planned(todo)'
      /\ todo' # <<>> => InOrder(c, Head(todo'))
      /\ todo' = <<>> => ~SetsLatency(c)
      /\ CrmInQuad(todo', spictrl.mode)
  BY <1>1, Consumed DEF Quiet
<1>3. /\ spictrl \in [mode : Modes, cont : BOOLEAN, latency : Nat]
      /\ chip \in [xip : (Modes \ {"spi"}) \cup {"none", "adrift"}, quad : BOOLEAN, latency : Nat]
  BY DEF Invariant, Types
<1>4. c.cmd \in FlashCommands /\ c.arg \in Nat
  BY <1>1, <1>2, CallFields
<1>5. pc # "boot"
  BY <1>1, NotBooting
<1>6. /\ ~spictrl.cont \/ Asks(c)
      /\ c.cmd = "latency" => spictrl.mode = "spi" /\ spictrl.latency = c.arg
      /\ c.cmd = "rdar" => chip.latency = 8
  BY <1>1 DEF Invariant, Ready, IsFlash
<1>7. /\ ~spictrl.cont => chip.xip = "none" /\ TakesCommand(spictrl, chip)
      /\ spictrl.cont => /\ spictrl.mode # "spi" /\ chip.quad
                         /\ spictrl.latency = Latency(chip, spictrl.mode)
  BY <1>3 DEF Decodes, TakesCommand, Invariant, FlagSet
<1>8. HX8K /\ c.cmd # "latency" => spictrl.latency = chip.latency
  BY <1>1 DEF Invariant, InStep, IsFlash
<1>9. /\ ~spictrl.cont => Understood(c, chip)
      /\ spictrl.cont => c.cmd \in {"id", "read"}
  BY <1>6, <1>7 DEF Understood, Asks
<1>10. /\ h \in [xip : {"none"}, quad : BOOLEAN, latency : Nat]
       /\ (chip.quad => h.quad) /\ (c.cmd = "quad" => h.quad)
       /\ h.latency = IF c.cmd = "latency" THEN c.arg ELSE chip.latency
  <2>1. CASE Understood(c, chip)
    <3>1. h = Obey(c, chip) /\ chip.xip = "none"
      BY <2>1 DEF Understood
    <3> HIDE DEF h
    <3> QED BY <1>3, <1>4, <3>1 DEF Obey
  <2>2. CASE ~Understood(c, chip)
    <3>1. h = [chip EXCEPT !.xip = "none"] /\ c.cmd \in {"id", "read"}
      BY <1>9, <2>2
    <3> HIDE DEF h
    <3> QED BY <1>3, <3>1
  <2> QED BY <2>1, <2>2
<1> HIDE DEF h
<1>11. /\ Leave(h) = h
       /\ k = IF spictrl.cont /\ spictrl.mode # "spi" /\ TakesCommand(spictrl, h)
              THEN [h EXCEPT !.xip = spictrl.mode] ELSE h
  <2>1. Leave(h) = h
    BY <1>10 DEF Leave
  <2> QED BY <1>10, <2>1 DEF Fetched
<1> HIDE DEF k
<1>12. /\ k \in [xip : (Modes \ {"spi"}) \cup {"none", "adrift"}, quad : BOOLEAN, latency : Nat]
       /\ k.quad = h.quad /\ k.latency = h.latency
  BY <1>3, <1>10, <1>11
<1>13. FetchesDecode'
  <2>1. CASE ~spictrl.cont
    <3>1. k = h
      BY <1>11, <2>1
    <3> QED BY <1>1, <1>6, <1>7, <1>10, <2>1, <3>1, DecodesNext DEF Decodes, TakesCommand, Latency
  <2>2. CASE spictrl.cont
    <3>1. TakesCommand(spictrl, h) /\ Latency(h, spictrl.mode) = spictrl.latency
      BY <1>7, <1>9, <1>10, <2>2 DEF TakesCommand, Latency
    <3>2. k.xip = spictrl.mode /\ Latency(k, spictrl.mode) = spictrl.latency
      BY <1>7, <1>10, <1>11, <1>12, <2>2, <3>1 DEF Latency
    <3> QED BY <1>1, <2>2, <3>2, DecodesNext DEF Decodes
  <2> QED BY <2>1, <2>2
<1>14. Types'
  BY <1>1, <1>2, <1>12 DEF Invariant, Types
<1>15. (todo # <<>> => Ready(Call, spictrl, chip))'
  <2> DEFINE d == Head(todo')
  <2>1. todo' # <<>> => d \in Calls /\ InOrder(c, d) /\ ~SetsLatency(c)
    BY <1>1, <1>2 DEF SetsLatency
  <2>2. todo' # <<>> => Ready(d, spictrl, k)
    <3> HIDE DEF d
    <3> SUFFICES ASSUME todo' # <<>> PROVE Ready(d, spictrl, k)
      OBVIOUS
    <3>1. d.op = "flashio" => d.cmd \in FlashCommands
      BY <2>1, CallFields
    <3>2. d.op = "flashio" => ~spictrl.cont \/ Asks(d)
      BY <1>6, <2>1, <3>1 DEF InOrder, IsFlash, Asks, FlashCommands
    <3>3. IsFlash(d, {"rdar"}) => k.latency = 8
      BY <1>10, <1>12, <2>1 DEF InOrder, IsFlash
    <3>4. ~IsFlash(d, {"latency"}) /\ d.op # "toggle"
      BY <2>1 DEF InOrder
    <3> QED BY <3>2, <3>3, <3>4 DEF Ready
  <2> QED BY <1>1, <2>2, ReadyNext
<1>16. InStep'
  <2>1. HX8K => spictrl.latency = k.latency
    BY <1>6, <1>8, <1>10, <1>12
  <2> QED BY <1>1, <2>1 DEF InStep, HX8K
<1>17. FlagSet'
  <2>1. CASE chip.quad
    BY <2>1, <1>1, <1>10, <1>12 DEF FlagSet
  <2>2. CASE /\ spictrl.mode = "spi" /\ ~spictrl.cont /\ pc = "enter"
             /\ todo = set_flash_qspi_flag \o <<GetChar(TRUE)>>
    <3>1. todo' = Tail(set_flash_qspi_flag \o <<GetChar(TRUE)>>)
      BY <1>1, <2>2
    <3>2. set_flash_qspi_flag' = set_flash_qspi_flag
      BY <1>1 DEF set_flash_qspi_flag, HX8K
    <3> QED BY <1>1, <2>2, <3>1, <3>2 DEF FlagSet
  <2>3. CASE todo = Tail(set_flash_qspi_flag \o <<GetChar(TRUE)>>)
    <3>1. c.cmd = "quad"
      BY <2>3 DEF set_flash_qspi_flag, Flashio, Call
    <3> QED BY <3>1, <1>1, <1>10, <1>12 DEF FlagSet
  <2> QED BY <1>5, <2>1, <2>2, <2>3 DEF Invariant, FlagSet
<1>18. Booting'
  BY <1>1, <1>5 DEF Booting
<1>19. CrmInQuad(todo, spictrl.mode)'
  BY <1>1, <1>2
<1> QED BY <1>2, <1>13, <1>14, <1>15, <1>16, <1>17, <1>18, <1>19 DEF Invariant

(* Waiting for a key, and taking it.                                       *)
LEMMA CharStep ==
    ASSUME Invariant, Decodes(spictrl, chip), todo # <<>>, getchar_prompt,
           UNCHANGED <<board, pc, rep>>
    PROVE  Invariant'
<1> DEFINE c == Call
<1>1. /\ c.op \in {"getchar", "poll"}
      /\ UNCHANGED <<board, pc, rep, spictrl, chip>>
  BY DEF getchar_prompt
<1>2. /\ todo \in Seq(Calls) /\ Planned(todo) /\ c \in Calls /\ todo[1] = c
      /\ Len(todo) > 0 /\ Len(todo) \in Nat
  BY DEF Invariant, Types, Call
<1>3. /\ ~SetsLatency(c) /\ c.op # "flashio" /\ ~Quiet(c) /\ c.op # "crm"
      /\ c.op # "spictrl"
  BY <1>1 DEF SetsLatency, Quiet
<1>4. HX8K => spictrl.latency = chip.latency
  BY <1>3 DEF Invariant, InStep, IsFlash
<1>5. chip.quad /\ pc # "boot"
  <2>1. pc # "boot"
    BY DEF Invariant, Booting
  <2>2. /\ Head(set_flash_qspi_flag \o <<GetChar(TRUE)>>).op = "flashio"
        /\ Head(Tail(set_flash_qspi_flag \o <<GetChar(TRUE)>>)).op = "flashio"
    BY DEF set_flash_qspi_flag, Flashio
  <2> QED BY <1>3, <2>1, <2>2 DEF Invariant, FlagSet, Call
<1>6. FetchesDecode'
  BY <1>1, DecodesNext
<1>7. CASE c.op = "getchar"
  <2> DEFINE d == Poll(c.prompt)
             l == <<d>> \o Tail(todo)
  <2>1. todo' = l /\ UNCHANGED <<rx, got, cycles, said>>
    BY <1>7 DEF getchar_prompt
  <2>2. d \in Calls /\ d.op = "poll" /\ Fits(d) /\ ~SetsLatency(d)
    <3>1. c.prompt \in BOOLEAN
      BY <1>2, <1>7 DEF Calls, SetCalls, FlashCalls, CharCalls, NumberCalls, PlainCalls
    <3> QED BY <3>1, CallTypes, PlainOps, PlainFits DEF Poll
  <2> HIDE DEF d
  <2>3. /\ l \in Seq(Calls) /\ Len(l) = Len(todo) /\ l[1] = d
        /\ \A i \in 2 .. Len(todo) : l[i] = todo[i]
    BY <1>2, <2>2
  <2>4. Head(l) = d /\ l # <<>>
    BY <2>2
  <2> HIDE DEF l
  <2>5. \A b : InOrder(c, b) => InOrder(d, b)
    BY <1>3, <2>2 DEF InOrder, IsFlash, SetsLatency
  <2>6. Planned(l)
    <3>1. \A i \in 1 .. Len(todo) :
            Fits(l[i]) /\ (i = Len(todo) => ~SetsLatency(l[i]))
      BY <1>2, <2>2, <2>3 DEF Planned
    <3>2. ASSUME NEW i \in 1 .. Len(todo), i < Len(todo)
          PROVE  InOrder(l[i], l[i + 1])
      <4>1. InOrder(todo[i], todo[i + 1]) /\ l[i + 1] = todo[i + 1]
        BY <1>2, <2>3, <3>2 DEF Planned
      <4>2. CASE i = 1
        BY <1>2, <2>3, <2>5, <4>1, <4>2
      <4>3. CASE i > 1
        BY <2>3, <4>1, <4>3
      <4> QED BY <4>2, <4>3
    <3> QED BY <2>3, <3>1, <3>2 DEF Planned
  <2>7. CrmInQuad(l, spictrl.mode)
    <3>1. CrmInQuad(todo, spictrl.mode)
      BY DEF Invariant
    <3>2. \A i \in 1 .. Len(todo) : l[i].op # todo[i].op => i = 1
      BY <1>2, <2>3
    <3>3. ~Quiet(d) /\ d.op # "spictrl" /\ d.op # "crm"
      BY <2>2 DEF Quiet
    <3> SUFFICES ASSUME NEW i \in 1 .. Len(todo), l[i].op = "crm"
                 PROVE \E k \in 1 .. i - 1 :
                          /\ l[k].op = "spictrl" /\ l[k].mode \in QuadModes
                          /\ \A j \in k + 1 .. i - 1 : Quiet(l[j])
      BY <2>3 DEF CrmInQuad
    <3>4. i > 1 /\ l[i] = todo[i]
      BY <1>2, <2>3, <3>3
    <3>5. ~(\A j \in 1 .. i - 1 : Quiet(todo[j]))
      BY <1>2, <1>3, <3>4
    <3>6. PICK k \in 1 .. i - 1 :
              /\ todo[k].op = "spictrl" /\ todo[k].mode \in QuadModes
              /\ \A j \in k + 1 .. i - 1 : Quiet(todo[j])
      BY <3>1, <3>4, <3>5 DEF CrmInQuad
    <3>7. k > 1 /\ \A j \in k .. i - 1 : l[j] = todo[j]
      BY <1>2, <1>3, <2>3, <3>6
    <3> QED BY <3>6, <3>7
  <2>8. Planned(todo)'
    BY <1>1, <2>1, <2>6, PlannedNext
  <2>9. (todo # <<>> => Ready(Call, spictrl, chip))'
    <3>1. Ready(Head(l), spictrl, chip)
      BY <2>2, <2>4 DEF Ready, IsFlash
    <3> QED BY <1>1, <2>1, <3>1, ReadyNext
  <2>10. Types' /\ InStep' /\ FlagSet' /\ Booting'
    BY <1>1, <1>4, <1>5, <2>1, <2>3 DEF Invariant, Types, InStep, HX8K, FlagSet, Booting
  <2> QED BY <1>1, <1>6, <2>1, <2>7, <2>8, <2>9, <2>10 DEF Invariant
<1>8. CASE c.op = "poll" /\ rx # NoByte
  <2>1. todo' = Tail(todo) /\ got' = rx /\ rx' = NoByte
    BY <1>8 DEF getchar_prompt, Done
  <2>2. /\ todo' \in Seq(Calls) /\ Planned(todo)'
        /\ todo' # <<>> => InOrder(c, Head(todo'))
        /\ CrmInQuad(todo', spictrl.mode)
    BY <1>1, <1>3, <2>1, Consumed
  <2>3. (todo # <<>> => Ready(Call, spictrl, chip))'
    <3>1. todo' # <<>> => Head(todo') \in Calls
      BY <2>2
    <3>2. todo' # <<>> => Head(todo').op # "toggle" /\ Ready(Head(todo'), spictrl, chip)
      BY <1>3, <2>2, <3>1, NoFlashNext
    <3> QED BY <1>1, <3>2, ReadyNext
  <2>4. Types' /\ InStep' /\ FlagSet' /\ Booting'
    BY <1>1, <1>4, <1>5, <2>2 DEF Invariant, Types, InStep, HX8K, FlagSet, Booting
  <2>5. CrmInQuad(todo, spictrl.mode)'
    BY <1>1, <2>2
  <2> QED BY <1>1, <1>6, <2>2, <2>3, <2>4, <2>5 DEF Invariant
<1>9. CASE c.op = "poll" /\ rx = NoByte
  <2>1. UNCHANGED <<board, pc, rep, spictrl, chip, todo, rx, got>>
    BY <1>1, <1>9 DEF getchar_prompt
  <2>2. Planned(todo)' /\ (todo # <<>> => Ready(Call, spictrl, chip))'
    BY <2>1, PlannedNext, ReadyNext DEF Invariant, Call
  <2>3. Types' /\ InStep' /\ FlagSet' /\ Booting'
    BY <1>4, <1>5, <2>1 DEF Invariant, Types, InStep, HX8K, FlagSet, Booting
  <2>4. CrmInQuad(todo, spictrl.mode)'
    BY <2>1 DEF Invariant
  <2> QED BY <1>6, <2>1, <2>2, <2>3, <2>4 DEF Invariant
<1> QED BY <1>1, <1>7, <1>8, <1>9

(* A single getchar is a good list.                                        *)
LEMMA CharWell ==
    ASSUME NEW p \in BOOLEAN
    PROVE  /\ Well(<<GetChar(p)>>) /\ <<GetChar(p)>>[1].op = "getchar"
           /\ Len(<<GetChar(p)>>) = 1
<1>1. GetChar(p) \in Calls /\ Plain(GetChar(p))
  BY CallTypes, PlainOps
<1>2. Fits(GetChar(p)) /\ ~SetsLatency(GetChar(p)) /\ GetChar(p).op # "crm"
  BY <1>1, PlainFits
<1>3. GetChar(p).op = "getchar"
  BY DEF GetChar
<1> QED BY <1>1, <1>2, <1>3, Single

(* So is what is printed before the first menu.                            *)
LEMMA GreetingWell ==
    LET l == <<Dec(MEM_TOTAL \div 1024)>> \o cmd_print_spi_state
    IN  Well(l) /\ l[1].op = "dec"
<1> DEFINE v == MEM_TOTAL \div 1024
           p == <<Dec(v)>>
<1>1. v \in Nat
  BY DEF MEM_TOTAL
<1> HIDE DEF v
<1>2. /\ Dec(v) \in Calls /\ DecLatency \in Calls
      /\ Fits(Dec(v)) /\ ~SetsLatency(Dec(v)) /\ Dec(v).op = "dec"
      /\ Fits(DecLatency) /\ ~SetsLatency(DecLatency) /\ DecLatency.op # "crm"
      /\ InOrder(Dec(v), DecLatency)
  BY <1>1, CallTypes, PlainOps, PlainFits DEF Dec
<1>3. Well(p) /\ p[1] = Dec(v) /\ Len(p) = 1
  BY <1>2, Single
<1> HIDE DEF p
<1>4. Well(p \o <<DecLatency>>) /\ (p \o <<DecLatency>>)[1] = p[1]
  BY <1>2, <1>3, OneMore
<1> QED BY <1>2, <1>3, <1>4 DEF cmd_print_spi_state, p, v

(* And the setting of the QUAD flag at the start.                          *)
LEMMA FlagWell ==
    LET l == set_flash_qspi_flag \o <<GetChar(TRUE)>>
    IN  Well(l) /\ l[1].op = "flashio" /\ l[1].cmd \in {"rdar", "read"} /\ (l[1].cmd = "rdar" => HX8K)
<1> DEFINE a == IF HX8K THEN Flashio("rdar", 0) ELSE Flashio("read", 0)
           b == Flashio("quad", 0)
           g == GetChar(TRUE)
           l == <<a, b>> \o <<g>>
<1>1. set_flash_qspi_flag \o <<GetChar(TRUE)>> = l
  BY DEF set_flash_qspi_flag
<1>2. /\ a \in Calls /\ b \in Calls /\ g \in Calls
      /\ Fits(a) /\ Fits(b) /\ Fits(g)
  BY CallTypes, PlainOps, PlainFits DEF FlashCommands, Fits, Flashio, IsFlash
<1>3. /\ ~SetsLatency(a) /\ ~SetsLatency(b) /\ ~SetsLatency(g) /\ Plain(g)
      /\ g.op # "crm"
  BY PlainOps, PlainFits DEF SetsLatency, Flashio
<1>4. InOrder(a, b) /\ InOrder(b, g)
  <2>1. InOrder(a, b)
    BY DEF InOrder, SetsLatency, IsFlash, Flashio
  <2> HIDE DEF a, b, g
  <2>2. InOrder(b, g)
    BY <1>3, PlainFits
  <2> QED BY <2>1, <2>2
<1>5. /\ a.op = "flashio" /\ a.cmd \in {"rdar", "read"}
      /\ (a.cmd = "rdar" => HX8K) /\ b.op = "flashio"
  BY DEF Flashio
<1> HIDE DEF a, b, g
<1>6. l \in Seq(Calls) /\ Len(l) = 3 /\ l[1] = a /\ l[2] = b /\ l[3] = g
  BY <1>2
<1> HIDE DEF l
<1>7. Planned(l)
  BY <1>2, <1>3, <1>4, <1>6 DEF Planned
<1>8. \A m : CrmInQuad(l, m)
  <2>1. \A i \in 1 .. 3 : i = 1 \/ i = 2 \/ i = 3
    OBVIOUS
  <2> QED BY <1>3, <1>5, <1>6, <2>1 DEF CrmInQuad
<1>9. Well(l) /\ l[1] = a
  BY <1>6, <1>7, <1>8 DEF Well
<1> QED BY <1>1, <1>5, <1>9

(* Between two commands the latencies agree and the QUAD flag is set.      *)
LEMMA IdleFacts ==
    ASSUME Invariant, todo = <<>>
    PROVE  /\ HX8K => spictrl.latency = chip.latency
           /\ pc # "boot" => chip.quad
<1>1. Len(set_flash_qspi_flag \o <<GetChar(TRUE)>>) = 3
  BY DEF set_flash_qspi_flag
<1>2. set_flash_qspi_flag \o <<GetChar(TRUE)>> # <<>>
  BY <1>1
<1>3. Tail(set_flash_qspi_flag \o <<GetChar(TRUE)>>) # <<>>
  BY DEF set_flash_qspi_flag
<1> QED BY <1>2, <1>3 DEF Invariant, InStep, FlagSet

(* main loads the calls of the next command.                               *)
LEMMA Loaded ==
    ASSUME Invariant, todo = <<>>, NEW l, todo' = l, l = <<>> \/ Well(l),
           l # <<>> => Ready(l[1], spictrl, chip),
           UNCHANGED <<board, spictrl, chip, rx, got, cycles, begin>>,
           pc' \in {"enter", "menu", "command", "echo"}, FlagSet'
    PROVE  Invariant'
<1>1. l \in Seq(Calls) /\ Planned(l) /\ \A m : CrmInQuad(l, m)
  <2>1. CASE l = <<>>
    <3>1. l \in Seq(Calls) /\ Len(l) = 0
      BY <2>1
    <3> QED BY <3>1 DEF Planned, CrmInQuad
  <2>2. CASE Well(l)
    BY <2>2 DEF Well
  <2> QED BY <2>1, <2>2
<1>2. HX8K => spictrl.latency = chip.latency
  BY IdleFacts
<1>3. l # <<>> => Head(l) = l[1]
  BY <1>1
<1>4. Planned(todo)' /\ (todo # <<>> => Ready(Call, spictrl, chip))'
  BY <1>1, <1>3, PlannedNext, ReadyNext
<1>5. Types' /\ InStep' /\ Booting'
  BY <1>1, <1>2 DEF Invariant, Types, InStep, HX8K, Booting
<1>6. FetchesDecode'
  BY LostNext DEF Invariant
<1>7. CrmInQuad(todo, spictrl.mode)'
  BY <1>1
<1> QED BY <1>4, <1>5, <1>6, <1>7 DEF Invariant

(* Every step of main between two commands.                                *)
LEMMA MainStep ==
    ASSUME Invariant, Boot \/ Enter \/ Menu \/ Dispatch \/ cmd_echo
    PROVE  Invariant'
<1>1. CASE Boot
  <2> DEFINE l == set_flash_qspi_flag \o <<GetChar(TRUE)>>
  <2>1. /\ pc = "boot" /\ pc' = "enter" /\ todo' = l
        /\ UNCHANGED <<board, spictrl, chip, rx, got, cycles, begin>>
    BY <1>1 DEF Boot, Goto
  <2>2. /\ todo = <<>> /\ spictrl.mode = "spi" /\ ~spictrl.cont
        /\ chip.latency = 8
    BY <2>1 DEF Invariant, Booting
  <2>3. Well(l) /\ l[1].op = "flashio" /\ l[1].cmd \in {"rdar", "read"}
    BY FlagWell
  <2>4. FlagSet'
    <3>1. set_flash_qspi_flag' = set_flash_qspi_flag
      BY <2>1 DEF set_flash_qspi_flag, HX8K
    <3> QED BY <2>1, <2>2, <3>1 DEF FlagSet
  <2> HIDE DEF l
  <2>5. Ready(l[1], spictrl, chip)
    BY <2>2, <2>3 DEF Ready, IsFlash
  <2> QED BY <2>1, <2>2, <2>3, <2>4, <2>5, Loaded
<1>2. ASSUME pc # "boot", todo = <<>>, NEW l, todo' = l, l = <<>> \/ Well(l),
             l # <<>> => Ready(l[1], spictrl, chip),
             UNCHANGED <<board, spictrl, chip, rx, got, cycles, begin>>,
             pc' \in {"enter", "menu", "command", "echo"}
      PROVE  Invariant'
  <2>1. FlagSet'
    BY <1>2, IdleFacts DEF FlagSet
  <2> QED BY <1>2, <2>1, Loaded
<1>3. \A p \in BOOLEAN :
        Well(<<GetChar(p)>>) /\ Ready(<<GetChar(p)>>[1], spictrl, chip)
  BY CharWell DEF Ready, IsFlash
<1>4. CASE Enter
  <2> DEFINE g == <<Dec(MEM_TOTAL \div 1024)>> \o cmd_print_spi_state
  <2>1. /\ pc = "enter" /\ todo = <<>>
        /\ UNCHANGED <<board, spictrl, chip, rx, got, cycles, begin>>
        /\ \/ pc' = "enter" /\ todo' = <<GetChar(TRUE)>>
           \/ pc' = "menu" /\ todo' = g
    <3>1. \/ Goto("enter", <<GetChar(TRUE)>>)
          \/ Goto("menu", g)
      BY <1>4 DEF Enter
    <3>2. pc = "enter" /\ todo = <<>>
      BY <1>4 DEF Enter
    <3> HIDE DEF g
    <3> QED BY <3>1, <3>2 DEF Goto
  <2>2. Well(g) /\ Ready(g[1], spictrl, chip)
    BY GreetingWell DEF Ready, IsFlash
  <2> HIDE DEF g
  <2> QED BY <1>2, <1>3, <2>1, <2>2
<1>5. CASE Menu
  <2>1. /\ pc = "menu" /\ todo = <<>>
        /\ UNCHANGED <<board, spictrl, chip, rx, got, cycles, begin>>
        /\ pc' = "command" /\ todo' = <<GetChar(FALSE)>>
    BY <1>5 DEF Menu, Goto
  <2> QED BY <1>2, <1>3, <2>1
<1>6. CASE cmd_echo
  <2>1. /\ pc = "echo" /\ todo = <<>>
        /\ UNCHANGED <<board, spictrl, chip, rx, got, cycles, begin>>
        /\ \/ pc' = "menu" /\ todo' = <<>>
           \/ pc' = "echo" /\ todo' = <<GetChar(FALSE)>>
    BY <1>6 DEF cmd_echo, Goto
  <2> QED BY <1>2, <1>3, <2>1
<1>7. CASE Dispatch
  <2>1. /\ pc = "command" /\ todo = <<>>
        /\ UNCHANGED <<board, spictrl, chip, rx, got, cycles, begin>>
        /\ \/ got \in Commands /\ pc' \in {"echo", "menu"} /\ todo' = Command(got)
           \/ pc' = "menu" /\ todo' = <<>>
           \/ pc' = "command" /\ todo' = <<GetChar(FALSE)>>
    BY <1>7 DEF Dispatch, Goto
  <2>2. CASE got \in Commands /\ pc' \in {"echo", "menu"} /\ todo' = Command(got)
    <3>1. /\ Well(Command(got))
          /\ Command(got)[1].op = "flashio" => Asks(Command(got)[1])
          /\ Command(got)[1].op = "toggle" => got = "7"
      BY <2>2, CommandsWell
    <3>2. Ready(Command(got)[1], spictrl, chip)
      BY <3>1 DEF Asks, Ready, IsFlash
    <3> QED BY <1>2, <2>1, <2>2, <3>1, <3>2
  <2> QED BY <1>2, <1>3, <2>1, <2>2
<1> QED BY <1>1, <1>4, <1>5, <1>6, <1>7

(* A key arrives.                                                          *)
LEMMA TypeStep ==
    ASSUME Invariant, Type
    PROVE  Invariant'
<1>1. /\ Listening /\ rx = NoByte
      /\ UNCHANGED <<board, pc, todo, rep, spictrl, chip, got, cycles, begin, leds, said>>
  BY DEF Type
<1>2. Planned(todo)' /\ (todo # <<>> => Ready(Call, spictrl, chip))'
  BY <1>1, PlannedNext, ReadyNext DEF Invariant, Call
<1>3. Types' /\ InStep' /\ FlagSet' /\ Booting'
  <2>1. set_flash_qspi_flag' = set_flash_qspi_flag
    BY <1>1 DEF set_flash_qspi_flag, HX8K
  <2> QED BY <1>1, <2>1 DEF Invariant, Types, InStep, HX8K, FlagSet, Booting, Call
<1>4. FetchesDecode'
  BY <1>1, LostNext DEF Invariant
<1>5. CrmInQuad(todo, spictrl.mode)'
  BY <1>1 DEF Invariant
<1> QED BY <1>2, <1>3, <1>4, <1>5 DEF Invariant

(* The invariant holds when the board is reset.                            *)
LEMMA InvariantInit ==
    ASSUME Init
    PROVE  Invariant
<1>1. /\ board \in Boards /\ pc = "boot" /\ todo = <<>> /\ rx = NoByte
      /\ spictrl = [mode |-> "spi", cont |-> FALSE, latency |-> 8]
      /\ chip \in [xip : {"none"}, quad : BOOLEAN, latency : {8}]
  BY DEF Init
<1>2. todo \in Seq(Calls) /\ Len(todo) = 0
  BY <1>1
<1>3. Planned(todo) /\ CrmInQuad(todo, spictrl.mode)
  BY <1>2 DEF Planned, CrmInQuad
<1>4. Types
  BY <1>1, <1>2 DEF Types, Modes
<1>5. FetchesDecode
  BY <1>1 DEF FetchesDecode, Decodes, TakesCommand
<1>6. InStep /\ FlagSet /\ Booting
  BY <1>1 DEF InStep, FlagSet, Booting
<1> QED BY <1>1, <1>3, <1>4, <1>5, <1>6 DEF Invariant

(* Every step keeps the invariant.                                         *)
LEMMA InvariantNext ==
    ASSUME Invariant, [Next]_vars
    PROVE  Invariant'
<1>1. CASE Decodes(spictrl, chip) /\ todo # <<>> /\ (reg_spictrl \/ flashio \/ Show \/ getchar_prompt) /\ UNCHANGED <<board, pc, rep>>
  BY <1>1, RegisterStep, FlashStep, ShowStep, CharStep
<1>2. CASE Boot \/ Enter \/ Menu \/ Dispatch \/ cmd_echo
  BY <1>2, MainStep
<1>3. CASE Type
  BY <1>3, TypeStep
<1>4. CASE UNCHANGED vars
  <2>1. UNCHANGED <<board, pc, todo, rep, spictrl, chip, rx, got>>
    BY <1>4 DEF vars
  <2>2. Planned(todo)' /\ (todo # <<>> => Ready(Call, spictrl, chip))'
    BY <2>1, PlannedNext, ReadyNext DEF Invariant, Call
  <2>3. Types' /\ InStep' /\ FlagSet' /\ Booting'
    <3>1. set_flash_qspi_flag' = set_flash_qspi_flag
      BY <2>1 DEF set_flash_qspi_flag, HX8K
    <3> QED BY <2>1, <3>1 DEF Invariant, Types, InStep, HX8K, FlagSet, Booting, Call
  <2>4. FetchesDecode'
    BY <2>1, LostNext DEF Invariant
  <2>5. CrmInQuad(todo, spictrl.mode)'
    BY <2>1 DEF Invariant
  <2> QED BY <2>2, <2>3, <2>4, <2>5 DEF Invariant
<1> QED BY <1>1, <1>2, <1>3, <1>4 DEF Next, Firmware, Lost

(* The invariant above holds in every reachable state, whatever is typed.  *)
THEOREM FirmwareInvariant == Spec => []Invariant
<1>1. Init => Invariant
  BY InvariantInit
<1>2. Invariant /\ [Next]_vars => Invariant'
  BY InvariantNext
<1> QED BY <1>1, <1>2, PTL DEF Spec

(* The firmware loses the flash it runs from in two ways only: key 7 in the
   default mode, and a write of the register while the chip is in a dual
   continuous read.  Otherwise every fetch is answered, for any keys, any
   number of commands and any value of the other constants. *)
THEOREM FlashLostInTwoWays == Spec => []FetchesDecode
<1>1. Invariant => FetchesDecode
  BY DEF Invariant
<1> QED BY <1>1, FirmwareInvariant, PTL

(* As long as the code is fetched, flashio() clocks into a chip that is in a
   continuous read only commands that ask for the ID or the status, and reads
   a register at the one latency its single dummy byte is right for. *)
THEOREM ChipTakesCommands == Spec => []CommandsUnderstood
<1>1. Invariant => CommandsUnderstood
  BY InvariantUnderstood
<1> QED BY <1>1, FirmwareInvariant, PTL
=============================================================================

--------------------------- MODULE UartLink_proofs --------------------------
(***************************************************************************)
(* Two UARTs are a line that keeps its bytes in order, for any bytes and   *)
(* any dividers whose bit times are close enough (LinksAssumption).  The   *)
(* receiver is described by the number of clock edges since it saw the     *)
(* start of the frame (Elapsed), the sender by the bit it is sending and   *)
(* the edges it has spent on it (Follows).                                 *)
(***************************************************************************)
EXTENDS UartLink, TLAPS

(* A bit of the receiver, and half of one.                                 *)
Bit == link.rx_div + 2
Half == link.rx_div \div 2 + 1

(* The shortest and the longest bit the receiver can stand.                *)
Sample(k) == Half + 1 + k * Bit
Fast == Sample(9) \div 10 + 1
Slow == Sample(9) \div 9

(* The line is high for ever.                                              *)
Ones == [i \in 1 .. 10 |-> 1]
(* Bit n of the frame of a byte, and the frame from bit j on.              *)
FrameBit(b, n) == IF n = 0 THEN 0 ELSE IF n \in 1 .. 8 THEN b[n] ELSE 1
FrameFrom(b, j) == [i \in 1 .. 10 |-> FrameBit(b, j + i - 1)]

(* Clock edges since the start bit came to the synchroniser; 0 before. The *)
(* receiver looks at bit k when Sample(k) + 2 of them have passed, two for *)
(* the synchroniser.                                                       *)
Elapsed ==
    IF recv_state = 0
    THEN IF rx_sync = <<1, 1>> THEN 0 ELSE IF rx_sync[2] = 1 THEN 1 ELSE 2
    ELSE IF recv_state = 1 THEN 3 + recv_divcnt
    ELSE Sample(recv_state - 2) + 3 + recv_divcnt

(* What is in the synchroniser when bit j has been on the line for c       *)
(* edges.                                                                  *)
Seen(b, j, c) ==
    << IF c >= 1 THEN FrameBit(b, j) ELSE FrameBit(b, j - 1),
       IF c >= 2 THEN FrameBit(b, j) ELSE FrameBit(b, j - 1) >>

(* The receiver is where it should be: the sender has sent j bits, of the  *)
(* length of some divider each, and is c edges into the next one.          *)
Follows(b, j, c) ==
    /\ j * Fast + c <= Elapsed /\ Elapsed <= j * Slow + c
    /\ rx_sync = Seen(b, j, c)

(* The bits received so far are those of the byte.                         *)
Received(b) ==
    recv_state \in 3 .. 10 =>
        \A i \in 1 .. recv_state - 2 : recv_pattern[10 - recv_state + i] = b[i]

(* What is on the line: one byte, or two.                                  *)
Carries1(x) == Len(flight) = 1 /\ flight[1] = x
Carries2(x, y) == Len(flight) = 2 /\ flight[1] = x /\ flight[2] = y

(* The types, with the bounds on the counters that keep them from          *)
(* wrapping.                                                               *)
Types ==
    /\ link \in Links
    /\ put \in Bytes \cup {None} /\ setdiv \in link.tx_divs \cup {None}
    /\ tx_div \in Divs(link)
    /\ send_pattern \in [1 .. 10 -> {0, 1}] /\ send_bitcnt \in 0 .. 15
    /\ send_divcnt \in 0 .. 2 ^ CounterBits - 1 /\ send_dummy \in BOOLEAN
    /\ send_bitcnt # 0 => send_divcnt < Slow
    /\ rx_sync \in {0, 1} \X {0, 1}
    /\ recv_state \in 0 .. 10 /\ recv_divcnt \in 0 .. 2 ^ CounterBits - 1
    /\ recv_state = 1 => recv_divcnt <= Half
    /\ recv_state \in 2 .. 10 => recv_divcnt < Bit
    /\ recv_pattern \in Byte /\ recv_buf \in Byte \cup {None}
    /\ flight \in Seq(Bytes \cup {Torn})

(* The phases of the line. Nothing is on it;                               *)
LineIdle == LineQuiet /\ send_pattern = Ones

(* the byte is being sent, up to and including its last data bit;          *)
Sending ==
    \E b \in Bytes :
        /\ Carries1(b)
        /\ send_bitcnt \in 2 .. 10
        /\ send_pattern = FrameFrom(b, 10 - send_bitcnt)
        /\ Follows(b, 10 - send_bitcnt, send_divcnt)
        /\ Received(b)

(* how much of the stop bit, or of the idle time after a reset, is over: n *)
(* bits will have passed before the sender can send the next byte;         *)
Resting(n) ==
    \/ send_bitcnt = 0 /\ send_dummy
    \/ (n - send_bitcnt) * Fast
         + (IF send_bitcnt = 0 THEN 0 ELSE send_divcnt) <= Elapsed

(* the sender has done all but the stop bit and may rest already, or be    *)
(* reset, the receiver is still busy;                                      *)
Sent ==
    \E b \in Bytes :
        /\ Carries1(b)
        /\ send_pattern = Ones
        /\ Resting(10)
        /\ \E c \in Nat : Follows(b, 9, c)
        /\ Received(b)

(* a reset has cut the byte, and the line stays high;                      *)
Spoilt ==
    /\ Carries1(Torn)
    /\ send_pattern = Ones
    /\ Resting(15)
    /\ recv_state = 0 => rx_sync # <<1, 1>>
    /\ Elapsed > 9 * Slow => rx_sync[1] = 1
    /\ Elapsed > 9 * Slow + 1 => rx_sync[2] = 1

(* the next byte was accepted on the very edge on which the receiver comes *)
(* to the end of the one before.                                           *)
Overlap ==
    \E b, n \in Bytes :
        /\ Carries2(b, n)
        /\ arrives /\ recv_pattern = b /\ rx_sync = <<1, 1>>
        /\ send_bitcnt = 10 /\ send_divcnt = 0
        /\ send_pattern = FrameFrom(n, 0)

(* The inductive invariant.                                                *)
Inv == Types /\ (LineIdle \/ Sending \/ Sent \/ Spoilt \/ Overlap)

-----------------------------------------------------------------------------
(* A bit and half a bit fit in the counters, also when doubled.            *)
LEMMA Widths ==
    ASSUME link \in Links
    PROVE  /\ link.rx_div \in Nat /\ 2 ^ CounterBits \in Nat
           /\ link.rx_div + 2 < 2 ^ CounterBits
           /\ Bit \in Nat /\ Half \in Nat /\ Half >= 1
           /\ 2 * Half > link.rx_div /\ 2 * Half <= Bit
<1>1. link.rx_div \in Divs(link)
  BY DEF Divs
<1>2. link.rx_div \in Nat /\ link.rx_div + 2 < 2 ^ CounterBits
  BY <1>1, LinksAssumption
<1>3. SampledAt(link, 1) >= 1 * (link.rx_div + 2)
  BY <1>1, <1>2, LinksAssumption
<1>4. /\ link.rx_div \div 2 \in Nat /\ 2 * (link.rx_div \div 2) <= link.rx_div
      /\ link.rx_div < 2 * (link.rx_div \div 2) + 2
  BY <1>2
<1>6. 2 ^ CounterBits \in Nat
  BY <1>2, WidthAssumption
<1> QED BY <1>2, <1>4, <1>6, WidthAssumption DEF Bit, Half

(* What the bound on the clocks comes to: between the shortest and the     *)
(* longest bit the receiver looks at bit k after k long bits and before k  *)
(* + 1 short ones. One condition on the last bit gives it for all.         *)
LEMMA Tolerance ==
    ASSUME link \in Links
    PROVE  /\ Fast \in Nat /\ Slow \in Nat /\ Fast >= 3
           /\ \A k \in -1 .. 9 : Sample(k) \in Int
           /\ \A d \in Divs(link) : d \in Nat /\ Fast <= d + 2 /\ d + 2 <= Slow
           /\ \A k \in 1 .. 9 :
                  k * Slow <= Sample(k) /\ Sample(k) < (k + 1) * Fast
<1>1. /\ link.rx_div \in Nat /\ Bit \in Nat /\ Half \in Nat /\ Half >= 1
      /\ 2 * Half > link.rx_div /\ 2 * Half <= Bit /\ Bit >= 2
  BY Widths DEF Bit
<1>2. \A k \in -1 .. 9 : Sample(k) \in Int /\ Sample(k) = Half + 1 + k * Bit
  BY <1>1 DEF Sample
<1>3. Sample(9) = Half + 1 + 9 * Bit /\ Sample(9) \in Nat
  BY <1>1, <1>2
<1>4. /\ Fast \in Nat /\ Slow \in Nat
      /\ 9 * Slow <= Sample(9) /\ Sample(9) < 9 * Slow + 9
      /\ 10 * Fast > Sample(9) /\ 10 * (Fast - 1) <= Sample(9)
  <2>1. /\ Sample(9) \div 10 \in Nat /\ 10 * (Sample(9) \div 10) <= Sample(9)
        /\ Sample(9) < 10 * (Sample(9) \div 10) + 10
    BY <1>3
  <2>2. /\ Sample(9) \div 9 \in Nat /\ 9 * (Sample(9) \div 9) <= Sample(9)
        /\ Sample(9) < 9 * (Sample(9) \div 9) + 9
    BY <1>3
  <2> QED BY <2>1, <2>2, <1>3 DEF Fast, Slow
<1>5. SampledAt(link, 9) = Sample(9)
  BY <1>1 DEF SampledAt, Sample, Half, Bit
<1>6. ASSUME NEW d \in Divs(link)
      PROVE  d \in Nat /\ Fast <= d + 2 /\ d + 2 <= Slow
  <2>1. d \in Nat
    BY <1>1, LinksAssumption DEF Divs
  <2>2. SampledAt(link, 9) \in 9 * (d + 2) .. (9 + 1) * (d + 2) - 1
    BY LinksAssumption
  <2> QED BY <1>3, <1>4, <1>5, <2>1, <2>2
<1>7. Fast <= Bit
  BY <1>6 DEF Divs, Bit
<1>8. Fast >= 3
  BY <1>1, <1>3, <1>4
<1>9. \A k \in 1 .. 9 : k * Slow <= Sample(k) /\ Sample(k) < (k + 1) * Fast
  <2> SUFFICES ASSUME NEW k \in 1 .. 9
               PROVE  /\ k * Slow <= Half + 1 + k * Bit
                      /\ Half + 1 + k * Bit < (k + 1) * Fast
    BY <1>2
  <2>1. 9 * Slow <= Half + 1 + 9 * Bit /\ Half + 1 + 9 * Bit < 10 * Fast
    BY <1>3, <1>4
  <2>2. \/ k = 1 \/ k = 2 \/ k = 3 \/ k = 4 \/ k = 5
        \/ k = 6 \/ k = 7 \/ k = 8 \/ k = 9
    OBVIOUS
  <2> QED BY <2>1, <2>2, <1>1, <1>4, <1>7
<1> QED BY <1>2, <1>4, <1>6, <1>8, <1>9

-----------------------------------------------------------------------------
(* A function on 1 .. n is a sequence, and the other way round.            *)
LEMMA Sequences ==
    ASSUME NEW n \in Nat, NEW S
    PROVE  /\ \A s \in [1 .. n -> S] : s \in Seq(S) /\ Len(s) = n
           /\ \A s \in Seq(S) : Len(s) = n => s = [i \in 1 .. n |-> s[i]]
OBVIOUS

(* A shift register: the first bit leaves, a new one comes in.             *)
LEMMA Shifted ==
    ASSUME NEW n \in {8, 10}, NEW s \in [1 .. n -> {0, 1}], NEW x \in {0, 1}
    PROVE  Append(Tail(s), x)
               = [i \in 1 .. n |-> IF i = n THEN x ELSE s[i + 1]]
<1>1. s \in Seq({0, 1}) /\ Len(s) = n
  OBVIOUS
<1>2. /\ Tail(s) \in Seq({0, 1}) /\ Len(Tail(s)) = n - 1
      /\ \A i \in 1 .. n - 1 : Tail(s)[i] = s[i + 1]
  BY <1>1
<1> DEFINE t == Append(Tail(s), x)
<1>3. /\ t \in Seq({0, 1}) /\ Len(t) = n /\ t[n] = x
      /\ \A i \in 1 .. n - 1 : t[i] = s[i + 1]
  BY <1>2
<1> HIDE DEF t
<1>4. t = [i \in 1 .. n |-> t[i]]
  BY <1>3, Sequences
<1>5. \A i \in 1 .. n : t[i] = IF i = n THEN x ELSE s[i + 1]
  BY <1>3
<1>6. t = [i \in 1 .. n |-> IF i = n THEN x ELSE s[i + 1]]
  BY <1>4, <1>5
<1> QED BY <1>6 DEF t

(* The rest of a frame is ten bits, the current one first.                 *)
LEMMA FrameType ==
    ASSUME NEW b \in Byte, NEW j \in Nat
    PROVE  /\ FrameFrom(b, j) \in [1 .. 10 -> {0, 1}]
           /\ FrameFrom(b, j)[1] = FrameBit(b, j)
<1>1. \A n \in Nat : FrameBit(b, n) \in {0, 1}
  BY DEF FrameBit, Byte
<1> QED BY <1>1 DEF FrameFrom

(* A shift of the rest of a frame is the rest after the next bit.          *)
LEMMA FrameShifted ==
    ASSUME NEW b \in Byte, NEW j \in Nat
    PROVE  Append(Tail(FrameFrom(b, j)), 1) = FrameFrom(b, j + 1)
<1>1. Append(Tail(FrameFrom(b, j)), 1)
        = [i \in 1 .. 10 |-> IF i = 10 THEN 1 ELSE FrameFrom(b, j)[i + 1]]
  <2>1. FrameFrom(b, j) \in [1 .. 10 -> {0, 1}]
    BY FrameType
  <2> DEFINE s == FrameFrom(b, j)
  <2> HIDE DEF s
  <2>2. Append(Tail(s), 1) = [i \in 1 .. 10 |-> IF i = 10 THEN 1 ELSE s[i + 1]]
    BY <2>1, Shifted, 10 \in {8, 10}, 1 \in {0, 1} DEF s
  <2> QED BY <2>2 DEF s
<1>2. ASSUME NEW i \in 1 .. 10
      PROVE  (IF i = 10 THEN 1 ELSE FrameFrom(b, j)[i + 1])
                 = FrameBit(b, j + 1 + i - 1)
  <2>1. CASE i = 10
    BY <2>1 DEF FrameBit
  <2>2. CASE i # 10
    <3>1. i + 1 \in 1 .. 10 /\ j + (i + 1) - 1 = j + 1 + i - 1
      BY <2>2
    <3> QED BY <2>2, <3>1 DEF FrameFrom
  <2> QED BY <2>1, <2>2
<1> QED BY <1>1, <1>2 DEF FrameFrom

(* A concatenation of bits, element by element.                            *)
LEMMA Joined ==
    ASSUME NEW s \in Seq({0, 1}), NEW t \in Seq({0, 1})
    PROVE  /\ s \o t \in Seq({0, 1}) /\ Len(s \o t) = Len(s) + Len(t)
           /\ \A i \in 1 .. Len(s) : (s \o t)[i] = s[i]
           /\ \A i \in 1 .. Len(t) : (s \o t)[Len(s) + i] = t[i]
OBVIOUS

(* A sequence of one bit.                                                  *)
LEMMA One ==
    ASSUME NEW x \in {0, 1}
    PROVE  <<x>> \in Seq({0, 1}) /\ Len(<<x>>) = 1 /\ <<x>>[1] = x
OBVIOUS

(* What SendByte puts in the shift register is the frame of the byte.      *)
LEMMA FrameStarts ==
    ASSUME NEW b \in Byte
    PROVE  <<0>> \o b \o <<1>> = FrameFrom(b, 0)
<1> DEFINE z == <<0>>   o == <<1>>   f == z \o b   g == f \o o
<1>1. b \in Seq({0, 1}) /\ Len(b) = 8
  BY Sequences, 8 \in Nat DEF Byte
<1>2. /\ z \in Seq({0, 1}) /\ Len(z) = 1 /\ z[1] = 0
      /\ o \in Seq({0, 1}) /\ Len(o) = 1 /\ o[1] = 1
  BY One
<1> HIDE DEF z, o
<1>3. /\ f \in Seq({0, 1}) /\ Len(f) = 9 /\ f[1] = 0
      /\ \A i \in 1 .. 8 : f[1 + i] = b[i]
  <2>1. /\ f \in Seq({0, 1}) /\ Len(f) = Len(z) + Len(b)
        /\ \A i \in 1 .. Len(z) : f[i] = z[i]
        /\ \A i \in 1 .. Len(b) : f[Len(z) + i] = b[i]
    BY <1>1, <1>2, Joined
  <2> HIDE DEF f
  <2> QED BY <2>1, <1>1, <1>2
<1> HIDE DEF f
<1>4. /\ g \in Seq({0, 1}) /\ Len(g) = 10
      /\ g[9 + 1] = 1 /\ \A i \in 1 .. 9 : g[i] = f[i]
  <2>1. /\ g \in Seq({0, 1}) /\ Len(g) = Len(f) + Len(o)
        /\ \A i \in 1 .. Len(f) : g[i] = f[i]
        /\ \A i \in 1 .. Len(o) : g[Len(f) + i] = o[i]
    BY <1>2, <1>3, Joined
  <2> HIDE DEF g
  <2> QED BY <2>1, <1>2, <1>3
<1> HIDE DEF g
<1>5. g = [i \in 1 .. 10 |-> g[i]]
  BY <1>4, Sequences, 10 \in Nat
<1>6. ASSUME NEW i \in 1 .. 10
      PROVE  g[i] = FrameBit(b, 0 + i - 1)
  <2>1. CASE i = 1 \/ i = 10
    BY <2>1, <1>3, <1>4 DEF FrameBit
  <2>2. CASE i \in 2 .. 9
    <3>1. i - 1 \in 1 .. 8 /\ 1 + (i - 1) = i /\ 0 + i - 1 = i - 1
      BY <2>2
    <3>2. g[i] = b[i - 1]
      BY <3>1, <2>2, <1>3, <1>4
    <3> QED BY <3>1, <3>2 DEF FrameBit
  <2> QED BY <2>1, <2>2
<1>7. g = [i \in 1 .. 10 |-> FrameBit(b, 0 + i - 1)]
  BY <1>5, <1>6
<1> QED BY <1>7 DEF FrameFrom, f, g, z, o

(* The idle line is the rest of any frame after its data bits.             *)
LEMMA Quiets ==
    /\ \A t : Tx(t)!Quiet = Ones
    /\ Append(Tail(Ones), 1) = Ones /\ Ones[1] = 1
    /\ Ones \in [1 .. 10 -> {0, 1}]
    /\ \A b : FrameFrom(b, 9) = Ones
<1>1. /\ Ones \in [1 .. 10 -> {0, 1}] /\ Ones[1] = 1
      /\ \A i \in 1 .. 9 : Ones[i + 1] = 1
  BY DEF Ones
<1>2. Append(Tail(Ones), 1)
          = [i \in 1 .. 10 |-> IF i = 10 THEN 1 ELSE Ones[i + 1]]
  BY <1>1, Shifted, 10 \in {8, 10}, 1 \in {0, 1}
<1>3. Append(Tail(Ones), 1) = [i \in 1 .. 10 |-> 1]
  BY <1>1, <1>2
<1>4. ASSUME NEW b PROVE FrameFrom(b, 9) = Ones
  BY DEF FrameFrom, FrameBit, Ones
<1> QED BY <1>1, <1>3, <1>4 DEF Tx!Quiet, Ones

-----------------------------------------------------------------------------
(* What the sender does at an edge, and what its program stores.           *)
TxReset(t) ==
    /\ ~t /\ link.resets
    /\ send_pattern' = Ones /\ send_bitcnt' = 0 /\ send_divcnt' = 0
    /\ send_dummy'
    /\ put' = None /\ setdiv' = None /\ tx_div' = DefaultDiv
TxKeeps ==
    /\ put' \in Bytes \cup {None} /\ setdiv' \in link.tx_divs \cup {None}
    /\ tx_div' = IF setdiv # None THEN setdiv ELSE tx_div
    /\ send_dummy' \in BOOLEAN
TxDummy(t) ==
    /\ t /\ TxKeeps /\ send_bitcnt = 0 /\ send_dummy
    /\ send_pattern' = Ones /\ send_bitcnt' = 15 /\ send_divcnt' = 0
TxByte(t) ==
    /\ t /\ TxKeeps /\ send_bitcnt = 0 /\ ~send_dummy /\ put # None
    /\ send_pattern' = FrameFrom(put, 0) /\ send_bitcnt' = 10
    /\ send_divcnt' = 0
TxShift(t) ==
    /\ t /\ TxKeeps /\ send_bitcnt # 0 /\ send_divcnt > tx_div
    /\ send_pattern' = Append(Tail(send_pattern), 1)
    /\ send_bitcnt' = send_bitcnt - 1 /\ send_divcnt' = 0
TxCount(t) ==
    /\ t /\ TxKeeps /\ send_bitcnt # 0 /\ send_divcnt <= tx_div
    /\ send_pattern' = send_pattern /\ send_bitcnt' = send_bitcnt
    /\ send_divcnt' = send_divcnt + 1
TxIdle(t) ==
    /\ t /\ TxKeeps /\ send_bitcnt = 0 /\ ~send_dummy /\ put = None
    /\ send_pattern' = send_pattern /\ send_bitcnt' = 0
    /\ send_divcnt' \in 0 .. 2 ^ CounterBits - 1

(* The store of a byte is acknowledged.                                    *)
Accepted(t) == t /\ put # None /\ ~reg_dat_wait

(* An edge of the sender is one of these, and a byte is accepted on none   *)
(* but TxByte.                                                             *)
LEMMA TxEdge ==
    ASSUME Types, NEW t \in BOOLEAN, NEW r \in BOOLEAN, NEW g \in BOOLEAN,
           Edge(t, r, g)
    PROVE  /\ \/ TxReset(t) \/ TxDummy(t) \/ TxByte(t)
              \/ TxShift(t) \/ TxCount(t) \/ TxIdle(t)
           /\ Accepted(t) <=> TxByte(t)
<1>1. /\ tx_div \in Divs(link) /\ tx_div \in Nat
      /\ tx_div + 2 < 2 ^ CounterBits
      /\ 2 ^ CounterBits \in Nat /\ send_divcnt \in Nat
      /\ send_bitcnt \in 0 .. 15
      /\ send_dummy \in BOOLEAN /\ put \in Bytes \cup {None}
  BY Tolerance, Widths, LinksAssumption, WidthAssumption DEF Types
<1>2. Tx(t)!Divider /\ Tx(t)!Transmitter /\ Store(t) /\ (t \/ link.resets)
  BY DEF Edge
<1>3. reg_dat_wait <=> put # None /\ (send_bitcnt # 0 \/ send_dummy)
  BY DEF reg_dat_wait, Tx!reg_dat_wait
<1>4. t => TxKeeps \/ ~(send_dummy' \in BOOLEAN)
  <2>1. t => tx_div' = IF setdiv # None THEN setdiv ELSE tx_div
    BY <1>2 DEF Tx!Divider
  <2>2. put' \in Bytes \cup {None} /\ setdiv' \in link.tx_divs \cup {None}
    BY <1>2 DEF Store, Types
  <2> QED BY <2>1, <2>2 DEF TxKeeps
<1>5. CASE Tx(t)!SendReset
  <2>1. /\ ~t /\ put' = None /\ setdiv' = None /\ tx_div' = DefaultDiv
        /\ link.resets
    BY <1>2, <1>5 DEF Tx!SendReset, Store, Tx!Divider
  <2> QED BY <1>5, <2>1, Quiets
             DEF Tx!SendReset, TxReset, Accepted, TxByte, TxKeeps
<1>6. CASE Tx(t)!SendDummy
  <2>1. t /\ send_bitcnt = 0 /\ send_dummy /\ TxDummy(t)
    BY <1>4, <1>6, Quiets DEF Tx!SendDummy, TxDummy
  <2> QED BY <2>1, <1>3 DEF Accepted, TxByte
<1>7. CASE Tx(t)!SendByte
  <2>1. put \in Byte /\ put # None
    BY <1>1, <1>7, BytesAssumption DEF Tx!SendByte
  <2>2. TxByte(t)
    BY <1>4, <1>7, <2>1, FrameStarts DEF Tx!SendByte, TxByte
  <2> QED BY <2>1, <2>2, <1>3 DEF Accepted, TxByte
<1>8. CASE Tx(t)!SendShift
  <2>1. TxShift(t)
    BY <1>1, <1>4, <1>8 DEF Tx!SendShift, TxShift
  <2> QED BY <2>1, <1>3 DEF Accepted, TxByte, TxShift
<1>9. CASE Tx(t)!SendCount
  <2>1. CASE send_bitcnt = 0
    <3>1. send_divcnt' \in 0 .. 2 ^ CounterBits - 1
      BY <1>1, <1>9, WidthAssumption DEF Tx!SendCount, Tx!NextSend
    <3> QED BY <1>1, <1>3, <1>4, <1>9, <2>1, <3>1
               DEF Tx!SendCount, TxIdle, Accepted, TxByte
  <2>2. CASE send_bitcnt # 0
    <3>1. send_divcnt <= tx_div
      BY <1>9, <2>2 DEF Tx!SendCount
    <3>2. send_divcnt' = send_divcnt + 1
      BY <1>1, <1>9, <3>1, WidthAssumption DEF Tx!SendCount, Tx!NextSend
    <3> QED BY <1>1, <1>3, <1>4, <1>9, <2>2, <3>1, <3>2
               DEF Tx!SendCount, TxCount, Accepted, TxByte
  <2> QED BY <2>1, <2>2
<1> QED BY <1>2, <1>5, <1>6, <1>7, <1>8, <1>9 DEF Tx!Transmitter

-----------------------------------------------------------------------------
(* What the receiver does at an edge.                                      *)
RxKeeps == recv_pattern' = recv_pattern /\ recv_buf' \in {None, recv_buf}
RxReset == LineQuiet /\ recv_state' = 0 /\ recv_divcnt' = 0
           /\ recv_pattern' \in Byte /\ recv_buf' = None
RxIdle == /\ RxKeeps /\ recv_state = 0 /\ recv_divcnt' = 0
          /\ recv_state' = IF rx_sync[2] = 0 THEN 1 ELSE 0
RxCount == /\ RxKeeps /\ recv_state # 0 /\ recv_divcnt' = recv_divcnt + 1
           /\ recv_state' = recv_state
           /\ recv_divcnt < IF recv_state = 1 THEN Half ELSE Bit - 1
RxStart == /\ RxKeeps /\ recv_state = 1 /\ recv_state' = 2 /\ recv_divcnt' = 0
           /\ recv_divcnt = Half
RxBit == /\ recv_state \in 2 .. 9 /\ recv_state' = recv_state + 1
         /\ recv_divcnt' = 0
         /\ recv_divcnt = Bit - 1
         /\ recv_pattern'
                = [i \in 1 .. 8 |->
                      IF i = 8 THEN rx_sync[2] ELSE recv_pattern[i + 1]]
         /\ recv_buf' \in {None, recv_buf}
RxStop == /\ arrives /\ recv_state' = 0
          /\ recv_divcnt' \in 0 .. 2 ^ CounterBits - 1
          /\ recv_pattern' = recv_pattern /\ recv_buf' = recv_pattern

(* A number below the modulus is its own remainder.                        *)
LEMMA Small ==
    ASSUME NEW x \in Nat, NEW m \in Nat, x < m
    PROVE  x % m = x
OBVIOUS

(* An edge of the receiver is one of these: no counter wraps, so each      *)
(* state lasts half a bit or a bit.                                        *)
LEMMA RxEdge ==
    ASSUME Types, NEW t \in BOOLEAN, NEW r \in BOOLEAN, NEW g \in BOOLEAN,
           Edge(t, r, g)
    PROVE  /\ RxReset \/ RxIdle \/ RxCount \/ RxStart \/ RxBit \/ RxStop
           /\ arrives => RxStop
           /\ arrives <=> recv_state = 10 /\ recv_divcnt = Bit - 1
<1>1. /\ recv_divcnt \in Nat /\ recv_state \in 0 .. 10
      /\ rx_sync \in {0, 1} \X {0, 1}
      /\ recv_pattern \in [1 .. 8 -> {0, 1}] /\ 2 ^ CounterBits \in Nat
      /\ recv_state = 1 => recv_divcnt <= Half
      /\ recv_state \in 2 .. 10 => recv_divcnt < Bit
  BY Widths, WidthAssumption DEF Types, Byte
<1>2. /\ link.rx_div \in Nat /\ Bit = link.rx_div + 2 /\ Half \in Nat
      /\ Bit < 2 ^ CounterBits
      /\ 2 * Half > link.rx_div /\ 2 * Half <= Bit /\ Half >= 1
      /\ Half = link.rx_div \div 2 + 1
  BY Widths, WidthAssumption DEF Bit, Half, Types
<1>3. Rx(r, g)!Receiver /\ (r \/ LineQuiet)
  BY DEF Edge
<1>4. recv_state \in 2 .. 10 =>
        /\ recv_divcnt > link.rx_div <=> recv_divcnt = Bit - 1
        /\ (recv_divcnt + 1) % 2 ^ CounterBits = recv_divcnt + 1
  <2> SUFFICES ASSUME recv_state \in 2 .. 10
               PROVE  /\ recv_divcnt > link.rx_div <=> recv_divcnt = Bit - 1
                      /\ (recv_divcnt + 1) % 2 ^ CounterBits = recv_divcnt + 1
    OBVIOUS
  <2>1. recv_divcnt + 1 \in Nat /\ recv_divcnt + 1 < 2 ^ CounterBits
    BY <1>1, <1>2, WidthAssumption
  <2>2. (recv_divcnt + 1) % 2 ^ CounterBits = recv_divcnt + 1
    BY <2>1, <1>1, Small, WidthAssumption
  <2> QED BY <1>1, <1>2, <2>2
<1>5. recv_state = 1 =>
        /\ (2 * recv_divcnt) % 2 ^ CounterBits > link.rx_div
               <=> recv_divcnt = Half
        /\ (recv_divcnt + 1) % 2 ^ CounterBits = recv_divcnt + 1
  <2> SUFFICES ASSUME recv_state = 1
               PROVE  /\ (2 * recv_divcnt) % 2 ^ CounterBits > link.rx_div
                            <=> recv_divcnt = Half
                      /\ (recv_divcnt + 1) % 2 ^ CounterBits = recv_divcnt + 1
    OBVIOUS
  <2>1. /\ 2 * recv_divcnt \in Nat /\ 2 * recv_divcnt < 2 ^ CounterBits
        /\ recv_divcnt + 1 \in Nat /\ recv_divcnt + 1 < 2 ^ CounterBits
    BY <1>1, <1>2, WidthAssumption
  <2>2. /\ (2 * recv_divcnt) % 2 ^ CounterBits = 2 * recv_divcnt
        /\ (recv_divcnt + 1) % 2 ^ CounterBits = recv_divcnt + 1
    BY <2>1, <1>1, Small, WidthAssumption
  <2>3. 2 * recv_divcnt > link.rx_div <=> recv_divcnt = Half
    BY <1>1, <1>2
  <2> QED BY <2>2, <2>3
<1>6. arrives <=> recv_state = 10 /\ recv_divcnt = Bit - 1
  BY <1>1, <1>2 DEF arrives, FullBit, Rx!FullBit
<1>7. Rx(r, g)!BufferAfterRead \in {None, recv_buf}
  BY DEF Rx!BufferAfterRead
<1> DEFINE G == /\ RxReset \/ RxIdle \/ RxCount \/ RxStart \/ RxBit \/ RxStop
                /\ arrives => RxStop
<1>8. ASSUME Rx(r, g)!RecvReset PROVE G
  <2>1. RxReset
    BY <1>3, <1>8 DEF Rx!RecvReset, RxReset, Byte
  <2>2. ~arrives
    BY <1>6, <2>1 DEF RxReset, LineQuiet
  <2> QED BY <2>1, <2>2
<1>9. ASSUME Rx(r, g)!RecvIdle PROVE G
  <2>1. RxIdle
    BY <1>7, <1>9 DEF Rx!RecvIdle, RxIdle, RxKeeps
  <2>2. ~arrives
    BY <1>6, <2>1 DEF RxIdle
  <2> QED BY <2>1, <2>2
<1>10. ASSUME Rx(r, g)!RecvStart PROVE G
  <2>1. recv_state = 1 /\ RxKeeps
    BY <1>10 DEF Rx!RecvStart, RxKeeps, Rx!BufferAfterRead
  <2>3. CASE recv_divcnt = Half
    <3>1. (2 * recv_divcnt) % 2 ^ CounterBits > link.rx_div
      BY <1>5, <2>1, <2>3
    <3> QED BY <1>6, <1>10, <2>1, <2>3, <3>1
               DEF Rx!RecvStart, RxStart, Rx!HalfBit
  <2>4. CASE recv_divcnt # Half
    <3>1. ~((2 * recv_divcnt) % 2 ^ CounterBits > link.rx_div)
      BY <1>5, <2>1, <2>4
    <3>2. recv_divcnt < Half
      BY <1>1, <1>2, <2>1, <2>4
    <3> QED BY <1>5, <1>6, <1>10, <2>1, <3>1, <3>2
               DEF Rx!RecvStart, RxCount, Rx!HalfBit, Rx!NextRecv
  <2> QED BY <2>3, <2>4
<1>11. ASSUME Rx(r, g)!RecvData PROVE G
  <2>1. Append(Tail(recv_pattern), rx_sync[2])
          = [i \in 1 .. 8 |->
                IF i = 8 THEN rx_sync[2] ELSE recv_pattern[i + 1]]
    BY <1>1, Shifted, 8 \in {8, 10}
  <2>2. recv_state \in 2 .. 9 /\ recv_buf' \in {None, recv_buf}
    BY <1>7, <1>11 DEF Rx!RecvData
  <2>3. CASE recv_divcnt = Bit - 1
    <3>1. recv_divcnt > link.rx_div
      BY <1>4, <2>2, <2>3
    <3>2. RxBit
      BY <1>11, <2>1, <2>2, <2>3, <3>1 DEF Rx!RecvData, RxBit, Rx!FullBit
    <3> QED BY <1>6, <2>2, <3>2
  <2>4. CASE recv_divcnt # Bit - 1
    <3>1. ~(recv_divcnt > link.rx_div)
      BY <1>4, <2>2, <2>4
    <3>2. recv_divcnt < Bit - 1
      BY <1>1, <1>2, <2>2, <2>4
    <3>3. RxCount
      BY <1>4, <1>11, <2>2, <3>1, <3>2
         DEF Rx!RecvData, RxCount, RxKeeps, Rx!FullBit, Rx!NextRecv,
             Rx!BufferAfterRead
    <3> QED BY <1>6, <2>2, <3>3
  <2> QED BY <2>3, <2>4
<1>12. ASSUME Rx(r, g)!RecvStop PROVE G
  <2>1. /\ recv_state = 10 /\ recv_pattern' = recv_pattern
        /\ recv_divcnt' = recv_divcnt + 1
    BY <1>4, <1>12 DEF Rx!RecvStop, Rx!NextRecv
  <2>2. CASE recv_divcnt = Bit - 1
    <3>1. recv_divcnt > link.rx_div
      BY <1>4, <2>1, <2>2
    <3>2. recv_divcnt' \in 0 .. 2 ^ CounterBits - 1
      BY <1>1, <1>2, <2>1, <2>2, WidthAssumption
    <3>3. RxStop
      BY <1>6, <1>12, <2>1, <2>2, <3>1, <3>2
         DEF Rx!RecvStop, RxStop, Rx!FullBit
    <3> QED BY <3>3
  <2>3. CASE recv_divcnt # Bit - 1
    <3>1. ~(recv_divcnt > link.rx_div)
      BY <1>4, <2>1, <2>3
    <3>2. recv_divcnt < Bit - 1
      BY <1>1, <1>2, <2>1, <2>3
    <3>3. recv_state' = 10 /\ recv_buf' \in {None, recv_buf}
      BY <1>12, <3>1 DEF Rx!RecvStop, Rx!FullBit, Rx!BufferAfterRead
    <3>4. RxCount
      BY <2>1, <3>2, <3>3 DEF RxCount, RxKeeps
    <3> QED BY <1>6, <2>3, <3>4
  <2> QED BY <2>2, <2>3
<1>13. G
  BY <1>3, <1>8, <1>9, <1>10, <1>11, <1>12 DEF Rx!Receiver
<1> QED BY <1>6, <1>13

-----------------------------------------------------------------------------
(* The synchroniser takes the bit on the line; the boards stay.            *)
LEMMA SyncEdge ==
    ASSUME Types, NEW t \in BOOLEAN, NEW r \in BOOLEAN, NEW g \in BOOLEAN,
           Edge(t, r, g)
    PROVE  /\ rx_sync' = <<send_pattern[1], rx_sync[1]>> /\ link' = link
           /\ send_pattern[1] \in {0, 1} /\ rx_sync' \in {0, 1} \X {0, 1}
           /\ Bit' = Bit /\ Half' = Half /\ Fast' = Fast /\ Slow' = Slow
           /\ \A k : Sample(k)' = Sample(k)
<1>1. send_pattern \in Seq({0, 1}) /\ Len(send_pattern) = 10
  BY Sequences, 10 \in Nat DEF Types
<1>2. Head(send_pattern) = send_pattern[1]
  BY <1>1
<1>3. rx_sync' = <<send_pattern[1], rx_sync[1]>> /\ link' = link
  BY <1>2 DEF Edge, Synchroniser, ser_tx, Tx!ser_tx
<1>4. send_pattern[1] \in {0, 1} /\ rx_sync \in {0, 1} \X {0, 1}
  BY DEF Types
<1> QED BY <1>3, <1>4 DEF Bit, Half, Fast, Slow, Sample

(* The types are kept.                                                     *)
LEMMA TypesStep ==
    ASSUME Types, NEW t \in BOOLEAN, NEW r \in BOOLEAN, NEW g \in BOOLEAN,
           Edge(t, r, g)
    PROVE  Types'
<1>1. /\ link' = link /\ Slow' = Slow /\ Half' = Half /\ Bit' = Bit
      /\ rx_sync' \in {0, 1} \X {0, 1} /\ rx_sync \in {0, 1} \X {0, 1}
  BY SyncEdge DEF Types
<1>2. /\ \A d \in Divs(link) : d \in Nat /\ d + 2 <= Slow
      /\ Slow \in Nat /\ Slow >= 3 /\ Fast \in Nat /\ Fast >= 3 /\ Half \in Nat
      /\ Bit \in Nat
      /\ \A d \in Divs(link) : d + 2 < 2 ^ CounterBits
      /\ 2 ^ CounterBits \in Nat /\ Bit < 2 ^ CounterBits
      /\ Half < 2 ^ CounterBits
      /\ Half >= 1 /\ Bit >= 2
  <2>1. link.rx_div \in Divs(link) /\ link \in Links
    BY DEF Divs, Types
  <2>2. \A d \in Divs(link) : d \in Nat /\ Fast <= d + 2 /\ d + 2 <= Slow
    BY <2>1, Tolerance
  <2>3. Slow \in Nat /\ Fast \in Nat /\ Fast >= 3
    BY <2>1, Tolerance
  <2>4. Slow >= 3
    BY <2>1, <2>2, <2>3
  <2>5. /\ 2 ^ CounterBits \in Nat /\ link.rx_div + 2 < 2 ^ CounterBits
        /\ Half \in Nat /\ Half >= 1 /\ 2 * Half <= Bit /\ Bit \in Nat
    BY <2>1, Widths, WidthAssumption
  <2>6. Bit < 2 ^ CounterBits /\ Half < 2 ^ CounterBits /\ Bit >= 2
    BY <2>5, WidthAssumption DEF Bit
  <2>7. \A d \in Divs(link) : d + 2 < 2 ^ CounterBits
    BY <2>1, LinksAssumption
  <2> QED BY <2>1, <2>2, <2>3, <2>4, <2>5, <2>6, <2>7, WidthAssumption
<1>3. /\ put' \in Bytes \cup {None} /\ setdiv' \in link.tx_divs \cup {None}
      /\ tx_div' \in Divs(link) /\ send_bitcnt' \in 0 .. 15
      /\ send_dummy' \in BOOLEAN
  <2>1. /\ setdiv \in link.tx_divs \cup {None} /\ tx_div \in Divs(link)
        /\ send_bitcnt \in 0 .. 15
        /\ (link.resets => DefaultDiv \in Divs(link))
    BY DEF Types, Divs
  <2>2. TxKeeps => /\ put' \in Bytes \cup {None}
                   /\ setdiv' \in link.tx_divs \cup {None}
                   /\ tx_div' \in Divs(link) /\ send_dummy' \in BOOLEAN
    BY <2>1 DEF TxKeeps, Divs
  <2>3. CASE TxReset(t)
    BY <2>1, <2>3 DEF TxReset
  <2>4. CASE TxDummy(t)
    BY <2>2, <2>4 DEF TxDummy
  <2>5. CASE TxByte(t)
    BY <2>2, <2>5 DEF TxByte
  <2>6. CASE TxShift(t)
    BY <2>1, <2>2, <2>6 DEF TxShift
  <2>7. CASE TxCount(t)
    BY <2>1, <2>2, <2>7 DEF TxCount
  <2>8. CASE TxIdle(t)
    BY <2>1, <2>2, <2>8 DEF TxIdle
  <2> QED BY <2>3, <2>4, <2>5, <2>6, <2>7, <2>8, TxEdge
<1>4. /\ send_divcnt' \in 0 .. 2 ^ CounterBits - 1
      /\ (send_bitcnt' # 0 => send_divcnt' < Slow)
  <2>1. send_divcnt \in Nat /\ tx_div \in Divs(link)
    BY WidthAssumption, <1>2 DEF Types
  <2>2. CASE TxReset(t) \/ TxDummy(t) \/ TxByte(t) \/ TxShift(t)
    <3>1. send_divcnt' = 0
      BY <2>2 DEF TxReset, TxDummy, TxByte, TxShift
    <3> QED BY <3>1, <1>2, WidthAssumption
  <2>3. CASE TxCount(t)
    BY <2>1, <2>3, <1>2, WidthAssumption DEF TxCount
  <2>4. CASE TxIdle(t)
    BY <2>4 DEF TxIdle
  <2> QED BY <2>2, <2>3, <2>4, TxEdge
<1>5. send_pattern' \in [1 .. 10 -> {0, 1}]
  <2>1. send_pattern \in [1 .. 10 -> {0, 1}] /\ Ones \in [1 .. 10 -> {0, 1}]
    BY Quiets DEF Types
  <2>2. CASE TxByte(t)
    <3>1. put \in Byte
      BY <2>2, BytesAssumption DEF TxByte, Types
    <3> QED BY <2>2, <3>1, FrameType, 0 \in Nat DEF TxByte
  <2>3. CASE TxShift(t)
    <3>1. send_pattern'
              = [i \in 1 .. 10 |-> IF i = 10 THEN 1 ELSE send_pattern[i + 1]]
      BY <2>1, <2>3, Shifted, 10 \in {8, 10}, 1 \in {0, 1} DEF TxShift
    <3>2. \A i \in 1 .. 10 : i # 10 => i + 1 \in 1 .. 10
      OBVIOUS
    <3> QED BY <2>1, <3>1, <3>2
  <2>4. CASE ~TxByte(t) /\ ~TxShift(t)
    BY <2>1, <2>4, TxEdge DEF TxReset, TxDummy, TxCount, TxIdle
  <2> QED BY <2>2, <2>3, <2>4
<1>6. /\ recv_state' \in 0 .. 10 /\ recv_divcnt' \in 0 .. 2 ^ CounterBits - 1
      /\ recv_state' = 1 => recv_divcnt' <= Half
      /\ recv_state' \in 2 .. 10 => recv_divcnt' < Bit
  <2>1. recv_state \in 0 .. 10 /\ recv_divcnt \in Nat /\ rx_sync[2] \in {0, 1}
    BY WidthAssumption, <1>2 DEF Types
  <2>2. CASE RxReset \/ RxIdle \/ RxStart \/ RxBit
    <3>1. recv_divcnt' = 0 /\ recv_state' \in 0 .. 10
      BY <2>1, <2>2 DEF RxReset, RxIdle, RxStart, RxBit
    <3> QED BY <3>1, <1>2, WidthAssumption
  <2>3. CASE RxCount
    BY <2>1, <2>3, <1>2, WidthAssumption DEF RxCount
  <2>4. CASE RxStop
    BY <2>4 DEF RxStop
  <2> QED BY <2>2, <2>3, <2>4, RxEdge
<1>7. recv_pattern' \in Byte /\ recv_buf' \in Byte \cup {None}
  <2>1. /\ recv_pattern \in [1 .. 8 -> {0, 1}] /\ recv_buf \in Byte \cup {None}
        /\ rx_sync[2] \in {0, 1}
    BY DEF Types, Byte
  <2>2. CASE RxBit
    <3>1. \A i \in 1 .. 8 : i # 8 => i + 1 \in 1 .. 8
      OBVIOUS
    <3> QED BY <2>1, <2>2, <3>1 DEF RxBit, Byte
  <2>3. CASE ~RxBit
    BY <2>1, <2>3, RxEdge
       DEF RxReset, RxIdle, RxCount, RxStart, RxStop, RxKeeps, Byte
  <2> QED BY <2>2, <2>3
<1>8. flight' \in Seq(Bytes \cup {Torn})
  <2> DEFINE rest == IF arrives /\ flight # <<>> THEN Tail(flight) ELSE flight
  <2>1. rest \in Seq(Bytes \cup {Torn})
    BY DEF Types
  <2>2. flight' = IF t /\ put # None /\ ~reg_dat_wait THEN Append(rest, put)
                  ELSE IF ~t /\ cut /\ rest # <<>>
                       THEN [rest EXCEPT ![Len(rest)] = Torn]
                  ELSE rest
    BY DEF Edge, History
  <2> HIDE DEF rest
  <2>3. put # None => put \in Bytes
    BY DEF Types
  <2>4. rest # <<>> =>
            [rest EXCEPT ![Len(rest)] = Torn] \in Seq(Bytes \cup {Torn})
    BY <2>1
  <2> QED BY <2>1, <2>2, <2>3, <2>4
<1> QED BY <1>1, <1>3, <1>4, <1>5, <1>6, <1>7, <1>8 DEF Types, Divs

-----------------------------------------------------------------------------
(* The samples are a bit apart and all before the last.                    *)
LEMMA SampleStep ==
    ASSUME link \in Links
    PROVE  /\ \A k \in -1 .. 9 : Sample(k) \in Int
           /\ \A k \in -1 .. 8 : Sample(k + 1) = Sample(k) + Bit
           /\ \A k \in -1 .. 9 :
                  Sample(k) <= Sample(9) /\ (Sample(k) = Sample(9) => k = 9)
           /\ Sample(0) = Half + 1 /\ Half < Sample(9) - 3
<1>1. Bit \in Nat /\ Half \in Nat /\ Bit >= 2 /\ Half >= 1
  BY Widths DEF Bit
<1>2. ASSUME NEW k \in -1 .. 8 PROVE Sample(k + 1) = Sample(k) + Bit
  BY <1>1 DEF Sample
<1>3. ASSUME NEW k \in -1 .. 9
      PROVE  /\ Sample(k) \in Int /\ Sample(k) <= Sample(9)
             /\ (Sample(k) = Sample(9) => k = 9)
  <2>1. \/ k = -1 \/ k = 0 \/ k = 1 \/ k = 2 \/ k = 3 \/ k = 4
        \/ k = 5 \/ k = 6 \/ k = 7 \/ k = 8 \/ k = 9
    OBVIOUS
  <2> QED BY <1>1, <2>1 DEF Sample
<1>4. Sample(0) = Half + 1 /\ Half < Sample(9) - 3
  BY <1>1 DEF Sample
<1> QED BY <1>2, <1>3, <1>4

(* The count of edges, and where it says that a byte arrives.              *)
LEMMA ElapsedRange ==
    ASSUME Types
    PROVE  /\ Elapsed \in Int /\ 0 <= Elapsed /\ Elapsed <= Sample(9) + 2
           /\ recv_state = 0 =>
                  Elapsed <= 2 /\ (Elapsed = 0 <=> rx_sync = <<1, 1>>)
           /\ recv_state # 0 => Elapsed >= 3
           /\ arrives <=> Elapsed = Sample(9) + 2
<1>1. /\ link \in Links /\ recv_state \in 0 .. 10 /\ recv_divcnt \in Nat
      /\ recv_state = 1 => recv_divcnt <= Half
      /\ recv_state \in 2 .. 10 => recv_divcnt < Bit
      /\ Half \in Nat /\ Bit \in Nat /\ Sample(9) \in Int
  BY Widths, WidthAssumption, SampleStep, 9 \in -1 .. 9 DEF Types
<1>2. rx_sync \in {0, 1} \X {0, 1} /\ rx_sync = <<rx_sync[1], rx_sync[2]>>
  BY DEF Types
<1>3. arrives <=> recv_state = 10 /\ recv_divcnt = Bit - 1
  <2>1. link.rx_div \in Nat /\ Bit = link.rx_div + 2
    BY <1>1, Widths DEF Bit
  <2> QED BY <1>1, <2>1 DEF arrives, FullBit, Rx!FullBit
<1>4. CASE recv_state = 0
  <2>1. /\ Elapsed \in 0 .. 2 /\ (Elapsed = 0 <=> rx_sync = <<1, 1>>)
    BY <1>2, <1>4 DEF Elapsed
  <2> QED BY <1>1, <1>3, <1>4, <2>1, SampleStep
<1>5. CASE recv_state = 1
  <2>1. Elapsed = 3 + recv_divcnt
    BY <1>5 DEF Elapsed
  <2> QED BY <1>1, <1>3, <1>5, <2>1, SampleStep
<1>6. CASE recv_state \in 2 .. 10
  <2>1. Elapsed = Sample(recv_state - 2) + 3 + recv_divcnt
    BY <1>6 DEF Elapsed
  <2>2. /\ recv_state - 2 \in -1 .. 8 /\ recv_state - 2 \in -1 .. 9
        /\ recv_state - 1 \in -1 .. 9 /\ (recv_state - 2) + 1 = recv_state - 1
    BY <1>6
  <2>3. /\ Sample(recv_state - 1) = Sample(recv_state - 2) + Bit
        /\ Sample(recv_state - 2) \in Int
        /\ Sample(recv_state - 1) <= Sample(9)
        /\ Sample(recv_state - 1) = Sample(9) => recv_state = 10
    <3>1. Sample((recv_state - 2) + 1) = Sample(recv_state - 2) + Bit
      BY <1>1, <2>2, SampleStep
    <3>2. /\ Sample(recv_state - 1) <= Sample(9)
          /\ Sample(recv_state - 2) \in Int
          /\ Sample(recv_state - 1) = Sample(9) => recv_state - 1 = 9
      BY <1>1, <2>2, SampleStep
    <3> QED BY <1>6, <2>2, <3>1, <3>2
  <2>4. Sample(recv_state - 2) >= 0
    <3>1. recv_state - 2 \in Nat
      BY <1>6
    <3>2. (recv_state - 2) * Bit >= 0
      BY <3>1, <1>1
    <3> QED BY <3>1, <3>2, <1>1 DEF Sample
  <2>5. CASE arrives
    <3>1. /\ recv_state = 10 /\ recv_divcnt = Bit - 1
          /\ Sample(recv_state - 1) = Sample(9)
      BY <1>3, <2>5
    <3> QED BY <1>1, <1>6, <2>1, <2>3, <2>4, <2>5, <3>1
  <2>6. CASE ~arrives
    <3>1. Elapsed # Sample(9) + 2
      <4> SUFFICES ASSUME Elapsed = Sample(9) + 2 PROVE FALSE
        OBVIOUS
      <4>1. recv_divcnt = Bit - 1 /\ Sample(recv_state - 1) = Sample(9)
        BY <1>1, <1>6, <2>1, <2>3
      <4> QED BY <4>1, <2>3, <2>6, <1>3
    <3> QED BY <1>1, <1>6, <2>1, <2>3, <2>4, <2>6, <3>1
  <2> QED BY <2>5, <2>6
<1> QED BY <1>1, <1>4, <1>5, <1>6

(* From the start bit on the receiver counts every edge, whatever it does  *)
(* in it, until the byte arrives.                                          *)
LEMMA ElapsedStep ==
    ASSUME Types, NEW t \in BOOLEAN, NEW r \in BOOLEAN, NEW g \in BOOLEAN,
           Edge(t, r, g),
           ~arrives,
           recv_state = 0 => rx_sync # <<1, 1>> \/ send_pattern[1] = 0
    PROVE  Elapsed' = Elapsed + 1
<1>1. /\ link \in Links /\ recv_state \in 0 .. 10 /\ recv_divcnt \in Nat
      /\ Half \in Nat /\ Bit \in Nat
  BY Widths, WidthAssumption DEF Types
<1>2. /\ rx_sync \in {0, 1} \X {0, 1} /\ rx_sync = <<rx_sync[1], rx_sync[2]>>
      /\ rx_sync' = <<send_pattern[1], rx_sync[1]>>
      /\ send_pattern[1] \in {0, 1}
      /\ \A k : Sample(k)' = Sample(k)
  BY SyncEdge DEF Types
<1>3. CASE RxReset \/ RxIdle
  <2>1. recv_state = 0
    BY <1>3 DEF RxReset, RxIdle, LineQuiet
  <2>2. CASE RxReset
    <3>1. rx_sync = <<1, 1>> /\ recv_state' = 0 /\ send_pattern[1] = 0
      BY <2>1, <2>2 DEF RxReset, LineQuiet
    <3>2. rx_sync' = <<0, 1>>
      BY <1>2, <3>1
    <3> QED BY <2>1, <3>1, <3>2 DEF Elapsed
  <2>3. CASE RxIdle
    <3>1. recv_divcnt' = 0 /\ recv_state' = IF rx_sync[2] = 0 THEN 1 ELSE 0
      BY <2>3 DEF RxIdle
    <3>2. CASE rx_sync[2] = 0
      BY <1>2, <2>1, <3>1, <3>2 DEF Elapsed
    <3>3. CASE rx_sync = <<1, 1>>
      BY <1>2, <2>1, <3>1, <3>3 DEF Elapsed
    <3>4. CASE rx_sync = <<0, 1>>
      BY <1>2, <2>1, <3>1, <3>4 DEF Elapsed
    <3> QED BY <1>2, <3>2, <3>3, <3>4
  <2> QED BY <1>3, <2>2, <2>3
<1>4. CASE RxCount
  <2>1. /\ recv_state' = recv_state /\ recv_state # 0
        /\ recv_divcnt' = recv_divcnt + 1
    BY <1>4 DEF RxCount
  <2>2. CASE recv_state = 1
    BY <1>1, <2>1, <2>2 DEF Elapsed
  <2>3. CASE recv_state \in 2 .. 10
    <3>1. recv_state - 2 \in -1 .. 9
      BY <2>3
    <3>2. Sample(recv_state - 2) \in Int
      BY <1>1, <3>1, SampleStep
    <3>3. Elapsed = Sample(recv_state - 2) + 3 + recv_divcnt
      BY <2>3 DEF Elapsed
    <3>4. Elapsed' = Sample(recv_state - 2) + 3 + (recv_divcnt + 1)
      BY <1>2, <2>1, <2>3 DEF Elapsed
    <3> QED BY <1>1, <3>2, <3>3, <3>4
  <2> QED BY <1>1, <2>1, <2>2, <2>3
<1>5. CASE RxStart
  <2>1. Elapsed = 3 + Half /\ recv_state' = 2 /\ recv_divcnt' = 0
    BY <1>5 DEF RxStart, Elapsed
  <2>2. Elapsed' = Sample(0) + 3 + 0
    BY <1>2, <2>1 DEF Elapsed
  <2> QED BY <1>1, <2>1, <2>2, SampleStep
<1>6. CASE RxBit
  <2>1. /\ recv_state \in 2 .. 9 /\ recv_state' = recv_state + 1
        /\ recv_divcnt' = 0
        /\ recv_divcnt = Bit - 1
    BY <1>6 DEF RxBit
  <2>2. /\ recv_state - 2 \in -1 .. 8 /\ recv_state - 1 \in -1 .. 9
        /\ (recv_state - 2) + 1 = recv_state - 1
        /\ recv_state' - 2 = recv_state - 1
        /\ recv_state' \in 2 .. 10 /\ recv_state - 2 \in -1 .. 9
    BY <2>1
  <2>3. /\ Sample(recv_state - 1) = Sample(recv_state - 2) + Bit
        /\ Sample(recv_state - 2) \in Int
    BY <1>1, <2>2, SampleStep
  <2>4. Elapsed = Sample(recv_state - 2) + 3 + recv_divcnt
    BY <2>1 DEF Elapsed
  <2>5. Elapsed' = Sample(recv_state - 1) + 3 + 0
    BY <1>2, <2>1, <2>2 DEF Elapsed
  <2> QED BY <1>1, <2>1, <2>3, <2>4, <2>5
<1> QED BY <1>3, <1>4, <1>5, <1>6, RxEdge DEF RxStop

-----------------------------------------------------------------------------
(* The receiver keeps following the sender through an edge, within a bit   *)
(* and from a bit to the next.                                             *)
LEMMA FollowsStep ==
    ASSUME Types, NEW t \in BOOLEAN, NEW r \in BOOLEAN, NEW g \in BOOLEAN,
           Edge(t, r, g),
           NEW b \in Byte, NEW j \in 0 .. 9, NEW c \in Nat, Follows(b, j, c),
           send_pattern[1] = FrameBit(b, j), ~arrives
    PROVE  /\ Elapsed' = Elapsed + 1
           /\ Follows(b, j, c + 1)'
           /\ Fast <= c + 1 /\ c + 1 <= Slow => Follows(b, j + 1, 0)'
<1>1. /\ link \in Links /\ Fast \in Nat /\ Slow \in Nat /\ Fast >= 3
      /\ Elapsed \in Int
      /\ Fast' = Fast /\ Slow' = Slow
      /\ rx_sync' = <<send_pattern[1], rx_sync[1]>>
  BY Tolerance, SyncEdge, ElapsedRange DEF Types
<1>2. /\ j * Fast + c <= Elapsed /\ Elapsed <= j * Slow + c
      /\ rx_sync = Seen(b, j, c)
  BY DEF Follows
<1>3. rx_sync = <<1, 1>> => send_pattern[1] = 0 \/ recv_state # 0
  <2> SUFFICES ASSUME rx_sync = <<1, 1>>, recv_state = 0
               PROVE  send_pattern[1] = 0
    OBVIOUS
  <2>1. Elapsed = 0
    BY ElapsedRange
  <2>2. j * Fast + c <= 0 /\ j * Fast >= 0 /\ (j >= 1 => j * Fast >= 3)
    <3>1. \/ j = 0 \/ j = 1 \/ j = 2 \/ j = 3 \/ j = 4
          \/ j = 5 \/ j = 6 \/ j = 7 \/ j = 8 \/ j = 9
      OBVIOUS
    <3> QED BY <1>1, <1>2, <2>1, <3>1
  <2>3. j = 0
    BY <2>2, <1>1
  <2> QED BY <2>3 DEF FrameBit
<1>4. Elapsed' = Elapsed + 1
  BY <1>3, ElapsedStep
<1>5. Follows(b, j, c + 1)'
  <2>1. rx_sync' = Seen(b, j, c + 1)
    <3>1. rx_sync[1] = IF c >= 1 THEN FrameBit(b, j) ELSE FrameBit(b, j - 1)
      BY <1>2 DEF Seen
    <3>2. c + 1 >= 1 /\ (c + 1 >= 2 <=> c >= 1)
      OBVIOUS
    <3> QED BY <1>1, <3>1, <3>2 DEF Seen
  <2>2. j * Fast + (c + 1) <= Elapsed + 1 /\ Elapsed + 1 <= j * Slow + (c + 1)
    <3>1. j * Fast \in Int /\ j * Slow \in Int
      BY <1>1
    <3> QED BY <1>1, <1>2, <3>1
  <2> QED BY <1>1, <1>4, <2>1, <2>2 DEF Follows
<1>6. ASSUME Fast <= c + 1, c + 1 <= Slow
      PROVE  Follows(b, j + 1, 0)'
  <2>1. rx_sync' = Seen(b, j + 1, 0)
    <3>1. c >= 1
      BY <1>1, <1>6
    <3>2. rx_sync[1] = FrameBit(b, j)
      BY <1>2, <3>1 DEF Seen
    <3> QED BY <1>1, <3>2 DEF Seen
  <2>2. (j + 1) * Fast + 0 <= Elapsed + 1 /\ Elapsed + 1 <= (j + 1) * Slow + 0
    <3>1. /\ j * Fast \in Int /\ j * Slow \in Int
          /\ (j + 1) * Fast = j * Fast + Fast
          /\ (j + 1) * Slow = j * Slow + Slow
      BY <1>1
    <3> QED BY <1>1, <1>2, <1>6, <3>1
  <2> QED BY <1>1, <1>4, <2>1, <2>2 DEF Follows
<1> QED BY <1>4, <1>5, <1>6

(* When the receiver takes a bit it takes the right one.                   *)
LEMMA RightBit ==
    ASSUME Types, NEW b \in Byte, NEW j \in 0 .. 9, NEW c \in Nat,
           Follows(b, j, c),
           j = 9 \/ c < Slow, recv_state \in 2 .. 9, recv_divcnt = Bit - 1
    PROVE  rx_sync[2] = b[recv_state - 1]
<1> DEFINE k == recv_state - 1
<1>1. /\ k \in 1 .. 8 /\ k \in 1 .. 9 /\ k \in -1 .. 9 /\ k - 1 \in -1 .. 8
      /\ (k - 1) + 1 = k
      /\ recv_state - 2 = k - 1
  OBVIOUS
<1>2. /\ link \in Links /\ Fast \in Nat /\ Slow \in Nat /\ Fast >= 3
      /\ Elapsed \in Int
      /\ Sample(k) \in Int /\ k * Slow <= Sample(k)
      /\ Sample(k) < (k + 1) * Fast
      /\ Bit \in Int
  <2>1. link \in Links
    BY DEF Types
  <2> QED BY <1>1, <2>1, Tolerance, ElapsedRange, Widths
<1>3. Elapsed = Sample(k) + 2
  <2>1. Sample((k - 1) + 1) = Sample(k - 1) + Bit
    BY <1>1, <1>2, SampleStep
  <2>2. k - 1 \in -1 .. 9
    BY <1>1
  <2>3. Sample(k - 1) \in Int
    BY <2>2, <1>2, SampleStep
  <2>4. Elapsed = Sample(k - 1) + 3 + recv_divcnt
    BY DEF Elapsed
  <2> QED BY <1>1, <1>2, <2>1, <2>3, <2>4
<1>4. /\ j * Fast + c <= Elapsed /\ Elapsed <= j * Slow + c
      /\ rx_sync = Seen(b, j, c)
  BY DEF Follows
<1> HIDE DEF k
<1>5. CASE j < k
  <2>1. c < Slow
    BY <1>1, <1>5
  <2>2. (j + 1) * Slow <= k * Slow /\ (j + 1) * Slow = j * Slow + Slow
    BY <1>1, <1>2, <1>5
  <2>3. j * Slow \in Int /\ k * Slow \in Int
    BY <1>1, <1>2
  <2> QED BY <1>2, <1>3, <1>4, <2>1, <2>2, <2>3
<1>6. CASE j = k
  <2>1. k * Slow \in Int
    BY <1>1, <1>2
  <2>2. c >= 2
    BY <1>2, <1>3, <1>4, <1>6, <2>1
  <2>3. rx_sync[2] = FrameBit(b, k)
    BY <1>4, <1>6, <2>2 DEF Seen
  <2> QED BY <1>1, <2>3 DEF FrameBit, k
<1>7. CASE j = k + 1
  <2>1. (k + 1) * Fast \in Int
    BY <1>1, <1>2
  <2>2. c < 2
    BY <1>2, <1>3, <1>4, <1>7, <2>1
  <2>3. rx_sync[2] = FrameBit(b, k)
    BY <1>1, <1>4, <1>7, <2>2 DEF Seen
  <2> QED BY <1>1, <2>3 DEF FrameBit, k
<1>8. CASE j > k + 1
  <2>1. (k + 2) * Fast <= j * Fast /\ (k + 2) * Fast = (k + 1) * Fast + Fast
    BY <1>1, <1>2, <1>8
  <2>2. j * Fast \in Int /\ (k + 1) * Fast \in Int
    BY <1>1, <1>2
  <2> QED BY <1>2, <1>3, <1>4, <2>1, <2>2
<1> QED BY <1>1, <1>5, <1>6, <1>7, <1>8

(* The bits received stay right.                                           *)
LEMMA ReceivedStep ==
    ASSUME Types, NEW t \in BOOLEAN, NEW r \in BOOLEAN, NEW g \in BOOLEAN,
           Edge(t, r, g),
           NEW b \in Byte, NEW j \in 0 .. 9, NEW c \in Nat, Follows(b, j, c),
           j = 9 \/ c < Slow, Received(b)
    PROVE  Received(b)'
<1>1. recv_pattern \in [1 .. 8 -> {0, 1}] /\ recv_state \in 0 .. 10
  BY DEF Types, Byte
<1>2. CASE RxReset \/ RxIdle \/ RxStart \/ RxStop
  <2>1. recv_state' \in 0 .. 2
    BY <1>2 DEF RxReset, RxIdle, RxStart, RxStop
  <2> QED BY <2>1 DEF Received
<1>3. CASE RxCount
  BY <1>3 DEF RxCount, RxKeeps, Received
<1>4. CASE RxBit
  <2>1. /\ recv_state \in 2 .. 9 /\ recv_state' = recv_state + 1
        /\ recv_divcnt = Bit - 1
        /\ recv_pattern'
               = [i \in 1 .. 8 |->
                     IF i = 8 THEN rx_sync[2] ELSE recv_pattern[i + 1]]
    BY <1>4 DEF RxBit
  <2>2. rx_sync[2] = b[recv_state - 1]
    BY <2>1, RightBit
  <2>3. ASSUME NEW i \in 1 .. recv_state' - 2
        PROVE  recv_pattern'[10 - recv_state' + i] = b[i]
    <3>1. /\ i \in 1 .. recv_state - 1
          /\ 10 - recv_state' + i = 9 - recv_state + i
      BY <2>1
    <3>2. CASE i = recv_state - 1
      <4>1. 10 - recv_state' + i = 8
        BY <2>1, <3>2
      <4> QED BY <2>1, <2>2, <3>2, <4>1
    <3>3. CASE i # recv_state - 1
      <4>1. /\ i \in 1 .. recv_state - 2 /\ recv_state \in 3 .. 10
            /\ 9 - recv_state + i \in 1 .. 7
            /\ (9 - recv_state + i) + 1 = 10 - recv_state + i
        BY <2>1, <3>1, <3>3
      <4>2. recv_pattern[10 - recv_state + i] = b[i]
        BY <4>1 DEF Received
      <4>3. recv_pattern'[9 - recv_state + i]
                = recv_pattern[(9 - recv_state + i) + 1]
        BY <2>1, <4>1
      <4> QED BY <3>1, <4>1, <4>2, <4>3
    <3> QED BY <3>2, <3>3
  <2> QED BY <2>3 DEF Received
<1> QED BY <1>2, <1>3, <1>4, RxEdge

-----------------------------------------------------------------------------
(* Sequences of bytes, element by element.                                 *)
LEMMA Queues ==
    ASSUME NEW S, NEW s \in Seq(S), NEW x \in S
    PROVE  /\ Append(s, x) \in Seq(S) /\ Len(Append(s, x)) = Len(s) + 1
           /\ \A i \in 1 .. Len(s) : Append(s, x)[i] = s[i]
           /\ Append(s, x)[Len(s) + 1] = x
           /\ Len(s) \in Nat /\ (s # <<>> <=> Len(s) > 0)
           /\ s # <<>> =>
                /\ Tail(s) \in Seq(S) /\ Len(Tail(s)) = Len(s) - 1
                /\ \A i \in 1 .. Len(s) - 1 : Tail(s)[i] = s[i + 1]
                /\ Head(s) = s[1]
                /\ [s EXCEPT ![Len(s)] = x] \in Seq(S)
                /\ Len([s EXCEPT ![Len(s)] = x]) = Len(s)
                /\ \A i \in 1 .. Len(s) :
                    [s EXCEPT ![Len(s)] = x][i]
                        = IF i = Len(s) THEN x ELSE s[i]
<1>1. /\ Append(s, x) \in Seq(S) /\ Len(Append(s, x)) = Len(s) + 1
      /\ \A i \in 1 .. Len(s) : Append(s, x)[i] = s[i]
      /\ Append(s, x)[Len(s) + 1] = x
  OBVIOUS
<1>2. Len(s) \in Nat /\ (s # <<>> <=> Len(s) > 0)
  OBVIOUS
<1>3. s # <<>> =>
        /\ Tail(s) \in Seq(S) /\ Len(Tail(s)) = Len(s) - 1
        /\ \A i \in 1 .. Len(s) - 1 : Tail(s)[i] = s[i + 1]
        /\ Head(s) = s[1]
  OBVIOUS
<1>4. s # <<>> =>
        /\ [s EXCEPT ![Len(s)] = x] \in Seq(S)
        /\ Len([s EXCEPT ![Len(s)] = x]) = Len(s)
        /\ \A i \in 1 .. Len(s) :
            [s EXCEPT ![Len(s)] = x][i] = IF i = Len(s) THEN x ELSE s[i]
  BY <1>2
<1> QED BY <1>1, <1>2, <1>3, <1>4

(* What becomes of the bytes on the line.                                  *)
LEMMA FlightEdge ==
    ASSUME Types, NEW t \in BOOLEAN, NEW r \in BOOLEAN, NEW g \in BOOLEAN,
           Edge(t, r, g)
    PROVE  \E rest \in {flight,
                        IF flight = <<>> THEN flight ELSE Tail(flight)} :
               /\ arrives /\ flight # <<>> => rest = Tail(flight)
               /\ ~(arrives /\ flight # <<>>) => rest = flight
               /\ TxByte(t) => flight' = Append(rest, put)
               /\ TxReset(t) => flight' =
                   IF cut /\ rest # <<>>
                   THEN [rest EXCEPT ![Len(rest)] = Torn]
                   ELSE rest
               /\ ~TxByte(t) /\ ~TxReset(t) => flight' = rest
<1> DEFINE rest == IF arrives /\ flight # <<>> THEN Tail(flight) ELSE flight
<1>1. flight' = IF t /\ put # None /\ ~reg_dat_wait THEN Append(rest, put)
                ELSE IF ~t /\ cut /\ rest # <<>>
                     THEN [rest EXCEPT ![Len(rest)] = Torn]
                ELSE rest
  BY DEF Edge, History
<1>2. rest \in {flight, IF flight = <<>> THEN flight ELSE Tail(flight)}
  OBVIOUS
<1>3. /\ arrives /\ flight # <<>> => rest = Tail(flight)
      /\ ~(arrives /\ flight # <<>>) => rest = flight
  OBVIOUS
<1> HIDE DEF rest
<1>4. TxByte(t) <=> t /\ put # None /\ ~reg_dat_wait
  BY TxEdge DEF Accepted
<1>5. TxReset(t) => ~t
  BY DEF TxReset
<1>6. ~TxReset(t) => t
  BY TxEdge DEF TxDummy, TxByte, TxShift, TxCount, TxIdle
<1>7. TxByte(t) => flight' = Append(rest, put)
  BY <1>1, <1>4
<1>8. TxReset(t) => flight' = IF cut /\ rest # <<>>
                              THEN [rest EXCEPT ![Len(rest)] = Torn] ELSE rest
  BY <1>1, <1>5
<1>9. ~TxByte(t) /\ ~TxReset(t) => flight' = rest
  BY <1>1, <1>4, <1>6
<1> QED BY <1>2, <1>3, <1>7, <1>8, <1>9

(* The same for a line that carries one frame, and for an empty one.       *)
LEMMA OneOnLine ==
    ASSUME Types, NEW t \in BOOLEAN, NEW r \in BOOLEAN, NEW g \in BOOLEAN,
           Edge(t, r, g),
           NEW x, Carries1(x)
    PROVE  /\ \A p : p = put /\ ~arrives /\ TxByte(t) => Carries2(x, p)'
           /\ ~arrives /\ TxReset(t) =>
                  IF cut THEN Carries1(Torn)' ELSE Carries1(x)'
           /\ ~arrives /\ ~TxByte(t) /\ ~TxReset(t) => Carries1(x)'
           /\ \A p : p = put /\ arrives /\ TxByte(t) => Carries1(p)'
           /\ arrives /\ ~TxByte(t) => flight' = <<>>
<1> DEFINE S == Bytes \cup {Torn}
<1>1. PICK rest \in {flight, IF flight = <<>> THEN flight ELSE Tail(flight)} :
               /\ arrives /\ flight # <<>> => rest = Tail(flight)
               /\ ~(arrives /\ flight # <<>>) => rest = flight
               /\ TxByte(t) => flight' = Append(rest, put)
               /\ TxReset(t) => flight' =
                   IF cut /\ rest # <<>>
                   THEN [rest EXCEPT ![Len(rest)] = Torn]
                   ELSE rest
               /\ ~TxByte(t) /\ ~TxReset(t) => flight' = rest
  BY FlightEdge
<1>2. flight \in Seq(S) /\ Len(flight) = 1 /\ flight[1] = x
  BY DEF Types, Carries1
<1>3. TxReset(t) => ~TxByte(t)
  BY DEF TxReset, TxByte
<1>4. TxByte(t) => put \in S
  BY DEF TxByte, Types
<1> HIDE DEF S
<1>5. Torn \in S
  BY DEF S
<1>6. flight # <<>> /\ Tail(flight) \in Seq(S) /\ Len(Tail(flight)) = 0
  BY <1>2, <1>5, Queues
<1>7. CASE arrives
  <2>1. rest \in Seq(S) /\ Len(rest) = 0
    BY <1>1, <1>6, <1>7
  <2>2. rest = <<>>
    BY <1>5, <2>1, Queues
  <2>3. ASSUME NEW p, p = put, TxByte(t) PROVE Carries1(p)'
    BY <1>1, <1>4, <2>1, <2>3, Queues DEF Carries1
  <2> QED BY <1>1, <1>3, <1>7, <2>2, <2>3
<1>8. CASE ~arrives
  <2>1. rest = flight
    BY <1>1, <1>8
  <2>2. ASSUME NEW p, p = put, TxByte(t) PROVE Carries2(x, p)'
    <3>1. /\ Len(Append(flight, put)) = 2
          /\ Append(flight, put)[1] = x /\ Append(flight, put)[2] = put
      BY <1>2, <1>4, <2>2, Queues
    <3> QED BY <1>1, <2>1, <2>2, <3>1 DEF Carries2
  <2>3. ASSUME TxReset(t)
        PROVE  IF cut THEN Carries1(Torn)' ELSE Carries1(x)'
    <3>1. /\ Len([flight EXCEPT ![Len(flight)] = Torn]) = 1
          /\ [flight EXCEPT ![Len(flight)] = Torn][1] = Torn
      BY <1>2, <1>5, <1>6, Queues
    <3>2. flight' = IF cut
              THEN [flight EXCEPT ![Len(flight)] = Torn] ELSE flight
      BY <1>1, <1>6, <2>1, <2>3
    <3> QED BY <1>2, <3>1, <3>2 DEF Carries1
  <2>4. ASSUME ~TxByte(t), ~TxReset(t) PROVE Carries1(x)'
    BY <1>1, <1>2, <2>1, <2>4 DEF Carries1
  <2> QED BY <1>8, <2>2, <2>3, <2>4
<1> QED BY <1>7, <1>8

(* A line that carries nothing.                                            *)
LEMMA NoneOnLine ==
    ASSUME Types, NEW t \in BOOLEAN, NEW r \in BOOLEAN, NEW g \in BOOLEAN,
           Edge(t, r, g),
           flight = <<>>
    PROVE  /\ \A p : p = put /\ TxByte(t) => Carries1(p)'
           /\ ~TxByte(t) => flight' = <<>>
<1>1. PICK rest \in {flight, IF flight = <<>> THEN flight ELSE Tail(flight)} :
               /\ arrives /\ flight # <<>> => rest = Tail(flight)
               /\ ~(arrives /\ flight # <<>>) => rest = flight
               /\ TxByte(t) => flight' = Append(rest, put)
               /\ TxReset(t) => flight' =
                   IF cut /\ rest # <<>>
                   THEN [rest EXCEPT ![Len(rest)] = Torn]
                   ELSE rest
               /\ ~TxByte(t) /\ ~TxReset(t) => flight' = rest
  BY FlightEdge
<1>2. rest = <<>>
  BY <1>1
<1>3. ASSUME NEW p, p = put, TxByte(t) PROVE Carries1(p)'
  <2>1. put \in Bytes
    BY <1>3 DEF TxByte, Types
  <2>2. <<>> \in Seq(Bytes) /\ Len(<<>>) = 0
    OBVIOUS
  <2>3. Len(Append(<<>>, put)) = 1 /\ Append(<<>>, put)[1] = put
    BY <2>1, <2>2, Queues
  <2> QED BY <1>1, <1>2, <1>3, <2>3 DEF Carries1
<1> QED BY <1>1, <1>2, <1>3

-----------------------------------------------------------------------------
(* The numbers of a state, for the arithmetic below.                       *)
LEMMA Numbers ==
    ASSUME Types
    PROVE  /\ link \in Links /\ Fast \in Nat /\ Slow \in Nat /\ Fast >= 3
           /\ Slow >= 3
           /\ Sample(9) \in Int /\ 9 * Slow <= Sample(9)
           /\ Sample(9) < 10 * Fast
           /\ tx_div \in Nat /\ Fast <= tx_div + 2 /\ tx_div + 2 <= Slow
           /\ send_divcnt \in Nat /\ send_bitcnt \in 0 .. 15
           /\ send_bitcnt # 0 => send_divcnt < Slow
           /\ Elapsed \in Int /\ 0 <= Elapsed /\ Elapsed <= Sample(9) + 2
           /\ arrives <=> Elapsed = Sample(9) + 2
<1>1. /\ link \in Links /\ tx_div \in Divs(link) /\ send_bitcnt \in 0 .. 15
      /\ send_bitcnt # 0 => send_divcnt < Slow
      /\ send_divcnt \in 0 .. 2 ^ CounterBits - 1
  BY DEF Types
<1>2. 2 ^ CounterBits \in Nat
  BY <1>1, Widths
<1>3. send_divcnt \in Nat
  BY <1>1, <1>2, WidthAssumption
<1>4. /\ Fast \in Nat /\ Slow \in Nat /\ Fast >= 3 /\ Sample(9) \in Int
      /\ 9 * Slow <= Sample(9) /\ Sample(9) < (9 + 1) * Fast
      /\ tx_div \in Nat /\ Fast <= tx_div + 2 /\ tx_div + 2 <= Slow
  BY <1>1, Tolerance, 9 \in 1 .. 9, 9 \in -1 .. 9
<1> QED BY <1>1, <1>3, <1>4, ElapsedRange

(* While the line is high it stays so unless a byte is accepted.           *)
LEMMA HighStep ==
    ASSUME Types, NEW t \in BOOLEAN, NEW r \in BOOLEAN, NEW g \in BOOLEAN,
           Edge(t, r, g),
           send_pattern = Ones
    PROVE  /\ ~TxByte(t) => send_pattern' = Ones
           /\ rx_sync' = <<1, rx_sync[1]>> /\ send_pattern[1] = 1
<1>1. rx_sync' = <<1, rx_sync[1]>> /\ send_pattern[1] = 1
  BY SyncEdge, Quiets
<1> QED BY <1>1, TxEdge, Quiets DEF TxReset, TxDummy, TxShift, TxCount, TxIdle

(* A byte that is accepted while the receiver waits starts a frame.        *)
LEMMA FrameBegins ==
    ASSUME Types, Types',
           NEW t \in BOOLEAN, NEW r \in BOOLEAN, NEW g \in BOOLEAN,
           Edge(t, r, g),
           TxByte(t), \A p : p = put => Carries1(p)',
           recv_state' = 0, rx_sync' = <<1, 1>>
    PROVE  Sending'
<1> DEFINE b == put
<1>1. b \in Bytes /\ put = b
  BY DEF TxByte, Types
<1>2. send_pattern' = FrameFrom(b, 0) /\ send_bitcnt' = 10 /\ send_divcnt' = 0
  BY DEF TxByte
<1> SUFFICES ASSUME NEW p \in Bytes, p = put PROVE Sending'
  BY <1>1
<1>3. Carries1(p)'
  OBVIOUS
<1>4. Elapsed' = 0
  BY DEF Elapsed
<1>5. Seen(p, 0, 0) = <<1, 1>>
  BY DEF Seen, FrameBit
<1>6. Follows(p, 0, 0)'
  BY <1>4, <1>5, Numbers, SyncEdge DEF Follows, Seen
<1>7. Received(p)'
  BY DEF Received
<1>8. 10 - send_bitcnt' = 0
  BY <1>2
<1> QED BY <1>2, <1>3, <1>6, <1>7, <1>8 DEF Sending, FrameFrom, Follows, Seen

(* From an idle line a byte starts a frame.                                *)
LEMMA LineIdleStep ==
    ASSUME Types, Types',
           NEW t \in BOOLEAN, NEW r \in BOOLEAN, NEW g \in BOOLEAN,
           Edge(t, r, g),
           LineIdle
    PROVE  LineIdle' \/ Sending'
<1>1. /\ flight = <<>> /\ recv_state = 0 /\ rx_sync = <<1, 1>>
      /\ send_pattern = Ones
  BY DEF LineIdle, LineQuiet
<1>2. rx_sync' = <<1, 1>> /\ (~TxByte(t) => send_pattern' = Ones)
  BY <1>1, HighStep
<1>3. recv_state' = 0
  BY <1>1, RxEdge DEF RxReset, RxIdle, RxCount, RxStart, RxBit, RxStop
<1>4. CASE TxByte(t)
  <2>1. \A p : p = put => Carries1(p)'
    BY <1>1, <1>4, NoneOnLine
  <2> QED BY <1>2, <1>3, <1>4, <2>1, FrameBegins
<1>5. CASE ~TxByte(t)
  <2>1. flight' = <<>>
    BY <1>1, <1>5, NoneOnLine
  <2> QED BY <1>2, <1>3, <1>5, <2>1 DEF LineIdle, LineQuiet
<1> QED BY <1>4, <1>5

(* A frame is sent to its end or spoilt.                                   *)
LEMMA SendingStep ==
    ASSUME Types, Types',
           NEW t \in BOOLEAN, NEW r \in BOOLEAN, NEW g \in BOOLEAN,
           Edge(t, r, g),
           Sending
    PROVE  Sending' \/ Sent' \/ Spoilt'
<1>1. PICK b \in Bytes :
        /\ Carries1(b) /\ send_bitcnt \in 2 .. 10
        /\ send_pattern = FrameFrom(b, 10 - send_bitcnt)
        /\ Follows(b, 10 - send_bitcnt, send_divcnt)
        /\ Received(b)
  BY DEF Sending
<1> DEFINE n == send_bitcnt   c == send_divcnt
<1> SUFFICES ASSUME NEW j \in 0 .. 8, NEW d \in Nat,
                    j = 10 - send_bitcnt, d = send_divcnt
             PROVE  Sending' \/ Sent' \/ Spoilt'
  BY <1>1, Numbers
<1>2. b \in Byte
  BY BytesAssumption
<1>3. /\ Carries1(b) /\ send_pattern = FrameFrom(b, j) /\ Follows(b, j, d)
      /\ Received(b)
      /\ send_bitcnt = 10 - j /\ send_divcnt = d
  BY <1>1
<1>4. send_pattern[1] = FrameBit(b, j) /\ FrameFrom(b, 9) = Ones
      /\ Append(Tail(FrameFrom(b, j)), 1) = FrameFrom(b, j + 1)
  BY <1>2, <1>3, FrameType, Quiets, FrameShifted, j \in Nat
<1>5. d < Slow /\ j * Fast + d <= Elapsed /\ Elapsed <= j * Slow + d
  BY <1>1, <1>3, Numbers DEF Follows
<1>6. Elapsed < 9 * Slow
  <2>1. j * Slow <= 8 * Slow
    BY Numbers
  <2>2. j * Slow \in Int
    BY Numbers
  <2> QED BY <1>5, <2>1, <2>2, Numbers
<1>7. ~arrives
  BY <1>6, Numbers
<1>8. /\ Elapsed' = Elapsed + 1 /\ Follows(b, j, d + 1)'
      /\ Fast <= d + 1 /\ d + 1 <= Slow => Follows(b, j + 1, 0)'
  BY <1>2, <1>3, <1>4, <1>7, FollowsStep, j \in 0 .. 9
<1>9. Received(b)'
  BY <1>2, <1>3, <1>5, ReceivedStep, j \in 0 .. 9
<1>10. CASE TxReset(t)
  <2>1. send_pattern' = Ones /\ send_bitcnt' = 0 /\ send_dummy' /\ ~TxByte(t)
    BY <1>10 DEF TxReset, TxByte
  <2>2. cut
    BY <1>1 DEF cut
  <2>3. Carries1(Torn)'
    BY <1>3, <1>7, <1>10, <2>2, OneOnLine
  <2>4. Elapsed' >= 1 /\ Elapsed' <= 9 * Slow /\ Slow' = Slow
    BY <1>6, <1>8, Numbers, SyncEdge
  <2>5. recv_state' = 0 => rx_sync' # <<1, 1>>
    <3>1. recv_state' = 0 /\ rx_sync' = <<1, 1>> => Elapsed' = 0
      BY DEF Elapsed
    <3> QED BY <2>4, <3>1
  <2>6. Resting(15)'
    BY <2>1 DEF Resting
  <2>7. /\ (Elapsed > 9 * Slow => rx_sync[1] = 1)'
        /\ (Elapsed > 9 * Slow + 1 => rx_sync[2] = 1)'
    BY <2>4, <1>8, Numbers
  <2> QED BY <2>1, <2>3, <2>5, <2>6, <2>7 DEF Spoilt
<1>11. CASE TxShift(t)
  <2>1. /\ send_pattern' = FrameFrom(b, j + 1) /\ send_bitcnt' = 10 - (j + 1)
        /\ send_divcnt' = 0 /\ Fast <= d + 1
    BY <1>3, <1>4, <1>11, Numbers DEF TxShift
  <2>2. Follows(b, j + 1, 0)'
    BY <1>5, <1>8, <2>1, Numbers
  <2>3. Carries1(b)'
    BY <1>3, <1>7, <1>11, OneOnLine DEF TxShift, TxReset, TxByte
  <2>4. CASE j < 8
    <3>1. send_bitcnt' \in 2 .. 10 /\ 10 - send_bitcnt' = j + 1
      BY <2>1, <2>4
    <3> QED BY <1>9, <2>1, <2>2, <2>3, <3>1
               DEF Sending, Follows, Seen, FrameFrom
  <2>5. CASE j = 8
    <3>1. send_bitcnt' = 1 /\ j + 1 = 9
      BY <2>1, <2>5
    <3>2. send_pattern' = Ones
      BY <1>4, <2>1, <3>1
    <3>3. Follows(b, 9, 0)' /\ (9 * Fast + 0 <= Elapsed)'
      BY <2>2, <3>1 DEF Follows
    <3>4. Resting(10)'
      BY <2>1, <3>1, <3>3, Numbers, SyncEdge DEF Resting
    <3> QED BY <1>9, <2>3, <3>2, <3>3, <3>4, 0 \in Nat DEF Sent
  <2> QED BY <2>4, <2>5
<1>12. CASE TxCount(t)
  <2>1. /\ send_pattern' = FrameFrom(b, j) /\ send_bitcnt' = 10 - j
        /\ send_divcnt' = d + 1
    BY <1>3, <1>12 DEF TxCount
  <2>2. Carries1(b)'
    BY <1>3, <1>7, <1>12, OneOnLine DEF TxCount, TxReset, TxByte
  <2>3. send_bitcnt' \in 2 .. 10 /\ 10 - send_bitcnt' = j
    BY <2>1
  <2> QED BY <1>8, <1>9, <2>1, <2>2, <2>3 DEF Sending, Follows, Seen, FrameFrom
<1> QED BY <1>1, <1>10, <1>11, <1>12, TxEdge DEF TxDummy, TxByte, TxIdle

-----------------------------------------------------------------------------
(* The idle time of the sender shrinks as the receiver's frame grows.      *)
LEMMA RestingStep ==
    ASSUME Types, NEW t \in BOOLEAN, NEW r \in BOOLEAN, NEW g \in BOOLEAN,
           Edge(t, r, g),
           NEW n \in {10, 15}, Resting(n), ~TxByte(t), Elapsed' = Elapsed + 1
    PROVE  Resting(n)'
<1>1. /\ Fast \in Nat /\ Fast' = Fast /\ Elapsed \in Int /\ 0 <= Elapsed
      /\ send_bitcnt \in 0 .. 15 /\ send_divcnt \in Nat
  BY Numbers, SyncEdge
<1> SUFFICES ASSUME ~(send_bitcnt' = 0 /\ send_dummy')
             PROVE  (n - send_bitcnt') * Fast
                      + (IF send_bitcnt' = 0 THEN 0 ELSE send_divcnt')
                        <= Elapsed + 1
  BY <1>1 DEF Resting
<1>2. CASE TxReset(t)
  BY <1>2 DEF TxReset
<1>3. CASE TxDummy(t)
  <2>1. send_bitcnt' = 15 /\ send_divcnt' = 0
    BY <1>3 DEF TxDummy
  <2>2. (n - 15) * Fast <= 0 /\ (n - 15) * Fast \in Int
    BY <1>1
  <2> QED BY <1>1, <2>1, <2>2
<1>4. CASE TxShift(t)
  <2>1. /\ send_bitcnt # 0 /\ send_bitcnt' = send_bitcnt - 1
        /\ send_divcnt' = 0
        /\ Fast <= send_divcnt + 1
    BY <1>4, Numbers DEF TxShift
  <2>2. (n - send_bitcnt) * Fast + send_divcnt <= Elapsed
    BY <2>1 DEF Resting
  <2>3. /\ (n - send_bitcnt) * Fast \in Int
        /\ (n - (send_bitcnt - 1)) * Fast = (n - send_bitcnt) * Fast + Fast
    BY <1>1
  <2> QED BY <1>1, <2>1, <2>2, <2>3
<1>5. CASE TxCount(t)
  <2>1. /\ send_bitcnt # 0 /\ send_bitcnt' = send_bitcnt
        /\ send_divcnt' = send_divcnt + 1
    BY <1>5 DEF TxCount
  <2>2. (n - send_bitcnt) * Fast + send_divcnt <= Elapsed
    BY <2>1 DEF Resting
  <2>3. (n - send_bitcnt) * Fast \in Int
    BY <1>1
  <2> QED BY <1>1, <2>1, <2>2, <2>3
<1>6. CASE TxIdle(t)
  <2>1. send_bitcnt = 0 /\ send_bitcnt' = 0 /\ ~send_dummy
    BY <1>6 DEF TxIdle
  <2>2. (n - 0) * Fast + 0 <= Elapsed
    BY <2>1 DEF Resting
  <2>3. (n - 0) * Fast \in Int
    BY <1>1
  <2> QED BY <1>1, <2>1, <2>2, <2>3
<1> QED BY <1>2, <1>3, <1>4, <1>5, <1>6, TxEdge

(* The spoilt frame of a sender that is reset.                             *)
LEMMA SpoiltStep ==
    ASSUME Types, Types',
           NEW t \in BOOLEAN, NEW r \in BOOLEAN, NEW g \in BOOLEAN,
           Edge(t, r, g),
           Spoilt
    PROVE  Spoilt' \/ LineIdle'
<1>1. /\ Carries1(Torn) /\ send_pattern = Ones /\ Resting(15)
      /\ recv_state = 0 => rx_sync # <<1, 1>>
      /\ Elapsed > 9 * Slow => rx_sync[1] = 1
      /\ Elapsed > 9 * Slow + 1 => rx_sync[2] = 1
  BY DEF Spoilt
<1>2. ~TxByte(t)
  <2> SUFFICES ASSUME TxByte(t) PROVE FALSE
    OBVIOUS
  <2>1. send_bitcnt = 0 /\ ~send_dummy
    BY DEF TxByte
  <2>2. (15 - 0) * Fast + 0 <= Elapsed
    BY <1>1, <2>1 DEF Resting
  <2> QED BY <2>2, Numbers
<1>3. rx_sync' = <<1, rx_sync[1]>> /\ send_pattern' = Ones /\ Slow' = Slow
  BY <1>1, <1>2, HighStep, SyncEdge
<1>4. CASE arrives
  <2>1. recv_state' = 0 /\ flight' = <<>>
    BY <1>1, <1>2, <1>4, OneOnLine, RxEdge DEF RxStop
  <2>2. rx_sync[1] = 1
    BY <1>1, <1>4, Numbers
  <2> QED BY <1>3, <2>1, <2>2 DEF LineIdle, LineQuiet
<1>5. CASE ~arrives
  <2>1. Elapsed' = Elapsed + 1
    BY <1>1, <1>5, ElapsedStep
  <2>2. Carries1(Torn)'
    BY <1>1, <1>2, <1>5, OneOnLine
  <2>3. Resting(15)'
    BY <1>1, <1>2, <2>1, RestingStep
  <2>4. recv_state' = 0 => rx_sync' # <<1, 1>>
    <3>1. recv_state' = 0 /\ rx_sync' = <<1, 1>> => Elapsed' = 0
      BY DEF Elapsed
    <3> QED BY <2>1, <3>1, Numbers
  <2>5. /\ (Elapsed > 9 * Slow => rx_sync[1] = 1)'
        /\ (Elapsed > 9 * Slow + 1 => rx_sync[2] = 1)'
    <3>1. Elapsed' > 9 * Slow + 1 => Elapsed > 9 * Slow
      BY <2>1, Numbers
    <3> QED BY <1>1, <1>3, <3>1
  <2> QED BY <1>3, <2>2, <2>3, <2>4, <2>5 DEF Spoilt
<1> QED BY <1>4, <1>5

(* The start bit of a byte that was accepted with the arrival of another.  *)
LEMMA OverlapStep ==
    ASSUME Types, Types',
           NEW t \in BOOLEAN, NEW r \in BOOLEAN, NEW g \in BOOLEAN,
           Edge(t, r, g),
           Overlap
    PROVE  Sending' \/ Spoilt'
<1>1. PICK b \in Bytes, n \in Bytes :
        /\ Carries2(b, n) /\ arrives /\ rx_sync = <<1, 1>>
        /\ send_bitcnt = 10 /\ send_divcnt = 0
        /\ send_pattern = FrameFrom(n, 0)
  BY DEF Overlap
<1>2. n \in Byte
  BY BytesAssumption
<1>3. send_pattern[1] = 0
  BY <1>1, <1>2, FrameType, 0 \in Nat DEF FrameBit
<1>4. rx_sync' = <<0, 1>> /\ recv_state' = 0 /\ Slow' = Slow /\ Fast' = Fast
  BY <1>1, <1>3, SyncEdge, RxEdge DEF RxStop
<1>5. Elapsed' = 1
  BY <1>4 DEF Elapsed
<1>6. TxReset(t) \/ TxCount(t)
  <2>1. ~TxShift(t)
    BY <1>1, Numbers DEF TxShift
  <2> QED BY <1>1, <2>1, TxEdge DEF TxDummy, TxByte, TxIdle
<1>7. /\ TxReset(t) => Carries1(Torn)'
      /\ TxCount(t) => Carries1(n)'
  <2> DEFINE S == Bytes \cup {Torn}
  <2>1. PICK rest \in {flight,
                       IF flight = <<>> THEN flight ELSE Tail(flight)} :
               /\ arrives /\ flight # <<>> => rest = Tail(flight)
               /\ ~(arrives /\ flight # <<>>) => rest = flight
               /\ TxByte(t) => flight' = Append(rest, put)
               /\ TxReset(t) => flight' =
                   IF cut /\ rest # <<>>
                   THEN [rest EXCEPT ![Len(rest)] = Torn]
                   ELSE rest
               /\ ~TxByte(t) /\ ~TxReset(t) => flight' = rest
    BY FlightEdge
  <2>2. flight \in Seq(S) /\ Len(flight) = 2 /\ flight[2] = n /\ Torn \in S
    BY <1>1 DEF Types, Carries2
  <2> HIDE DEF S
  <2>3. rest \in Seq(S) /\ Len(rest) = 1 /\ rest[1] = n /\ rest # <<>>
    <3>1. flight # <<>>
      <4>1. flight # <<>> <=> Len(flight) > 0
        BY <2>2, Queues, Zenon
      <4>2. Len(flight) > 0
        BY <2>2
      <4> QED BY <4>1, <4>2, Zenon
    <3>2. /\ Tail(flight) \in Seq(S) /\ Len(Tail(flight)) = 1
          /\ \A i \in 1 .. 1 : Tail(flight)[i] = flight[i + 1]
      BY <2>2, <3>1, Queues
    <3>3. rest = Tail(flight)
      BY <1>1, <2>1, <3>1
    <3>4. rest \in Seq(S) /\ Len(rest) = 1 /\ rest[1] = n
      <4>1. Tail(flight)[1] = flight[1 + 1]
        BY <3>2, 1 \in 1 .. 1
      <4>2. 1 + 1 = 2
        OBVIOUS
      <4> QED BY <2>2, <3>2, <3>3, <4>1, <4>2, Zenon
    <3> QED BY <2>2, <3>4, Queues
  <2>4. ASSUME TxReset(t) PROVE Carries1(Torn)'
    <3>1. flight' = [rest EXCEPT ![Len(rest)] = Torn]
      BY <1>1, <2>1, <2>3, <2>4 DEF cut
    <3>2. /\ Len([rest EXCEPT ![Len(rest)] = Torn]) = 1
          /\ [rest EXCEPT ![Len(rest)] = Torn][1] = Torn
      BY <2>2, <2>3, Queues
    <3> QED BY <3>1, <3>2 DEF Carries1
  <2>5. ASSUME TxCount(t) PROVE Carries1(n)'
    <3>1. flight' = rest
      BY <1>1, <2>1, <2>5 DEF TxCount, TxByte, TxReset
    <3> QED BY <2>3, <3>1 DEF Carries1
  <2> QED BY <2>4, <2>5
<1>8. CASE TxReset(t)
  <2>1. send_pattern' = Ones /\ send_bitcnt' = 0 /\ send_dummy'
    BY <1>8 DEF TxReset
  <2>2. Resting(15)'
    BY <2>1 DEF Resting
  <2>3. /\ (Elapsed > 9 * Slow => rx_sync[1] = 1)'
        /\ (Elapsed > 9 * Slow + 1 => rx_sync[2] = 1)'
    BY <1>4, <1>5, Numbers
  <2> QED BY <1>4, <1>7, <1>8, <2>1, <2>2, <2>3 DEF Spoilt
<1>9. CASE TxCount(t)
  <2>1. /\ send_pattern' = FrameFrom(n, 0) /\ send_bitcnt' = 10
        /\ send_divcnt' = 1
    BY <1>1, <1>9 DEF TxCount
  <2>2. Seen(n, 0, 1) = <<0, 1>>
    BY DEF Seen, FrameBit
  <2>3. Follows(n, 0, 1)'
    BY <1>4, <1>5, <2>2, Numbers DEF Follows, Seen
  <2>4. Received(n)'
    BY <1>4 DEF Received
  <2>5. 10 - send_bitcnt' = 0
    BY <2>1
  <2> QED BY <1>7, <1>9, <2>1, <2>3, <2>4, <2>5
             DEF Sending, FrameFrom, Follows, Seen
<1> QED BY <1>6, <1>8, <1>9

(* The arrival, told by the count of edges in the next state.              *)
LEMMA ArrivesNext ==
    (Types /\ Elapsed = Sample(9) + 2)' => arrives'
<1>1. Types /\ Elapsed = Sample(9) + 2 => arrives
  BY ElapsedRange
<1> QED BY <1>1, PTL

(* The end of a frame. The next byte is accepted when the receiver is done *)
(* with this one, on the edge on which it is, or one edge before.          *)
LEMMA SentStep ==
    ASSUME Types, Types',
           NEW t \in BOOLEAN, NEW r \in BOOLEAN, NEW g \in BOOLEAN,
           Edge(t, r, g),
           Sent
    PROVE  Sent' \/ Spoilt' \/ Overlap' \/ LineIdle' \/ Sending'
<1>1. PICK b \in Bytes, c \in Nat :
        /\ Carries1(b) /\ send_pattern = Ones /\ Resting(10)
        /\ Follows(b, 9, c) /\ Received(b)
  BY DEF Sent
<1>2. b \in Byte
  BY BytesAssumption
<1>3. /\ rx_sync' = <<1, rx_sync[1]>> /\ send_pattern[1] = 1 /\ Slow' = Slow
      /\ Fast' = Fast
      /\ ~TxByte(t) => send_pattern' = Ones
  BY <1>1, HighStep, SyncEdge
<1>4. /\ Elapsed <= 9 * Slow + c /\ rx_sync = Seen(b, 9, c)
      /\ c >= 1 => rx_sync[1] = 1
      /\ c >= 2 => rx_sync[2] = 1
  BY <1>1 DEF Follows, Seen, FrameBit
<1>5. TxByte(t) => Elapsed >= 10 * Fast
  <2> SUFFICES ASSUME TxByte(t) PROVE Elapsed >= 10 * Fast
    OBVIOUS
  <2>1. send_bitcnt = 0 /\ ~send_dummy
    BY DEF TxByte
  <2>2. (10 - 0) * Fast + 0 <= Elapsed
    BY <1>1, <2>1 DEF Resting
  <2> QED BY <2>2, Numbers
<1>6. CASE arrives
  <2>1. recv_state' = 0
    BY <1>6, RxEdge DEF RxStop
  <2>2. c >= 2
    BY <1>4, <1>6, Numbers
  <2>3. rx_sync' = <<1, 1>>
    BY <1>3, <1>4, <2>2
  <2>4. CASE TxByte(t)
    <3>1. \A p : p = put => Carries1(p)'
      BY <1>1, <1>6, <2>4, OneOnLine
    <3> QED BY <2>1, <2>3, <2>4, <3>1, FrameBegins
  <2>5. CASE ~TxByte(t)
    <3>1. flight' = <<>>
      BY <1>1, <1>6, <2>5, OneOnLine
    <3> QED BY <1>3, <2>1, <2>3, <2>5, <3>1 DEF LineIdle, LineQuiet
  <2> QED BY <2>4, <2>5
<1>7. CASE ~arrives
  <2>1. /\ Elapsed' = Elapsed + 1 /\ Follows(b, 9, c + 1)'
    <3>1. send_pattern[1] = FrameBit(b, 9)
      BY <1>3 DEF FrameBit
    <3> QED BY <1>1, <1>2, <1>7, <3>1, FollowsStep, 9 \in 0 .. 9
  <2>2. Received(b)'
    BY <1>1, <1>2, ReceivedStep, 9 \in 0 .. 9
  <2>3. CASE TxByte(t)
    <3>1. put \in Bytes /\ ~(put = None)
      BY <2>3 DEF TxByte, Types
    <3> SUFFICES ASSUME NEW p \in Bytes, p = put PROVE Overlap'
      BY <3>1
    <3>2. Carries2(b, p)'
      BY <1>1, <1>7, <2>3, OneOnLine
    <3>3. Elapsed = Sample(9) + 1
      BY <1>5, <1>7, <2>3, Numbers
    <3>4. Elapsed' = (Sample(9) + 2)'
      BY <2>1, <3>3, SyncEdge, Numbers
    <3>5. arrives'
      BY <3>4, ArrivesNext
    <3>6. c >= 1
      BY <1>4, <3>3, Numbers
    <3>7. rx_sync' = <<1, 1>>
      BY <1>3, <1>4, <3>6
    <3>8. recv_pattern' = b
      <4>1. recv_state' = 10
        BY <3>5 DEF arrives
      <4>2. \A i \in 1 .. 8 : recv_pattern'[i] = b[i]
        BY <2>2, <4>1 DEF Received
      <4>3. recv_pattern' \in [1 .. 8 -> {0, 1}] /\ b \in [1 .. 8 -> {0, 1}]
        BY <1>2 DEF Types, Byte
      <4> QED BY <4>2, <4>3
    <3>9. /\ send_bitcnt' = 10 /\ send_divcnt' = 0
          /\ send_pattern' = FrameFrom(p, 0)
      BY <2>3 DEF TxByte
    <3> QED BY <3>2, <3>5, <3>7, <3>8, <3>9 DEF Overlap, FrameFrom
  <2>4. CASE ~TxByte(t)
    <3>1. Resting(10)'
      BY <1>1, <2>1, <2>4, RestingStep
    <3>2. send_pattern' = Ones /\ c + 1 \in Nat
      BY <1>3, <2>4
    <3>3. Carries1(b)' \/ (TxReset(t) /\ Carries1(Torn)')
      BY <1>1, <1>7, <2>4, OneOnLine
    <3>4. CASE Carries1(b)'
      BY <2>1, <2>2, <3>1, <3>2, <3>4 DEF Sent
    <3>5. CASE TxReset(t) /\ Carries1(Torn)'
      <4>1. Resting(15)'
        BY <3>5 DEF TxReset, Resting
      <4>2. recv_state' = 0 => rx_sync' # <<1, 1>>
        <5>1. recv_state' = 0 /\ rx_sync' = <<1, 1>> => Elapsed' = 0
          BY DEF Elapsed
        <5> QED BY <2>1, <5>1, Numbers
      <4>3. /\ (Elapsed > 9 * Slow => rx_sync[1] = 1)'
            /\ (Elapsed > 9 * Slow + 1 => rx_sync[2] = 1)'
        <5>1. Elapsed' > 9 * Slow + 1 => c >= 1
          BY <1>4, <2>1, Numbers
        <5> QED BY <1>3, <1>4, <5>1
      <4> QED BY <3>2, <3>5, <4>1, <4>2, <4>3 DEF Spoilt
    <3> QED BY <3>3, <3>4, <3>5
  <2> QED BY <2>3, <2>4
<1> QED BY <1>6, <1>7

-----------------------------------------------------------------------------
(* The phases hold in the beginning: the line is idle.                     *)
LEMMA InvInit == Init => Inv
<1> SUFFICES ASSUME Init PROVE Inv
  OBVIOUS
<1>1. link \in Links /\ tx_div = link.rx_div /\ link.rx_div \in Divs(link)
  BY DEF Init, Divs
<1>2. 0 \in 0 .. 2 ^ CounterBits - 1
  BY <1>1, Widths, WidthAssumption
<1>3. send_pattern = Ones /\ LineQuiet
  BY DEF Init, Ones, LineQuiet
<1>4. Types
  <2>1. /\ put \in Bytes \cup {None} /\ setdiv \in link.tx_divs \cup {None}
        /\ send_bitcnt = 0 /\ send_divcnt = 0 /\ send_dummy \in BOOLEAN
        /\ rx_sync \in {0, 1} \X {0, 1} /\ recv_state = 0 /\ recv_divcnt = 0
        /\ recv_pattern \in Byte /\ recv_buf \in Byte \cup {None}
    BY DEF Init, Byte
  <2>2. flight \in Seq(Bytes \cup {Torn})
    BY DEF Init
  <2>3. send_pattern \in [1 .. 10 -> {0, 1}]
    BY <1>3, Quiets
  <2> QED BY <1>1, <1>2, <2>1, <2>2, <2>3 DEF Types
<1> QED BY <1>3, <1>4 DEF Inv, LineIdle

(* Every edge leads from a phase to a phase.                               *)
LEMMA InvStep == Inv /\ [Next]_vars => Inv'
<1> SUFFICES ASSUME Inv, [Next]_vars PROVE Inv'
  OBVIOUS
<1>1. CASE Next
  <2>1. PICK t, r, g \in BOOLEAN : Edge(t, r, g)
    BY <1>1 DEF Next
  <2>2. Types /\ Types'
    BY <2>1, TypesStep DEF Inv
  <2>3. CASE LineIdle
    BY <2>1, <2>2, <2>3, LineIdleStep DEF Inv
  <2>4. CASE Sending
    BY <2>1, <2>2, <2>4, SendingStep DEF Inv
  <2>5. CASE Sent
    BY <2>1, <2>2, <2>5, SentStep DEF Inv
  <2>6. CASE Spoilt
    BY <2>1, <2>2, <2>6, SpoiltStep DEF Inv
  <2>7. CASE Overlap
    BY <2>1, <2>2, <2>7, OverlapStep DEF Inv
  <2> QED BY <2>3, <2>4, <2>5, <2>6, <2>7 DEF Inv
<1>2. CASE UNCHANGED vars
  <2>1. UNCHANGED <<link, put, setdiv, tx_div, send_pattern, send_bitcnt,
                    send_divcnt,
                    send_dummy, rx_sync, recv_state, recv_divcnt, recv_pattern,
                    recv_buf, flight>>
    BY <1>2 DEF vars, Tx!sendRegs, Rx!recvRegs
  <2>2. Types'
    BY <2>1 DEF Inv, Types, Divs, Slow, Sample, Half, Bit
  <2>3. LineIdle => LineIdle'
    BY <2>1 DEF LineIdle, LineQuiet
  <2>4. /\ Elapsed' = Elapsed /\ Fast' = Fast /\ Slow' = Slow
        /\ (arrives' <=> arrives)
    BY <2>1
       DEF Elapsed, Fast, Slow, Sample, Half, Bit, arrives, FullBit, Rx!FullBit
  <2>5. Sending => Sending'
    BY <2>1, <2>4
       DEF Sending, Carries1, FrameFrom, FrameBit, Follows, Seen, Received
  <2>6. Sent => Sent'
    BY <2>1, <2>4
       DEF Sent, Carries1, Resting, Follows, Seen, FrameBit, Received
  <2>7. Spoilt => Spoilt'
    BY <2>1, <2>4 DEF Spoilt, Carries1, Resting
  <2>8. Overlap => Overlap'
    BY <2>1, <2>4 DEF Overlap, Carries2, FrameFrom, FrameBit
  <2> QED BY <2>2, <2>3, <2>5, <2>6, <2>7, <2>8 DEF Inv
<1> QED BY <1>1, <1>2

(* The receiver is in step with the sender at every edge, with resets of   *)
(* the sender at any time.                                                 *)
THEOREM LineInStep == Spec => []Inv
<1> QED BY InvInit, InvStep, PTL DEF Spec

(* Registers and counters keep their types: no counter of simpleuart.v     *)
(* leaves its width.                                                       *)
THEOREM TypeCorrect == Spec => []TypeOK
<1>1. Inv => TypeOK
  BY DEF Inv, Types, TypeOK, Divs
<1> QED BY <1>1, LineInStep, PTL

(* Two bytes are on the line on no edge but the last of the receiver's     *)
(* frame, and no byte arrives that was not sent.                           *)
THEOREM NothingIsOwed == Spec => []NothingOwed
<1>1. Inv => NothingOwed
  <2> SUFFICES ASSUME Inv PROVE NothingOwed
    OBVIOUS
  <2>1. flight \in Seq(Bytes \cup {Torn})
    BY DEF Inv, Types
  <2>2. Len(<<>>) = 0 /\ (arrives => recv_state = 10)
    BY DEF arrives
  <2>3. CASE LineIdle
    BY <2>2, <2>3 DEF LineIdle, LineQuiet, NothingOwed
  <2>4. CASE Sending \/ Sent \/ Spoilt
    <3>1. Len(flight) = 1
      BY <2>4 DEF Sending, Sent, Spoilt, Carries1
    <3> QED BY <2>2, <3>1 DEF NothingOwed
  <2>5. CASE Overlap
    <3>1. Len(flight) = 2 /\ arrives /\ send_bitcnt = 10
      BY <2>5 DEF Overlap, Carries2
    <3> QED BY <2>2, <3>1 DEF NothingOwed
  <2> QED BY <2>3, <2>4, <2>5 DEF Inv
<1> QED BY <1>1, LineInStep, PTL

-----------------------------------------------------------------------------
(* What arrives is what was sent, if it was not torn.                      *)
LEMMA WhatArrives ==
    ASSUME Inv, arrives
    PROVE  /\ flight # <<>>
           /\ (Head(flight) = Torn \/ Head(flight) = recv_pattern)
<1>1. /\ flight \in Seq(Bytes \cup {Torn}) /\ Torn \in Bytes \cup {Torn}
      /\ recv_pattern \in [1 .. 8 -> {0, 1}] /\ recv_state = 10
  BY DEF Inv, Types, Byte, arrives
<1>2. ASSUME NEW b \in Bytes, Received(b) PROVE recv_pattern = b
  <2>1. \A i \in 1 .. 8 : recv_pattern[i] = b[i]
    BY <1>1, <1>2 DEF Received
  <2>2. b \in [1 .. 8 -> {0, 1}]
    BY BytesAssumption DEF Byte
  <2> QED BY <1>1, <2>1, <2>2
<1>3. Len(flight) > 0 /\ (flight[1] = Torn \/ flight[1] = recv_pattern)
  <2>1. ~LineIdle
    BY <1>1 DEF LineIdle, LineQuiet
  <2>2. CASE Sending \/ Sent
    <3>1. PICK b \in Bytes : Carries1(b) /\ Received(b)
      BY <2>2 DEF Sending, Sent
    <3> QED BY <1>2, <3>1 DEF Carries1
  <2>3. CASE Spoilt
    BY <2>3 DEF Spoilt, Carries1
  <2>4. CASE Overlap
    BY <2>4 DEF Overlap, Carries2
  <2> QED BY <2>1, <2>2, <2>3, <2>4 DEF Inv
<1>4. /\ flight # <<>> <=> Len(flight) > 0
      /\ flight # <<>> => Head(flight) = flight[1]
  <2> DEFINE S == Bytes \cup {Torn}
  <2>1. flight \in Seq(S) /\ Torn \in S
    BY <1>1
  <2> HIDE DEF S
  <2> QED BY <2>1, Queues, Zenon
<1> QED BY <1>3, <1>4, Zenon

(* An edge is a step of the abstract line.                                 *)
LEMMA LinkStep ==
    ASSUME Inv, NEW t \in BOOLEAN, NEW r \in BOOLEAN, NEW g \in BOOLEAN,
           Edge(t, r, g)
    PROVE  Link!Next
<1>1. Types
  BY DEF Inv
<1>2. PICK rest \in {flight, IF flight = <<>> THEN flight ELSE Tail(flight)} :
               /\ arrives /\ flight # <<>> => rest = Tail(flight)
               /\ ~(arrives /\ flight # <<>>) => rest = flight
               /\ TxByte(t) => flight' = Append(rest, put)
               /\ TxReset(t) => flight' =
                   IF cut /\ rest # <<>>
                   THEN [rest EXCEPT ![Len(rest)] = Torn]
                   ELSE rest
               /\ ~TxByte(t) /\ ~TxReset(t) => flight' = rest
  BY <1>1, FlightEdge
<1>3. Link!Receive(rest) \/ Link!Read(rest) \/ Link!Still(rest)
  <2>1. CASE arrives
    <3>1. recv_buf' = recv_pattern /\ recv_pattern \in Byte
      BY <1>1, <2>1, RxEdge DEF RxStop, Types
    <3>2. flight # <<>> /\ (Head(flight) = Torn \/ Head(flight) = recv_pattern)
      BY <2>1, WhatArrives
    <3> QED BY <1>2, <2>1, <3>1, <3>2 DEF Link!Receive
  <2>2. CASE ~arrives
    <3>1. recv_buf' \in {None, recv_buf}
      BY <1>1, <2>2, RxEdge
         DEF RxReset, RxIdle, RxCount, RxStart, RxBit, RxStop, RxKeeps
    <3> QED BY <1>2, <2>2, <3>1 DEF Link!Read, Link!Still
  <2> QED BY <2>1, <2>2
<1>4. Link!Send(rest) \/ Link!Spoil(rest) \/ flight' = rest
  <2>1. CASE TxByte(t)
    <3>1. put \in Bytes
      BY <1>1, <2>1 DEF TxByte, Types
    <3> QED BY <1>2, <2>1, <3>1 DEF Link!Send
  <2>2. CASE TxReset(t)
    BY <1>2, <2>2 DEF Link!Spoil
  <2>3. CASE ~TxByte(t) /\ ~TxReset(t)
    BY <1>2, <2>3
  <2> QED BY <2>1, <2>2, <2>3
<1> QED BY <1>2, <1>3, <1>4 DEF Link!Next

(* What is stored at one end is loaded at the other, byte for byte and in  *)
(* order, for any bytes and any two clocks close enough (simpleuart.v,     *)
(* zcu102_top.v); a reset of the sender spoils at most the byte on its     *)
(* way.                                                                    *)
THEOREM LineImplementsLink == Spec => ImplementsLink
<1>1. Init => Link!Init
  BY DEF Init, Link!Init
<1>2. Inv /\ [Next]_vars => [Link!Next]_(Link!vars)
  <2> SUFFICES ASSUME Inv, [Next]_vars PROVE [Link!Next]_(Link!vars)
    OBVIOUS
  <2>1. CASE Next
    BY <2>1, LinkStep DEF Next
  <2>2. CASE UNCHANGED vars
    BY <2>2 DEF vars, Link!vars, Rx!recvRegs
  <2> QED BY <2>1, <2>2
<1> QED BY <1>1, <1>2, LineInStep, PTL DEF Spec, ImplementsLink, Link!Spec
=============================================================================

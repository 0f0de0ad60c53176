------------------------------- MODULE StdLib -------------------------------
(***************************************************************************)
(* The C library the benchmark brings along (dhrystone/stdlib.c): strings  *)
(* handled a word at a time, a heap that only grows, decimal output.       *)
(*                                                                         *)
(* A memory m is a function from addresses to bytes.  A loop is described  *)
(* by where it stops.  char is unsigned on this processor.                 *)
(***************************************************************************)
EXTENDS Integers, Sequences, FiniteSetsExt

\* No string of the benchmark model is longer than eight bytes.
LOCAL Reach == 0 .. 15
LOCAL WordReach == 0 .. 2

Word(m, a) == [i \in 0 .. 3 |-> m[a + i]]

\* (v - 0x01010101) & ~v & 0x80808080, byte by byte with the borrows.
Borrow(v) ==
    LET b[i \in 0 .. 3] == IF i = 0 THEN 0 ELSE IF v[i - 1] < 1 + b[i - 1] THEN 1 ELSE 0
    IN  b
\* Mutant: the mask that takes out the bytes above 80h is forgotten.
HasZeroWithoutComplement(v) ==
    \E i \in 0 .. 3 : (v[i] - 1 - Borrow(v)[i]) % 256 >= 128
HasZero(v) ==
    \E i \in 0 .. 3 : (v[i] - 1 - Borrow(v)[i]) % 256 >= 128 /\ v[i] < 128

\* Both pointers are at a word after i bytes.
Aligned(p, q, i) == (p + i) % 4 = 0 /\ (q + i) % 4 = 0

\* The offsets strcpy writes: bytes until both pointers are aligned, words
\* until one holds a zero, and the bytes of that word up to the zero.
Copied(m, dst, src) ==
    LET n == Min({i \in Reach : Aligned(dst, src, i) \/ m[src + i] = 0})
        k == Min({j \in WordReach : HasZero(Word(m, src + n + (4 * j)))})
        zeros == {i \in 0 .. 2 : m[src + n + (4 * k) + i] = 0}
        last == IF zeros = {} THEN 3 ELSE Min(zeros)
    IN  IF ~Aligned(dst, src, n) THEN 0 .. n ELSE 0 .. n + (4 * k) + last
\* Mutant: the last word is written whole.
CopiedInWords(m, dst, src) ==
    LET n == Min({i \in Reach : Aligned(dst, src, i) \/ m[src + i] = 0})
        k == Min({j \in WordReach : HasZero(Word(m, src + n + (4 * j)))})
    IN  IF ~Aligned(dst, src, n) THEN 0 .. n ELSE 0 .. n + (4 * k) + 3
WriteOffsets(m, dst, src, offsets) ==
    [a \in DOMAIN m |-> IF a - dst \in offsets THEN m[src + a - dst] ELSE m[a]]

\* Mutant: see CopiedInWords.
StrcpyWholeWords(m, dst, src) == WriteOffsets(m, dst, src, CopiedInWords(m, dst, src))
strcpy(m, dst, src) == WriteOffsets(m, dst, src, Copied(m, dst, src))

Sign(c1, c2) == IF c1 < c2 THEN -1 ELSE IF c1 > c2 THEN 1 ELSE 0

strcmp(m, s1, s2) ==
    LET n == Min({i \in Reach : \/ Aligned(s1, s2, i)
                                \/ m[s1 + i] # m[s2 + i] \/ m[s1 + i] = 0})
        w1(j) == Word(m, s1 + n + (4 * j))
        w2(j) == Word(m, s2 + n + (4 * j))
        k == Min({j \in WordReach : w1(j) # w2(j) \/ HasZero(w1(j))})
        stop == Min({3} \cup {i \in 0 .. 3 : w1(k)[i] # w2(k)[i] \/ w1(k)[i] = 0})
    IN  IF ~Aligned(s1, s2, n) THEN Sign(m[s1 + n], m[s2 + n])
        ELSE IF w1(k) = w2(k) THEN 0
        ELSE Sign(w1(k)[stop], w2(k)[stop])

\* The heap, and the trap that ends the program when it is used up.
HeapSize == 1024
malloc(used, size) == [offset |-> used, used |-> used + size,
                       ebreak |-> used + size > HeapSize]

Minus == -1                     \* the sign and the point, beside the digits
Point == -2
printf_d(val) ==
    LET digits[n \in Nat] == IF n < 10 THEN <<n>> ELSE Append(digits[n \div 10], n % 10)
    IN  IF val < 0 THEN <<Minus>> \o digits[-val] ELSE digits[val]
=============================================================================

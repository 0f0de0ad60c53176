------------------------- MODULE PixelKernel_proofs -------------------------
(* Proofs about the server's loop, for bytes of any size, any lanes and    *)
(* any number of words.                                                    *)
EXTENDS PixelKernel, XPixLanes_proofs

(* One iteration of the loop, in either build, computes the reference in   *)
(* every lane.                                                             *)
LEMMA RunIsGolden ==
    ASSUME NEW x \in Word, NEW y \in Word, NEW o \in ServerOp, NEW t \in Byte
    PROVE  Run(o, x, y, Replicate(t)) =
             [l \in Lanes |-> Golden(o, x[l], y[l], t)]
  <1>1. \A l \in Lanes : x[l] \in Byte /\ y[l] \in Byte
    BY DEF Word
  <1>2. CASE Baseline
    <2>1. Replicate(t)[0] = t
      BY LaneZeroAssumption DEF Replicate
    <2>2. \A l \in Lanes : RunByte(o, x[l], y[l], t) = Golden(o, x[l], y[l], t)
      BY <1>1, ByteIsGolden
    <2> QED BY <1>2, <2>1, <2>2 DEF Run, RunBaseline
  <1>3. CASE ~Baseline /\ o \in Funct
    <2>1. \A l \in Lanes : Lane(x[l], y[l], o) = Golden(o, x[l], y[l], t)
      BY <1>1, <1>3, LaneIsGolden
    <2> QED BY <1>3, <2>1 DEF Run, RunXPix, Packed
  <1>4. CASE ~Baseline /\ o \notin Funct
    <2>1. o = 5
      BY <1>4 DEF ServerOp, Funct
    <2>2. \A l \in Lanes :
            Lane(Lane(x[l], y[l], 0), t, 1) = Golden(5, x[l], y[l], t)
      BY <1>1, MotionIsGolden
    <2> QED BY <1>4, <2>1, <2>2 DEF Run, RunXPix, Packed, Replicate
  <1> QED BY <1>2, <1>3, <1>4

(* The loop keeps its type and, in the words it has passed, the reference  *)
(* result; so every completed command returns the frame the host expects.  *)
THEOREM KernelCorrect == Spec => []ResultIsGolden
  <1>1. Init => IInv
    BY WordsAssumption DEF Init, IInv, TypeOK, ResultIsGolden
  <1>2. IInv /\ [Next]_vars => IInv'
    <2> SUFFICES ASSUME IInv, [Next]_vars PROVE IInv'
      OBVIOUS
    <2>1. CASE Iterate
      <3> DEFINE new == [l \in Lanes |-> Golden(op, A[i][l], B[i][l], threshold)]
      <3>1. /\ i \in 0 .. Words - 1
            /\ A[i] \in Word /\ B[i] \in Word
        BY <2>1, WordsAssumption DEF IInv, TypeOK, Iterate, Frame
      <3>2. X' = [X EXCEPT ![i] = new]
        BY <2>1, <3>1, RunIsGolden DEF IInv, TypeOK, Iterate
      <3>3. new \in Word
        BY <3>1, GoldenType DEF IInv, TypeOK, Word
      <3> HIDE DEF new
      <3>4. TypeOK'
        BY <2>1, <3>1, <3>2, <3>3, WordsAssumption
        DEF IInv, TypeOK, Iterate, Frame
      <3>5. ASSUME NEW w \in 0 .. Words - 1, w < i', NEW l \in Lanes
            PROVE  X'[w][l] = Golden(op, A[w][l], B[w][l], threshold)
        <4>1. CASE w = i
          BY <4>1, <3>1, <3>2 DEF IInv, TypeOK, Frame, new
        <4>2. CASE w # i
          <5>1. w < i
            BY <2>1, <3>5, <4>2, <3>1 DEF Iterate
          <5>2. X'[w] = X[w]
            BY <3>2, <4>2, <3>1 DEF IInv, TypeOK, Frame
          <5> QED BY <5>1, <5>2, <3>5 DEF IInv, ResultIsGolden
        <4> QED BY <4>1, <4>2
      <3>6. ResultIsGolden'
        BY <2>1, <3>5 DEF ResultIsGolden, Iterate
      <3> QED BY <3>4, <3>6 DEF IInv
    <2>2. CASE UNCHANGED vars
      BY <2>2 DEF IInv, TypeOK, ResultIsGolden, vars
    <2> QED BY <2>1, <2>2 DEF Next
  <1>3. IInv => ResultIsGolden
    BY DEF IInv
  <1> QED BY <1>1, <1>2, <1>3, PTL DEF Spec
=============================================================================

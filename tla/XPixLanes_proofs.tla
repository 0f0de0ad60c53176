-------------------------- MODULE XPixLanes_proofs --------------------------
(* Lemmas about the pixel arithmetic, for bytes of any size.               *)
EXTENDS XPixLanes, TLAPS

(* A lane of the coprocessor yields a byte.                                *)
LEMMA LaneType ==
    ASSUME NEW x \in Byte, NEW y \in Byte, NEW f \in Nat
    PROVE  Lane(x, y, f) \in Byte
  <1>1. CASE f = 2
    BY <1>1, TopAssumption DEF Lane, Byte
  <1>2. CASE f # 2
    BY <1>2, TopAssumption DEF Lane, Byte
  <1> QED BY <1>1, <1>2

(* The lane function of the coprocessor is the reference operation: the    *)
(* five instructions, for every pair of bytes.                             *)
LEMMA LaneIsGolden ==
    ASSUME NEW x \in Byte, NEW y \in Byte, NEW f \in Funct, NEW t \in Byte
    PROVE  Lane(x, y, f) = Golden(f, x, y, t)
  <1>1. CASE f = 0
    BY <1>1, TopAssumption DEF Lane, Golden, Byte, Abs
  <1>2. CASE f = 1
    BY <1>2, TopAssumption DEF Lane, Golden, Byte
  <1>3. CASE f = 2
    <2>1. CASE x + y > Top
      BY <1>3, <2>1, TopAssumption DEF Lane, Golden, Byte, MinOf
    <2>2. CASE ~(x + y > Top)
      <3>1. (x + y) % (Top + 1) = x + y
        BY <2>2, TopAssumption DEF Byte
      <3>2. Lane(x, y, f) = x + y
        BY <1>3, <2>2, <3>1, TopAssumption DEF Lane, Byte
      <3>3. Golden(f, x, y, t) = x + y
        BY <1>3, <2>2, TopAssumption DEF Golden, Byte, MinOf
      <3> QED BY <3>2, <3>3
    <2> QED BY <2>1, <2>2
  <1>4. CASE f = 3
    BY <1>4, TopAssumption DEF Lane, Golden, Byte, MaxOf
  <1>5. CASE f = 4
    BY <1>5, TopAssumption DEF Lane, Golden, Byte, MinOf
  <1> QED BY <1>1, <1>2, <1>3, <1>4, <1>5 DEF Funct

(* Motion is two instructions: the absolute difference, thresholded.       *)
LEMMA MotionIsGolden ==
    ASSUME NEW x \in Byte, NEW y \in Byte, NEW t \in Byte
    PROVE  Lane(Lane(x, y, 0), t, 1) = Golden(5, x, y, t)
  <1>1. Lane(x, y, 0) = Abs(x - y)
    BY TopAssumption DEF Lane, Byte, Abs
  <1>2. Lane(Abs(x - y), t, 1) = IF Abs(x - y) >= t THEN Top ELSE 0
    BY DEF Lane
  <1> QED BY <1>1, <1>2 DEF Golden

(* The C switch of the BASELINE build is the reference operation.          *)
LEMMA ByteIsGolden ==
    ASSUME NEW x \in Byte, NEW y \in Byte, NEW o \in ServerOp, NEW t \in Byte
    PROVE  RunByte(o, x, y, t) = Golden(o, x, y, t)
  <1>1. (IF x > y THEN x - y ELSE y - x) = Abs(x - y)
    BY DEF Byte, Abs
  <1>2. (IF x + y > Top THEN Top ELSE x + y) = MinOf(x + y, Top)
    BY TopAssumption DEF Byte, MinOf
  <1>3. /\ (IF x > y THEN x ELSE y) = MaxOf(x, y)
        /\ (IF x < y THEN x ELSE y) = MinOf(x, y)
    BY DEF Byte, MaxOf, MinOf
  <1> HIDE DEF Abs, MinOf, MaxOf
  <1> QED BY <1>1, <1>2, <1>3 DEF RunByte, Golden, ServerOp

(* Golden yields a byte.                                                   *)
LEMMA GoldenType ==
    ASSUME NEW x \in Byte, NEW y \in Byte, NEW o \in ServerOp, NEW t \in Byte
    PROVE  Golden(o, x, y, t) \in Byte
  <1>1. CASE o \in Funct
    <2>1. Lane(x, y, o) = Golden(o, x, y, t)
      BY <1>1, LaneIsGolden
    <2>2. Lane(x, y, o) \in Byte
      BY <1>1, LaneType DEF Funct
    <2> QED BY <2>1, <2>2
  <1>2. CASE o = 5
    BY <1>2, TopAssumption DEF Golden, Byte
  <1> QED BY <1>1, <1>2 DEF ServerOp, Funct
=============================================================================

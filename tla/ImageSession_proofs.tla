------------------------ MODULE ImageSession_proofs -------------------------
(***************************************************************************)
(* A session of the host with the image server that starts on a ready      *)
(* server and is not disturbed succeeds, whatever the frames, their size,  *)
(* the size of a block and the threshold are and whatever earlier sessions *)
(* left behind.                                                            *)
(***************************************************************************)
EXTENDS ImageSession, SequenceTheorems, XPixLanes_proofs

Blocks == Pixels \div Block
LastStep == 2 * Blocks + 5

\* What the server has yet to take, and what the host has yet to take.
Opt(b) == IF b = None THEN <<>> ELSE <<b>>
Incoming == Opt(box) \o hq
Outgoing == inbox \o Opt(tx) \o out

TypeOK ==
    /\ box \in Byte \cup {None} /\ tx \in Byte \cup {None}
    /\ out \in Seq(Byte) /\ hq \in Seq(Byte) /\ inbox \in Seq(Byte)
    /\ pc \in {"command", "upload", "compute", "threshold"}
    /\ dst \in {"A", "B"} /\ i \in Nat /\ (pc = "upload" => i \in Pixel)
    /\ op \in ServerOp /\ threshold \in Byte
    /\ ram \in [{"A", "B", "X"} -> [Pixel -> Byte]]
    /\ host \in {"closed", "running", "ok", "failed"}
    /\ session \in Sessions /\ step \in 1 .. LastStep

-----------------------------------------------------------------------------
(* The phases of an undisturbed session.  In each of them bytes are on the *)
(* way in one direction only, and it is known which.                       *)

Asked(m) == Incoming = m /\ Outgoing = <<>>
Answered(r) == Incoming = <<>> /\ Outgoing = r

Slice(f, lo, hi) == [n \in 1 .. hi - lo |-> f[lo + n - 1]]
Loaded(d, f, n) == \A j \in 0 .. n - 1 : ram[d][j] = f[j]

\* Frame f is on its way to d; the command was step first of the script.
Announced(cmd, d, first) ==
    /\ step = first
    /\ \/ pc = "command" /\ Asked(<<cmd>>)
       \/ pc = "upload" /\ dst = d /\ i = 0 /\ Answered(<<R>>)

BlockPhase(d, f, first, k) ==
    /\ step = first + k /\ dst = d
    /\ i \in (k - 1) * Block .. k * Block /\ Loaded(d, f, i)
    /\ \/ i < k * Block /\ pc = "upload" /\ Asked(Slice(f, i, k * Block))
       \/ /\ i = k * Block /\ Answered(<<K>>)
          /\ pc = IF k = Blocks THEN "command" ELSE "upload"

Uploading(cmd, d, f, first) ==
    \/ Announced(cmd, d, first)
    \/ \E k \in 1 .. Blocks : BlockPhase(d, f, first, k)

FramesLoaded ==
    Loaded("A", session.a, Pixels) /\ Loaded("B", session.b, Pixels)

Threshold ==
    /\ step = LastStep - 2
    /\ \/ pc = "command" /\ Asked(<<48, session.t>>)
       \/ pc = "threshold" /\ Asked(<<session.t>>)
       \/ pc = "command" /\ threshold = session.t /\ Answered(<<K>>)

Computation ==
    /\ step = LastStep - 1
    /\ \/ pc = "command" /\ threshold = session.t /\ Asked(<<16 + session.op>>)
       \/ /\ pc = "compute" /\ op = session.op /\ threshold = session.t
          /\ Asked(<<>>)
       \/ /\ pc = "command" /\ Answered(<<K>>)
          /\ \A n \in Pixel : ram.X[n] = Expected(session)[n + 1]

Download ==
    /\ step = LastStep
    /\ pc = "command"
    /\ \/ /\ Asked(<<32>>)
          /\ \A n \in Pixel : ram.X[n] = Expected(session)[n + 1]
       \/ Answered(Expected(session))

Running ==
    \/ Uploading(1, "A", session.a, 1)
    \/ /\ Loaded("A", session.a, Pixels)
       /\ Uploading(2, "B", session.b, Blocks + 2)
    \/ FramesLoaded /\ (Threshold \/ Computation)
    \/ Download

SessionInv ==
    clean =>
        /\ ~lost
        /\ host \in {"running", "ok"}
        /\ host = "running" => Running
        /\ host = "ok" => pc = "command" /\ Incoming = <<>> /\ Outgoing = <<>>

IInv == TypeOK /\ SessionInv
-----------------------------------------------------------------------------
LEMMA Geometry == Blocks \in Nat \ {0} /\ Blocks * Block = Pixels
<1>1. Pixels = Block * (Pixels \div Block) + (Pixels % Block)
    BY ServerAssumption
<1>2. Pixels \div Block \in Nat
    BY ServerAssumption
<1> QED BY <1>1, <1>2, ServerAssumption DEF Blocks

LEMMA Bytes ==
    /\ {R, K, E, 1, 2, 32, 48} \subseteq Byte /\ 16 .. 21 \subseteq Byte
    /\ Banner \in Seq(Byte)
BY ServerAssumption DEF Byte, R, K, E, Banner

LEMMA OptType ==
    ASSUME NEW b \in Byte \cup {None}
    PROVE  Opt(b) \in Seq(Byte) /\ (Opt(b) = <<>> <=> b = None)
BY DEF Opt

(* The two directions are byte sequences, empty where nothing is on the    *)
(* way.                                                                    *)
LEMMA Directions ==
    ASSUME TypeOK
    PROVE  /\ Incoming \in Seq(Byte) /\ Outgoing \in Seq(Byte)
           /\ Incoming = <<>> <=> box = None /\ hq = <<>>
           /\ Outgoing = <<>> <=> inbox = <<>> /\ tx = None /\ out = <<>>
<1>1. /\ Opt(box) \in Seq(Byte) /\ Opt(tx) \in Seq(Byte)
      /\ Opt(box) = <<>> <=> box = None
      /\ Opt(tx) = <<>> <=> tx = None
    BY OptType DEF TypeOK
<1>2. hq \in Seq(Byte) /\ inbox \in Seq(Byte) /\ out \in Seq(Byte)
    BY DEF TypeOK
<1>3. inbox \o Opt(tx) \in Seq(Byte)
    BY <1>1, <1>2, ConcatProperties
<1> HIDE DEF Opt
<1>4. Incoming \in Seq(Byte) /\ Outgoing \in Seq(Byte)
    BY <1>1, <1>2, <1>3, ConcatProperties DEF Incoming, Outgoing
<1>5. Incoming = <<>> <=> Opt(box) = <<>> /\ hq = <<>>
    BY <1>1, <1>2, ConcatEqualIffEmpty DEF Incoming
<1>6. Outgoing = <<>> <=> inbox \o Opt(tx) = <<>> /\ out = <<>>
    BY <1>2, <1>3, ConcatEqualIffEmpty DEF Outgoing
<1>7. inbox \o Opt(tx) = <<>> <=> inbox = <<>> /\ Opt(tx) = <<>>
    BY <1>1, <1>2, ConcatEqualIffEmpty
<1> QED BY <1>1, <1>4, <1>5, <1>6, <1>7

LEMMA ConcatParts ==
    ASSUME NEW S, NEW s \in Seq(S), NEW t \in Seq(S),
           NEW m \in Nat, NEW n \in Nat, Len(s) = m, Len(t) = n
    PROVE  /\ s \o t \in Seq(S) /\ Len(s \o t) = m + n
           /\ \A k \in 1 .. m : (s \o t)[k] = s[k]
           /\ \A k \in 1 .. n : (s \o t)[m + k] = t[k]
<1>1. /\ s \o t \in Seq(S) /\ Len(s \o t) = Len(s) + Len(t)
      /\ \A k \in 1 .. Len(s) + Len(t) :
            (s \o t)[k] = IF k <= Len(s) THEN s[k] ELSE t[k - Len(s)]
    BY ConcatProperties
<1> QED BY <1>1

-----------------------------------------------------------------------------
(* The script, step by step.                                               *)
Message == [send : Seq(Byte), ack : Byte \cup {None}]

LEMMA UploadScript ==
    ASSUME NEW cmd \in Byte, NEW f \in [0 .. Pixels - 1 -> Byte]
    PROVE  /\ UploadSteps(cmd, f) \in Seq(Message)
           /\ Len(UploadSteps(cmd, f)) = Blocks + 1
           /\ UploadSteps(cmd, f)[1] = [send |-> <<cmd>>, ack |-> R]
           /\ \A k \in 1 .. Blocks :
                UploadSteps(cmd, f)[k + 1] =
                    [send |-> Slice(f, (k - 1) * Block, k * Block), ack |-> K]
<1> DEFINE announce == <<[send |-> <<cmd>>, ack |-> R]>>
           pieces == [k \in 1 .. Blocks |->
                        [send |-> Piece(f, (k - 1) * Block), ack |-> K]]
<1>1. announce \in Seq(Message) /\ Len(announce) = 1
    BY Bytes DEF Message
<1>2. ASSUME NEW k \in 1 .. Blocks
      PROVE  /\ Piece(f, (k - 1) * Block) = Slice(f, (k - 1) * Block, k * Block)
             /\ Piece(f, (k - 1) * Block) \in Seq(Byte)
  <2>1. k \in Nat /\ k >= 1 /\ k <= Blocks /\ Block \in Nat /\ Blocks \in Nat
      BY Geometry, ServerAssumption
  <2>2. (k - 1) * Block \in Nat /\ k * Block - (k - 1) * Block = Block
      BY <2>1
  <2>3. k * Block <= Pixels
      BY <2>1, Geometry
  <2>4. ASSUME NEW n \in 1 .. Block
        PROVE  f[(k - 1) * Block + n - 1] \in Byte
      BY <2>1, <2>2, <2>3, ServerAssumption
  <2>5. [n \in 1 .. Block |-> f[(k - 1) * Block + n - 1]] \in [1 .. Block -> Byte]
      BY <2>4
  <2>6. Piece(f, (k - 1) * Block)
            = [n \in 1 .. Block |-> f[(k - 1) * Block + n - 1]]
      BY <2>1, <2>2 DEF Piece
  <2>7. Slice(f, (k - 1) * Block, k * Block)
            = [n \in 1 .. Block |-> f[(k - 1) * Block + n - 1]]
      BY <2>2 DEF Slice
  <2>8. [1 .. Block -> Byte] \subseteq Seq(Byte)
      BY <2>1, SeqDef
  <2> QED BY <2>5, <2>6, <2>7, <2>8
<1> HIDE DEF announce
<1>3. pieces \in Seq(Message) /\ Len(pieces) = Blocks
  <2>1. pieces \in [1 .. Blocks -> Message]
      BY <1>2, Bytes DEF Message
  <2>2. Blocks \in Nat
      BY Geometry
  <2>3. pieces \in Seq(Message)
      BY <2>1, <2>2, SeqDef
  <2>4. DOMAIN pieces = 1 .. Blocks
      OBVIOUS
  <2> QED BY <2>2, <2>3, <2>4, LenProperties
<1>4. \A k \in 1 .. Blocks :
        pieces[k] = [send |-> Slice(f, (k - 1) * Block, k * Block), ack |-> K]
    BY <1>2
<1> HIDE DEF pieces
<1>5. UploadSteps(cmd, f) = announce \o pieces
    BY DEF UploadSteps, announce, pieces, Blocks
<1>6. /\ announce \o pieces \in Seq(Message)
      /\ Len(announce \o pieces) = Blocks + 1
      /\ \A n \in 1 .. 1 + Blocks :
            (announce \o pieces)[n] = IF n <= 1 THEN announce[n] ELSE pieces[n - 1]
    BY <1>1, <1>3, ConcatProperties, Geometry
<1>7. announce[1] = [send |-> <<cmd>>, ack |-> R]
    BY DEF announce
<1>8. (announce \o pieces)[1] = announce[1]
    BY <1>6, Geometry
<1>9. ASSUME NEW k \in 1 .. Blocks
      PROVE  (announce \o pieces)[k + 1] = pieces[k]
    BY <1>6, Geometry
<1> QED BY <1>4, <1>5, <1>6, <1>7, <1>8, <1>9

LEMMA ScriptAt ==
    ASSUME NEW s \in Sessions
    PROVE  /\ Script(s) \in Seq(Message) /\ Len(Script(s)) = LastStep
           /\ Script(s)[1] = [send |-> <<1>>, ack |-> R]
           /\ \A k \in 1 .. Blocks :
                Script(s)[1 + k] =
                    [send |-> Slice(s.a, (k - 1) * Block, k * Block), ack |-> K]
           /\ Script(s)[Blocks + 2] = [send |-> <<2>>, ack |-> R]
           /\ \A k \in 1 .. Blocks :
                Script(s)[Blocks + 2 + k] =
                    [send |-> Slice(s.b, (k - 1) * Block, k * Block), ack |-> K]
           /\ Script(s)[LastStep - 2] = [send |-> <<48, s.t>>, ack |-> K]
           /\ Script(s)[LastStep - 1] = [send |-> <<16 + s.op>>, ack |-> K]
           /\ Script(s)[LastStep] = [send |-> <<32>>, ack |-> None]
<1> DEFINE ua == UploadSteps(1, s.a)
           ub == UploadSteps(2, s.b)
           rest == << [send |-> <<48, s.t>>, ack |-> K],
                      [send |-> <<16 + s.op>>, ack |-> K],
                      [send |-> <<32>>, ack |-> None] >>
<1>1. /\ s.a \in [0 .. Pixels - 1 -> Byte] /\ s.b \in [0 .. Pixels - 1 -> Byte]
      /\ s.t \in Byte /\ s.op \in 0 .. 5
    BY SessionAssumption DEF ServerOp
<1>2. /\ 1 \in Byte /\ 2 \in Byte /\ 48 \in Byte /\ 32 \in Byte /\ K \in Byte
      /\ 16 + s.op \in Byte
    BY <1>1, Bytes
<1>3. rest \in Seq(Message) /\ Len(rest) = 3
    BY <1>1, <1>2 DEF Message
<1>4. /\ rest[1] = [send |-> <<48, s.t>>, ack |-> K]
      /\ rest[2] = [send |-> <<16 + s.op>>, ack |-> K]
      /\ rest[3] = [send |-> <<32>>, ack |-> None]
    OBVIOUS
<1>5. /\ ua \in Seq(Message) /\ Len(ua) = Blocks + 1
      /\ ua[1] = [send |-> <<1>>, ack |-> R]
      /\ \A k \in 1 .. Blocks :
            ua[k + 1] = [send |-> Slice(s.a, (k - 1) * Block, k * Block), ack |-> K]
    BY <1>1, <1>2, UploadScript
<1>6. /\ ub \in Seq(Message) /\ Len(ub) = Blocks + 1
      /\ ub[1] = [send |-> <<2>>, ack |-> R]
      /\ \A k \in 1 .. Blocks :
            ub[k + 1] = [send |-> Slice(s.b, (k - 1) * Block, k * Block), ack |-> K]
    BY <1>1, <1>2, UploadScript
<1>7. Script(s) = (ua \o ub) \o rest
    BY DEF Script
<1> HIDE DEF ua, ub, rest
<1>8. /\ ua \o ub \in Seq(Message) /\ Len(ua \o ub) = 2 * Blocks + 2
      /\ \A n \in 1 .. Blocks + 1 : (ua \o ub)[n] = ua[n]
      /\ \A n \in 1 .. Blocks + 1 : (ua \o ub)[Blocks + 1 + n] = ub[n]
  <2>1. Blocks + 1 \in Nat /\ (Blocks + 1) + (Blocks + 1) = 2 * Blocks + 2
      BY Geometry
  <2> QED BY <1>5, <1>6, <2>1, ConcatParts
<1>9. /\ Script(s) \in Seq(Message) /\ Len(Script(s)) = LastStep
      /\ \A n \in 1 .. 2 * Blocks + 2 : Script(s)[n] = (ua \o ub)[n]
      /\ \A n \in 1 .. 3 : Script(s)[2 * Blocks + 2 + n] = rest[n]
  <2> DEFINE uploads == ua \o ub
             m == 2 * Blocks + 2
             n == 3
  <2>1. /\ uploads \in Seq(Message) /\ Len(uploads) = m /\ m \in Nat
        /\ rest \in Seq(Message) /\ Len(rest) = n /\ n \in Nat
      BY <1>3, <1>8, Geometry
  <2>2. m + n = LastStep
      BY Geometry DEF LastStep
  <2>3. Script(s) = uploads \o rest
      BY <1>7
  <2> HIDE DEF uploads, m, n
  <2>4. /\ uploads \o rest \in Seq(Message) /\ Len(uploads \o rest) = m + n
        /\ \A k \in 1 .. m : (uploads \o rest)[k] = uploads[k]
        /\ \A k \in 1 .. n : (uploads \o rest)[m + k] = rest[k]
      BY <2>1, ConcatParts
  <2>5. /\ Script(s) \in Seq(Message) /\ Len(Script(s)) = m + n
        /\ \A k \in 1 .. m : Script(s)[k] = uploads[k]
        /\ \A k \in 1 .. n : Script(s)[m + k] = rest[k]
      BY <2>3, <2>4
  <2> QED BY <2>2, <2>5 DEF uploads, m, n
<1>10. \A n \in 1 .. Blocks + 1 :
          Script(s)[n] = ua[n] /\ Script(s)[Blocks + 1 + n] = ub[n]
  <2> SUFFICES ASSUME NEW n \in 1 .. Blocks + 1
               PROVE  Script(s)[n] = ua[n] /\ Script(s)[Blocks + 1 + n] = ub[n]
      OBVIOUS
  <2>1. n \in 1 .. 2 * Blocks + 2 /\ Blocks + 1 + n \in 1 .. 2 * Blocks + 2
      BY Geometry
  <2> QED BY <1>8, <1>9, <2>1
<1>12. Blocks \in Nat \ {0}
    BY Geometry
<1>13. ASSUME NEW k \in 1 .. Blocks
       PROVE  Script(s)[1 + k] = ua[k + 1] /\ Script(s)[Blocks + 2 + k] = ub[k + 1]
    BY <1>10, <1>12
<1>14. Script(s)[1] = ua[1] /\ Script(s)[Blocks + 2] = ub[1]
    BY <1>10, <1>12
<1>15. /\ Script(s)[LastStep - 2] = rest[1] /\ Script(s)[LastStep - 1] = rest[2]
       /\ Script(s)[LastStep] = rest[3]
    BY <1>9, <1>12 DEF LastStep
<1> QED BY <1>4, <1>5, <1>6, <1>9, <1>13, <1>14, <1>15

-----------------------------------------------------------------------------
(* What the server computes is the image golden.py expects of its frames.  *)
LEMMA ComputedIsGolden ==
    ASSUME TypeOK
    PROVE  /\ Computed \in [Pixel -> Byte]
           /\ \A n \in Pixel :
                Computed[n] = Golden(op, ram.A[n], ram.B[n], threshold)
<1>1. ASSUME NEW n \in Pixel
      PROVE  RunXPix(op, WordOf(ram.A, n), WordOf(ram.B, n),
                     Replicate(threshold))[n % 4]
                = Golden(op, ram.A[n], ram.B[n], threshold)
  <2>1. n \in Nat /\ n % 4 \in Lanes /\ n - (n % 4) + (n % 4) = n
      BY ServerAssumption DEF Pixel
  <2>2. /\ WordOf(ram.A, n)[n % 4] = ram.A[n] /\ WordOf(ram.B, n)[n % 4] = ram.B[n]
        /\ Replicate(threshold)[n % 4] = threshold
      BY <2>1 DEF WordOf, Replicate
  <2>3. ram.A[n] \in Byte /\ ram.B[n] \in Byte /\ threshold \in Byte
      BY DEF TypeOK
  <2>4. CASE op \in Funct
    <3>1. RunXPix(op, WordOf(ram.A, n), WordOf(ram.B, n), Replicate(threshold))[n % 4]
            = Lane(ram.A[n], ram.B[n], op)
        BY <2>1, <2>2, <2>4 DEF RunXPix, Packed
    <3> QED BY <2>3, <2>4, <3>1, LaneIsGolden
  <2>5. CASE op = 5
    <3>1. RunXPix(op, WordOf(ram.A, n), WordOf(ram.B, n), Replicate(threshold))[n % 4]
            = Lane(Lane(ram.A[n], ram.B[n], 0), threshold, 1)
        BY <2>1, <2>2, <2>5 DEF RunXPix, Packed, Funct
    <3> QED BY <2>3, <2>5, <3>1, MotionIsGolden
  <2> QED BY <2>4, <2>5 DEF TypeOK, ServerOp, Funct
<1>2. ASSUME NEW n \in Pixel
      PROVE  Golden(op, ram.A[n], ram.B[n], threshold) \in Byte
    BY GoldenType DEF TypeOK
<1> QED BY <1>1, <1>2 DEF Computed

-----------------------------------------------------------------------------
(* Types.                                                                  *)
LEMMA Image ==
    ASSUME NEW x \in [Pixel -> Byte]
    PROVE  [n \in 1 .. Pixels |-> x[n - 1]] \in Seq(Byte)
<1>1. ASSUME NEW n \in 1 .. Pixels PROVE n - 1 \in Pixel
    BY ServerAssumption DEF Pixel
<1>2. [n \in 1 .. Pixels |-> x[n - 1]] \in [1 .. Pixels -> Byte]
    BY <1>1
<1> QED BY <1>2, SeqDef, ServerAssumption

LEMMA ServerTypes == TypeOK /\ Server => TypeOK'
<1> SUFFICES ASSUME TypeOK, Server PROVE TypeOK'
    OBVIOUS
<1> USE DEF TypeOK, Server, hostVars, historyVars
<1>1. CASE Putc
    BY <1>1 DEF Putc
<1>2. CASE CommandUpload
    BY <1>2, Bytes, ServerAssumption DEF CommandUpload, Getc, Pixel
<1>3. CASE CommandCompute
  <2>1. op' \in ServerOp
      BY <1>3 DEF CommandCompute, ServerOp
  <2> QED BY <1>3, <2>1 DEF CommandCompute, Getc
<1>4. CASE CommandDownload
  <2>1. out' \in Seq(Byte)
      BY <1>4, Image DEF CommandDownload
  <2> QED BY <1>4, <2>1 DEF CommandDownload, Getc
<1>5. CASE CommandThreshold
    BY <1>5 DEF CommandThreshold, Getc
<1>6. CASE CommandUnknown
    BY <1>6, Bytes DEF CommandUnknown, Getc
<1>7. CASE UploadPixel
  <2>1. i \in Pixel /\ box \in Byte
      BY <1>7 DEF UploadPixel, Getc
  <2>2. i' \in Nat /\ (pc' = "upload" => i' \in Pixel)
      BY <1>7, <2>1, ServerAssumption DEF UploadPixel, Pixel
  <2>3. ram' \in [{"A", "B", "X"} -> [Pixel -> Byte]]
      BY <1>7, <2>1 DEF UploadPixel
  <2>4. out' \in Seq(Byte)
      BY <1>7, Bytes DEF UploadPixel
  <2> QED BY <1>7, <2>2, <2>3, <2>4 DEF UploadPixel, Getc
<1>8. CASE SetThreshold
    BY <1>8, Bytes DEF SetThreshold, Getc
<1>9. CASE Compute
  <2>1. ram' \in [{"A", "B", "X"} -> [Pixel -> Byte]]
      BY <1>9, ComputedIsGolden DEF Compute
  <2>2. out' \in Seq(Byte) /\ pc' = "command"
      BY <1>9, Bytes DEF Compute
  <2>3. UNCHANGED <<box, tx, dst, i, op, threshold>>
      BY <1>9 DEF Compute
  <2> QED BY <2>1, <2>2, <2>3
<1> QED BY <1>1, <1>2, <1>3, <1>4, <1>5, <1>6, <1>7, <1>8, <1>9 DEF Serve

LEMMA SendType ==
    ASSUME NEW s \in Sessions, NEW n \in 1 .. LastStep
    PROVE  /\ Script(s)[n].send \in Seq(Byte)
           /\ Script(s)[n].ack # None => n + 1 \in 1 .. LastStep
<1>1. Script(s) \in [1 .. LastStep -> Message]
    BY ScriptAt, LenProperties
<1>2. Script(s)[LastStep].ack = None
  <2>1. Script(s)[LastStep] = [send |-> <<32>>, ack |-> None]
      BY ScriptAt
  <2> QED BY <2>1
<1>3. LastStep \in Nat
    BY Geometry DEF LastStep
<1> QED BY <1>1, <1>2, <1>3 DEF Message

LEMMA OtherTypes ==
    ASSUME TypeOK, Start \/ HostStep \/ Killed \/ ToServer \/ ToHost \/ BoardReset
    PROVE  TypeOK'
<1> USE DEF TypeOK
<1>1. CASE Start
  <2>1. 1 \in 1 .. LastStep
      BY Geometry DEF LastStep
  <2>2. hq' \in Seq(Byte)
      BY <1>1, <2>1, SendType DEF Start
  <2> QED BY <1>1, <2>1, <2>2 DEF Start
<1>2. CASE Acknowledged
  <2>1. step' \in 1 .. LastStep /\ Script(session)[step + 1].send \in Seq(Byte)
      BY <1>2, SendType DEF Acknowledged, StepNow
  <2>2. hq' \in Seq(Byte) /\ inbox' \in Seq(Byte)
      BY <1>2, <2>1 DEF Acknowledged
  <2> QED BY <1>2, <2>1, <2>2 DEF Acknowledged, serverVars, historyVars
<1>3. CASE WrongAck \/ Result \/ Timeout
  <2>1. /\ UNCHANGED <<box, tx, pc, out, dst, i, op, threshold, ram>>
        /\ UNCHANGED <<session, step, hq>>
      BY <1>3 DEF WrongAck, Result, Timeout, serverVars
  <2>2. inbox' = <<>> /\ host' \in {"ok", "failed"}
      BY <1>3 DEF WrongAck, Result, Timeout
  <2> QED BY <2>1, <2>2
<1>4. CASE Killed
    BY <1>4 DEF Killed, serverVars
<1>5. CASE ToServer
    BY <1>5 DEF ToServer, Arrive, historyVars
<1>6. CASE ToHost
    BY <1>6 DEF ToHost, Sent, historyVars
<1>7. CASE BoardReset
  <2>1. threshold' \in Byte /\ out' \in Seq(Byte) /\ op' \in ServerOp
      BY <1>7, Bytes, ServerAssumption DEF BoardReset, Boot, Byte, ServerOp
  <2>2. ram' \in [{"A", "B", "X"} -> [Pixel -> Byte]]
      BY <1>7, ComputedIsGolden DEF BoardReset
  <2>3. box' = None /\ tx' = None /\ pc' = "command" /\ dst' = "A" /\ i' = 0
      BY <1>7 DEF BoardReset, Boot
  <2>4. hq # <<>> => Tail(hq) \in Seq(Byte)
      BY HeadTailProperties
  <2>5. hq' = hq \/ (hq # <<>> /\ hq' = Tail(hq))
      BY <1>7 DEF BoardReset
  <2>6. UNCHANGED <<host, session, step, inbox>>
      BY <1>7 DEF BoardReset
  <2> QED BY <2>1, <2>2, <2>3, <2>4, <2>5, <2>6
<1> QED BY <1>1, <1>2, <1>3, <1>4, <1>5, <1>6, <1>7 DEF HostStep

LEMMA TypeInit == Init => TypeOK
<1>1. 40 \in Byte /\ 0 \in Byte /\ 0 \in ServerOp
    BY ServerAssumption DEF Byte, ServerOp
<1>2. 1 \in 1 .. LastStep
    BY Geometry DEF LastStep
<1> QED BY <1>1, <1>2, Bytes DEF Init, TypeOK

LEMMA TypeStep == TypeOK /\ [Next]_vars => TypeOK'
<1>1. TypeOK /\ UNCHANGED vars => TypeOK'
    BY DEF TypeOK, vars, serverVars, hostVars, historyVars
<1> QED BY <1>1, ServerTypes, OtherTypes DEF Next

-----------------------------------------------------------------------------
(* The link moves bytes between its ends, and loses none while they come   *)
(* one message at a time.                                                  *)

OneWay ==
    /\ Incoming = <<>> \/ Outgoing = <<>>
    /\ pc = "compute" => Incoming = <<>>

LEMMA HeadAndTail ==
    ASSUME NEW s \in Seq(Byte), s # <<>>
    PROVE  /\ <<Head(s)>> \o Tail(s) = s
           /\ Head(s) \in Byte /\ Tail(s) \in Seq(Byte)
<1>1. /\ Len(s) \in Nat /\ 1 \in 1 .. Len(s) /\ Len(s) \in 1 .. Len(s)
    BY EmptySeq, LenProperties
<1>2. SubSeq(s, 1, Len(s)) = <<s[1]>> \o SubSeq(s, 2, Len(s))
    BY <1>1, SubSeqRecursiveFirst
<1>3. Head(s) = s[1]
    BY <1>1
<1> QED BY <1>2, <1>3, SubSeqFull, TailIsSubSeq, HeadTailProperties

LEMMA LinkStep ==
    ASSUME TypeOK, OneWay,
           \/ Putc /\ UNCHANGED <<hq, inbox>>
           \/ ToServer
           \/ ToHost /\ host = "running"
    PROVE  UNCHANGED <<Incoming, Outgoing>> /\ (lost' => lost)
<1>1. /\ Opt(box) \in Seq(Byte) /\ Opt(tx) \in Seq(Byte)
      /\ hq \in Seq(Byte) /\ inbox \in Seq(Byte) /\ out \in Seq(Byte)
    BY OptType DEF TypeOK
<1>2. CASE Putc /\ UNCHANGED <<hq, inbox>>
  <2>1. /\ out # <<>> /\ tx = None /\ tx' = Head(out) /\ out' = Tail(out)
        /\ UNCHANGED <<box, lost, hq, inbox>>
      BY <1>2 DEF Putc
  <2>2. /\ <<Head(out)>> \o Tail(out) = out
        /\ Head(out) \in Byte /\ Tail(out) \in Seq(Byte)
      BY <1>1, <2>1, HeadAndTail
  <2>3. Opt(tx) = <<>> /\ Opt(tx)' = <<Head(out)>>
      BY <2>1, <2>2, ServerAssumption DEF Opt
  <2>4. (inbox \o <<Head(out)>>) \o Tail(out) = inbox \o (<<Head(out)>> \o Tail(out))
    <3>1. <<Head(out)>> \in Seq(Byte)
        BY <2>2
    <3> QED BY <1>1, <2>2, <3>1, ConcatAssociative
  <2>5. inbox \o <<>> = inbox
      BY <1>1, ConcatEmptySeq
  <2>6. Outgoing = inbox \o out /\ Outgoing' = (inbox \o <<Head(out)>>) \o Tail(out)
      BY <2>1, <2>3, <2>5 DEF Outgoing
  <2>7. Incoming' = Incoming
      BY <2>1 DEF Incoming, Opt
  <2> QED BY <2>1, <2>2, <2>4, <2>6, <2>7
<1>3. CASE ToServer
  <2>1. /\ hq # <<>> /\ box' = Head(hq) /\ hq' = Tail(hq)
        /\ lost' = (lost \/ box # None)
        /\ box = None \/ Slow
        /\ UNCHANGED <<tx, out, inbox>>
      BY <1>3 DEF ToServer, Arrive
  <2>2. box = None
      BY <2>1, Directions DEF OneWay, Slow
  <2>3. /\ <<Head(hq)>> \o Tail(hq) = hq /\ Head(hq) \in Byte
      BY <1>1, <2>1, HeadAndTail
  <2>4. Opt(box) = <<>> /\ Opt(box)' = <<Head(hq)>>
      BY <2>1, <2>2, <2>3, ServerAssumption DEF Opt
  <2>5. Incoming = hq /\ Incoming' = <<Head(hq)>> \o Tail(hq)
      BY <1>1, <2>1, <2>4, ConcatEmptySeq DEF Incoming
  <2>6. Outgoing' = Outgoing
      BY <2>1 DEF Outgoing, Opt
  <2> QED BY <2>1, <2>2, <2>3, <2>5, <2>6
<1>4. CASE ToHost /\ host = "running"
  <2>1. /\ tx # None /\ tx' = None /\ inbox' = Append(inbox, tx)
        /\ UNCHANGED <<box, lost, out, hq>>
      BY <1>4 DEF ToHost, Sent
  <2>2. tx \in Byte
      BY <2>1 DEF TypeOK
  <2>3. Append(inbox, tx) = inbox \o <<tx>> /\ Append(inbox, tx) \in Seq(Byte)
      BY <1>1, <2>2
  <2>4. Opt(tx) = <<tx>> /\ Opt(tx)' = <<>>
      BY <2>1 DEF Opt
  <2>5. (inbox \o <<tx>>) \o <<>> = inbox \o <<tx>>
      BY <2>3, ConcatEmptySeq
  <2>6. Outgoing' = Outgoing
      BY <2>1, <2>3, <2>4, <2>5 DEF Outgoing
  <2>7. Incoming' = Incoming
      BY <2>1 DEF Incoming, Opt
  <2> QED BY <2>1, <2>6, <2>7
<1> QED BY <1>2, <1>3, <1>4

(* The server takes a byte: the first of the message it is asked with.     *)
LEMMA Taken ==
    ASSUME TypeOK, TypeOK', Getc, UNCHANGED <<hq, inbox>>, NEW m, Asked(m)
    PROVE  /\ m \in Seq(Byte) /\ m # <<>> /\ box = Head(m)
           /\ Incoming' = Tail(m) /\ Outgoing' = out'
<1>1. /\ out = <<>> /\ box # None /\ box' = None /\ UNCHANGED tx
    BY DEF Getc
<1>2. /\ box \in Byte /\ hq \in Seq(Byte) /\ tx = None /\ inbox = <<>>
      /\ m \in Seq(Byte) /\ m # <<>>
    BY <1>1, Directions DEF TypeOK, Asked
<1>3. m = <<box>> \o hq
    BY <1>1 DEF Asked, Incoming, Opt
<1>4. /\ Head(<<box>> \o hq) = box /\ Tail(<<box>> \o hq) = hq
  <2>1. /\ <<box>> \o hq \in Seq(Byte) /\ Len(<<box>> \o hq) = 1 + Len(hq)
        /\ (<<box>> \o hq)[1] = box
        /\ \A k \in 1 .. Len(hq) : (<<box>> \o hq)[1 + k] = hq[k]
    <3>1. <<box>> \in Seq(Byte) /\ Len(<<box>>) = 1 /\ <<box>>[1] = box
        BY <1>2
    <3>2. Len(hq) \in Nat /\ 1 \in Nat /\ 1 \in 1 .. 1
        BY <1>2
    <3> QED BY <1>2, <3>1, <3>2, ConcatParts
  <2>2. Len(hq) \in Nat
      BY <1>2
  <2>3. /\ Tail(<<box>> \o hq) \in Seq(Byte) /\ Len(Tail(<<box>> \o hq)) = Len(hq)
        /\ \A k \in 1 .. Len(hq) : Tail(<<box>> \o hq)[k] = (<<box>> \o hq)[k + 1]
    <3>1. <<box>> \o hq # <<>>
        BY <2>1, <2>2, EmptySeq
    <3> QED BY <2>1, <2>2, <3>1, HeadTailProperties
  <2>4. \A k \in 1 .. Len(hq) : Tail(<<box>> \o hq)[k] = hq[k]
      BY <2>1, <2>2, <2>3
  <2> QED BY <1>2, <2>1, <2>3, <2>4, SeqEqual
<1>5. Incoming' = hq
  <2>1. Opt(box)' = <<>> /\ hq' = hq
      BY <1>1 DEF Opt
  <2> QED BY <1>2, <2>1, ConcatEmptySeq DEF Incoming
<1>6. Outgoing' = out'
  <2>1. out' \in Seq(Byte) /\ <<>> \in Seq(Byte)
      BY DEF TypeOK
  <2>2. Outgoing' = (<<>> \o <<>>) \o out'
      BY <1>1, <1>2 DEF Outgoing, Opt
  <2> QED BY <2>1, <2>2, ConcatEmptySeq
<1> QED BY <1>2, <1>3, <1>4, <1>5, <1>6

-----------------------------------------------------------------------------
(* What holds in every phase.                                              *)
phase == <<Incoming, Outgoing, pc, dst, i, op, threshold, ram, step, session>>

LEMMA Stays ==
    ASSUME Running, UNCHANGED phase
    PROVE  Running'
<1> USE DEF phase, Asked, Answered, Loaded
<1> QED BY DEF Running, Uploading, Announced, BlockPhase, FramesLoaded,
               Threshold, Computation, Download

LEMMA SliceType ==
    ASSUME NEW f \in [0 .. Pixels - 1 -> Byte], NEW lo \in Nat, NEW hi \in Nat,
           lo <= hi, hi <= Pixels
    PROVE  /\ Slice(f, lo, hi) \in Seq(Byte) /\ Len(Slice(f, lo, hi)) = hi - lo
           /\ \A n \in 1 .. hi - lo : Slice(f, lo, hi)[n] = f[lo + n - 1]
<1>1. ASSUME NEW n \in 1 .. hi - lo PROVE f[lo + n - 1] \in Byte
  <2>1. lo + n - 1 \in 0 .. Pixels - 1
      BY ServerAssumption
  <2> QED BY <2>1
<1>2. hi - lo \in Nat
    OBVIOUS
<1>3. [n \in 1 .. hi - lo |-> f[lo + n - 1]] \in [1 .. hi - lo -> Byte]
    BY <1>1
<1>4. Slice(f, lo, hi) \in [1 .. hi - lo -> Byte]
    BY <1>3 DEF Slice
<1>5. Slice(f, lo, hi) \in Seq(Byte)
    BY <1>2, <1>4, SeqDef
<1>6. Len(Slice(f, lo, hi)) = hi - lo
    BY <1>2, <1>4, <1>5, LenProperties
<1> QED BY <1>5, <1>6 DEF Slice

LEMMA SliceParts ==
    ASSUME NEW f \in [0 .. Pixels - 1 -> Byte], NEW lo \in Nat, NEW hi \in Nat,
           lo < hi, hi <= Pixels
    PROVE  /\ Slice(f, lo, hi) \in Seq(Byte) /\ Slice(f, lo, hi) # <<>>
           /\ Head(Slice(f, lo, hi)) = f[lo]
           /\ Tail(Slice(f, lo, hi)) = Slice(f, lo + 1, hi)
<1>1. lo <= hi /\ lo + 1 \in Nat /\ lo + 1 <= hi
    OBVIOUS
<1>2. /\ Slice(f, lo, hi) \in Seq(Byte) /\ Len(Slice(f, lo, hi)) = hi - lo
      /\ \A n \in 1 .. hi - lo : Slice(f, lo, hi)[n] = f[lo + n - 1]
    BY <1>1, SliceType
<1>3. /\ Slice(f, lo + 1, hi) \in Seq(Byte)
      /\ Len(Slice(f, lo + 1, hi)) = hi - (lo + 1)
      /\ \A n \in 1 .. hi - (lo + 1) : Slice(f, lo + 1, hi)[n] = f[(lo + 1) + n - 1]
    BY <1>1, SliceType
<1>4. Slice(f, lo, hi) # <<>>
    BY <1>2, EmptySeq
<1>5. /\ Tail(Slice(f, lo, hi)) \in Seq(Byte)
      /\ Len(Tail(Slice(f, lo, hi))) = hi - lo - 1
      /\ \A n \in 1 .. hi - lo - 1 :
            Tail(Slice(f, lo, hi))[n] = Slice(f, lo, hi)[n + 1]
    BY <1>2, <1>4, HeadTailProperties
<1>6. ASSUME NEW n \in 1 .. hi - lo - 1
      PROVE  Tail(Slice(f, lo, hi))[n] = Slice(f, lo + 1, hi)[n]
  <2>1. /\ n \in 1 .. hi - (lo + 1) /\ n + 1 \in 1 .. hi - lo
        /\ lo + (n + 1) - 1 = (lo + 1) + n - 1
      OBVIOUS
  <2>2. Tail(Slice(f, lo, hi))[n] = f[lo + (n + 1) - 1]
      BY <1>2, <1>5, <2>1
  <2> QED BY <1>3, <2>1, <2>2
<1>7. Tail(Slice(f, lo, hi)) = Slice(f, lo + 1, hi)
  <2>1. hi - lo - 1 = hi - (lo + 1)
      OBVIOUS
  <2> QED BY <1>3, <1>5, <1>6, <2>1, SeqEqual
<1>8. Head(Slice(f, lo, hi)) = f[lo]
    BY <1>2, <1>4
<1> QED BY <1>2, <1>4, <1>7, <1>8

LEMMA ExpectedType ==
    ASSUME NEW s \in Sessions
    PROVE  Expected(s) \in Seq(Byte) /\ Len(Expected(s)) = Pixels
<1>1. ASSUME NEW n \in 1 .. Pixels
      PROVE  Golden(s.op, s.a[n - 1], s.b[n - 1], s.t) \in Byte
  <2>1. s.a[n - 1] \in Byte /\ s.b[n - 1] \in Byte /\ s.op \in ServerOp /\ s.t \in Byte
      BY SessionAssumption, ServerAssumption
  <2> QED BY <2>1, GoldenType
<1>2. Expected(s) \in [1 .. Pixels -> Byte]
    BY <1>1 DEF Expected
<1>3. Expected(s) \in Seq(Byte) /\ DOMAIN Expected(s) = 1 .. Pixels
    BY <1>2, SeqDef, ServerAssumption
<1> QED BY <1>3, LenProperties, ServerAssumption

(* Bytes of a piece are not an empty message.                              *)
LEMMA Multiples ==
    ASSUME NEW k \in 1 .. Blocks
    PROVE  /\ k \in Nat /\ (k - 1) * Block \in Nat /\ k * Block \in Nat
           /\ k * Block = (k - 1) * Block + Block
           /\ k * Block <= Pixels
           /\ k * Block = Pixels <=> k = Blocks
<1>1. Blocks \in Nat \ {0} /\ Blocks * Block = Pixels /\ Block \in Nat \ {0}
    BY Geometry, ServerAssumption
<1>2. k \in Nat /\ k >= 1 /\ k <= Blocks
    BY <1>1
<1>3. (k - 1) * Block \in Nat /\ k * Block \in Nat
    BY <1>1, <1>2
<1>4. k * Block = (k - 1) * Block + Block
    BY <1>1, <1>2
<1>5. k * Block <= Pixels
    BY <1>1, <1>2
<1>6. k # Blocks => k * Block # Pixels
    BY <1>1, <1>2
<1> QED BY <1>1, <1>2, <1>3, <1>4, <1>5, <1>6

LEMMA OneWayHolds == TypeOK /\ Running => OneWay
<1> USE DEF OneWay, Asked, Answered
<1>1. ASSUME NEW cmd, NEW d, NEW f, NEW first, Uploading(cmd, d, f, first)
      PROVE  OneWay
    BY <1>1, Geometry DEF Uploading, Announced, BlockPhase
<1> QED BY <1>1 DEF Running, Threshold, Computation, Download

LEMMA Remainder ==
    ASSUME NEW q \in Nat, NEW m \in Nat \ {0}, NEW r \in 0 .. m - 1,
           NEW n \in Nat, n = q * m + r
    PROVE  n % m = r
<1>1. /\ n % m \in 0 .. m - 1 /\ n \div m \in Nat
      /\ n = m * (n \div m) + (n % m)
    OBVIOUS
<1> DEFINE p == n \div m
           s == n % m
<1>2. p \in Nat /\ s \in 0 .. m - 1 /\ n = m * p + s
    BY <1>1
<1> HIDE DEF p, s
<1>3. m * p + s = m * q + r
    BY <1>2
<1>4. p < q => FALSE
  <2>1. SUFFICES ASSUME p < q PROVE FALSE
      OBVIOUS
  <2>2. PICK e \in Nat : q = p + 1 + e
      BY <1>2, <2>1
  <2>3. m * q = m * p + m + m * e /\ m * e \in Nat
      BY <1>2, <2>2
  <2> QED BY <1>2, <1>3, <2>3
<1>5. q < p => FALSE
  <2>1. SUFFICES ASSUME q < p PROVE FALSE
      OBVIOUS
  <2>2. PICK e \in Nat : p = q + 1 + e
      BY <1>2, <2>1
  <2>3. m * p = m * q + m + m * e /\ m * e \in Nat
      BY <1>2, <2>2
  <2> QED BY <1>2, <1>3, <2>3
<1>6. p = q
    BY <1>2, <1>4, <1>5
<1>7. s = r
    BY <1>2, <1>3, <1>6
<1> QED BY <1>7 DEF s

-----------------------------------------------------------------------------
(* Each step of the server that takes a byte or computes leads to the next *)
(* situation of its phase.                                                 *)
Acts == Server /\ ~Putc

LEMMA ActsOn ==
    ASSUME TypeOK, TypeOK', Acts, OneWay
    PROVE  /\ UNCHANGED <<hq, inbox, session, step>>
           /\ pc # "compute" => Getc /\ Outgoing = <<>> /\ Incoming # <<>>
           /\ pc = "compute" => Compute /\ Incoming' = Incoming
<1>1. UNCHANGED <<hq, inbox, session, step>>
    BY DEF Acts, Server, hostVars
<1>2. pc # "compute" => Getc
    BY DEF Acts, Server, Serve, CommandUpload, CommandCompute, CommandDownload,
           CommandThreshold, CommandUnknown, UploadPixel, SetThreshold, Compute
<1>3. pc = "compute" => Compute
    BY DEF Acts, Server, Serve, CommandUpload, CommandCompute, CommandDownload,
           CommandThreshold, CommandUnknown, UploadPixel, SetThreshold, Compute
<1>4. Getc => Outgoing = <<>> /\ Incoming # <<>>
    BY Directions DEF Getc, OneWay
<1>5. Compute => Incoming' = Incoming
    BY <1>1 DEF Compute, Incoming, Opt
<1> QED BY <1>1, <1>2, <1>3, <1>4, <1>5

LEMMA UploadBegins ==
    ASSUME TypeOK, TypeOK', Acts, OneWay,
           NEW d \in {"A", "B"}, NEW first, NEW cmd,
           cmd = IF d = "A" THEN 1 ELSE 2,
           Announced(cmd, d, first)
    PROVE  Announced(cmd, d, first)' /\ ram' = ram
<1>1. pc # "compute"
    BY DEF Announced
<1>2. Getc /\ Incoming # <<>> /\ UNCHANGED <<hq, inbox, step>>
    BY <1>1, ActsOn
<1>3. step = first /\ pc = "command" /\ Asked(<<cmd>>)
    BY <1>2 DEF Announced, Answered
<1>4. box = cmd /\ Incoming' = <<>> /\ Outgoing' = out'
  <2>1. box = Head(<<cmd>>) /\ Incoming' = Tail(<<cmd>>) /\ Outgoing' = out'
      BY <1>2, <1>3, Taken
  <2> QED BY <2>1
<1>5. CommandUpload
    BY <1>3, <1>4
       DEF Acts, Server, Serve, CommandCompute, CommandDownload,
           CommandThreshold, CommandUnknown, UploadPixel, SetThreshold, Compute
<1> QED BY <1>2, <1>3, <1>4, <1>5 DEF CommandUpload, Announced, Answered

LEMMA UploadGoesOn ==
    ASSUME TypeOK, TypeOK', Acts, OneWay,
           NEW d \in {"A", "B"}, NEW f \in [0 .. Pixels - 1 -> Byte],
           NEW first, NEW k \in 1 .. Blocks,
           BlockPhase(d, f, first, k)
    PROVE  BlockPhase(d, f, first, k)' /\ \A e \in {"A", "B"} : e # d => ram'[e] = ram[e]
<1>1. pc # "compute"
    BY DEF BlockPhase
<1>2. Getc /\ Incoming # <<>> /\ UNCHANGED <<hq, inbox, step>>
    BY <1>1, ActsOn
<1> DEFINE hi == k * Block
           lo == (k - 1) * Block
<1>3. /\ lo \in Nat /\ hi \in Nat /\ hi = lo + Block /\ hi <= Pixels
      /\ hi = Pixels <=> k = Blocks
    BY Multiples
<1>4. /\ step = first + k /\ dst = d /\ i \in lo .. hi /\ Loaded(d, f, i)
      /\ i < hi /\ pc = "upload" /\ Asked(Slice(f, i, hi))
    BY <1>2 DEF BlockPhase, Answered
<1> HIDE DEF hi, lo
<1>5. i \in Nat /\ i < Pixels /\ lo <= i
    BY <1>3, <1>4, ServerAssumption
<1>6. /\ Head(Slice(f, i, hi)) = f[i]
      /\ Tail(Slice(f, i, hi)) = Slice(f, i + 1, hi)
    BY <1>3, <1>4, <1>5, SliceParts
<1>7. box = f[i] /\ Incoming' = Slice(f, i + 1, hi) /\ Outgoing' = out'
  <2> DEFINE m == Slice(f, i, hi)
  <2>1. Asked(m)
      BY <1>4
  <2> HIDE DEF m
  <2>2. box = Head(m) /\ Incoming' = Tail(m) /\ Outgoing' = out'
      BY <1>2, <2>1, Taken
  <2> QED BY <1>6, <2>2 DEF m
<1>8. UploadPixel
    BY <1>4
       DEF Acts, Server, Serve, CommandUpload, CommandCompute, CommandDownload,
           CommandThreshold, CommandUnknown, SetThreshold, Compute
<1>9. ram' = [ram EXCEPT ![d][i] = f[i]] /\ i' = i + 1 /\ dst' = d
    BY <1>4, <1>7, <1>8 DEF UploadPixel
<1>10. \A j \in 0 .. i : ram'[d][j] = f[j]
  <2>1. i \in Pixel
      BY <1>4 DEF TypeOK
  <2>2. ram'[d] = [ram[d] EXCEPT ![i] = f[i]] /\ ram[d] \in [Pixel -> Byte]
      BY <1>9 DEF TypeOK
  <2>3. ASSUME NEW j \in 0 .. i PROVE ram'[d][j] = f[j]
    <3>1. j \in Pixel
        BY <1>5, ServerAssumption DEF Pixel
    <3>2. j # i => j \in 0 .. i - 1
        BY <1>5
    <3> QED BY <1>4, <2>1, <2>2, <3>1, <3>2 DEF Loaded
  <2> QED BY <2>3
<1>11. \A e \in {"A", "B"} : e # d => ram'[e] = ram[e]
    BY <1>9 DEF TypeOK
<1>12. BlockEnds <=> i = hi - 1
  <2>1. i - lo \in 0 .. Block - 1 /\ i = (k - 1) * Block + (i - lo)
      BY <1>3, <1>4, <1>5, ServerAssumption DEF lo
  <2>2. i % Block = i - lo
    <3> DEFINE q == k - 1
               r == i - lo
    <3>1. q \in Nat /\ Block \in Nat \ {0} /\ r \in 0 .. Block - 1
        BY <2>1, Multiples, ServerAssumption
    <3>2. i = q * Block + r
        BY <2>1
    <3> HIDE DEF q, r
    <3>3. i % Block = r
        BY <1>5, <3>1, <3>2, Remainder
    <3> QED BY <3>3 DEF r
  <2> QED BY <1>3, <1>4, <1>5, <2>1, <2>2, ServerAssumption DEF BlockEnds
<1>13. CASE i = hi - 1
  <2>1. out' = <<K>> /\ i' = hi
      BY <1>3, <1>8, <1>9, <1>12, <1>13 DEF UploadPixel
  <2>2. pc' = IF k = Blocks THEN "command" ELSE "upload"
      BY <1>3, <1>8, <1>13, ServerAssumption DEF UploadPixel
  <2>3. Incoming' = <<>>
      BY <1>3, <1>7, <1>13 DEF Slice
  <2>4. i' \in lo .. hi
      BY <1>3, <2>1, ServerAssumption
  <2>5. Loaded(d, f, i)'
      BY <1>5, <1>9, <1>10 DEF Loaded
  <2> QED BY <1>2, <1>4, <1>7, <1>9, <1>11, <2>1, <2>2, <2>3, <2>4, <2>5
             DEF BlockPhase, Answered, hi, lo
<1>14. CASE i # hi - 1
  <2>1. out' = <<>> /\ pc' = "upload"
      BY <1>3, <1>4, <1>5, <1>8, <1>12, <1>14, ServerAssumption
         DEF UploadPixel, BlockEnds
  <2>2. i' < hi /\ i' \in lo .. hi
      BY <1>3, <1>4, <1>5, <1>9, <1>14
  <2>3. Loaded(d, f, i)'
      BY <1>5, <1>9, <1>10 DEF Loaded
  <2>4. Asked(Slice(f, i, hi))'
      BY <1>7, <1>9, <2>1 DEF Asked, Slice, hi
  <2> QED BY <1>2, <1>4, <1>9, <1>11, <2>1, <2>2, <2>3, <2>4
             DEF BlockPhase, hi, lo
<1> QED BY <1>13, <1>14


LEMMA ThresholdActs ==
    ASSUME TypeOK, TypeOK', Acts, OneWay, Threshold
    PROVE  Threshold' /\ ram' = ram
<1>1. pc # "compute"
    BY DEF Threshold
<1>2. Getc /\ Incoming # <<>> /\ UNCHANGED <<hq, inbox, session, step>>
    BY <1>1, ActsOn
<1>3. CASE pc = "command"
  <2>1. step = LastStep - 2 /\ Asked(<<48, session.t>>)
      BY <1>2, <1>3 DEF Threshold, Answered
  <2>2. /\ box = Head(<<48, session.t>>) /\ Incoming' = Tail(<<48, session.t>>)
        /\ Outgoing' = out'
      BY <1>2, <2>1, Taken
  <2>3. box = 48 /\ Incoming' = <<session.t>>
      BY <2>2
  <2>4. CommandThreshold
      BY <1>3, <2>3
         DEF Acts, Server, Serve, CommandUpload, CommandCompute,
             CommandDownload, CommandUnknown, UploadPixel, SetThreshold,
             Compute
  <2>5. out' = <<>> /\ pc' = "threshold" /\ ram' = ram
      BY <2>4 DEF CommandThreshold, Getc
  <2> QED BY <1>2, <2>1, <2>2, <2>3, <2>5 DEF Threshold, Asked
<1>4. CASE pc = "threshold"
  <2>1. step = LastStep - 2 /\ Asked(<<session.t>>)
      BY <1>2, <1>4 DEF Threshold, Answered
  <2>2. /\ box = Head(<<session.t>>) /\ Incoming' = Tail(<<session.t>>)
        /\ Outgoing' = out'
      BY <1>2, <2>1, Taken
  <2>3. box = session.t /\ Incoming' = <<>>
      BY <2>2
  <2>4. SetThreshold
      BY <1>4
         DEF Acts, Server, Serve, CommandUpload, CommandCompute,
             CommandDownload, CommandThreshold, CommandUnknown, UploadPixel,
             Compute
  <2>5. out' = <<K>> /\ pc' = "command" /\ ram' = ram /\ threshold' = session.t
      BY <2>3, <2>4 DEF SetThreshold
  <2> QED BY <1>2, <2>1, <2>2, <2>3, <2>5 DEF Threshold, Answered
<1> QED BY <1>3, <1>4 DEF Threshold

LEMMA ComputationActs ==
    ASSUME TypeOK, TypeOK', Acts, OneWay, FramesLoaded, Computation
    PROVE  /\ Computation'
           /\ ram'.A = ram.A /\ ram'.B = ram.B
<1>1. UNCHANGED <<hq, inbox, session, step>> /\ step = LastStep - 1
    BY ActsOn DEF Computation
<1>2. CASE pc = "command"
  <2>1. Getc /\ Incoming # <<>>
      BY <1>2, ActsOn
  <2>2. Asked(<<16 + session.op>>) /\ threshold = session.t
      BY <1>2, <2>1 DEF Computation, Answered
  <2>3. /\ box = Head(<<16 + session.op>>) /\ Incoming' = Tail(<<16 + session.op>>)
        /\ Outgoing' = out'
      BY <1>1, <2>1, <2>2, Taken
  <2>4. box = 16 + session.op /\ Incoming' = <<>>
      BY <2>3
  <2>5. session.op \in 0 .. 5
      BY SessionAssumption DEF TypeOK, ServerOp
  <2>6. CommandCompute
      BY <1>2, <2>4, <2>5
         DEF Acts, Server, Serve, CommandUpload, CommandThreshold,
             CommandDownload, CommandUnknown, UploadPixel, SetThreshold,
             Compute
  <2>7. /\ out' = <<>> /\ pc' = "compute" /\ ram' = ram /\ op' = session.op
        /\ threshold' = threshold
      BY <2>4, <2>5, <2>6 DEF CommandCompute, Getc
  <2> QED BY <1>1, <2>2, <2>3, <2>4, <2>7 DEF Computation, Asked
<1>3. CASE pc = "compute"
  <2>1. Compute /\ Incoming' = Incoming
      BY <1>3, ActsOn
  <2>2. op = session.op /\ threshold = session.t /\ Asked(<<>>)
      BY <1>3 DEF Computation
  <2>3. inbox = <<>> /\ tx = None
      BY <2>2, Directions DEF Asked
  <2>4. /\ out' = <<K>> /\ tx' = tx /\ pc' = "command"
        /\ ram' = [ram EXCEPT !.X = Computed]
      BY <2>1 DEF Compute
  <2>5. Outgoing' = <<K>>
    <3>1. Outgoing' = (<<>> \o <<>>) \o <<K>>
        BY <1>1, <2>3, <2>4 DEF Outgoing, Opt
    <3>2. <<K>> \in Seq(Byte) /\ <<>> \in Seq(Byte)
        BY <2>4 DEF TypeOK
    <3> QED BY <3>1, <3>2, ConcatEmptySeq
  <2>6. ASSUME NEW n \in Pixel PROVE ram'.X[n] = Expected(session)[n + 1]
    <3>1. ram'.X[n] = Golden(op, ram.A[n], ram.B[n], threshold)
        BY <2>4, ComputedIsGolden DEF TypeOK
    <3>2. ram.A[n] = session.a[n] /\ ram.B[n] = session.b[n]
        BY DEF FramesLoaded, Loaded, Pixel
    <3>3. n + 1 \in 1 .. Pixels /\ (n + 1) - 1 = n
        BY ServerAssumption DEF Pixel
    <3>4. Expected(session)[n + 1]
            = Golden(session.op, session.a[n], session.b[n], session.t)
        BY <3>3 DEF Expected
    <3> QED BY <2>2, <3>1, <3>2, <3>4
  <2>7. ram'.A = ram.A /\ ram'.B = ram.B
      BY <2>4 DEF TypeOK
  <2> QED BY <1>1, <2>1, <2>2, <2>4, <2>5, <2>6, <2>7
             DEF Computation, Answered, Asked
<1> QED BY <1>2, <1>3 DEF Computation

LEMMA DownloadActs ==
    ASSUME TypeOK, TypeOK', Acts, OneWay, Download
    PROVE  Download'
<1>1. pc # "compute"
    BY DEF Download
<1>2. Getc /\ Incoming # <<>> /\ UNCHANGED <<hq, inbox, session, step>>
    BY <1>1, ActsOn
<1>3. /\ step = LastStep /\ pc = "command" /\ Asked(<<32>>)
      /\ \A n \in Pixel : ram.X[n] = Expected(session)[n + 1]
    BY <1>2 DEF Download, Answered
<1>4. /\ box = Head(<<32>>) /\ Incoming' = Tail(<<32>>) /\ Outgoing' = out'
    BY <1>2, <1>3, Taken
<1>5. box = 32 /\ Incoming' = <<>>
    BY <1>4
<1>6. CommandDownload
    BY <1>3, <1>5
       DEF Acts, Server, Serve, CommandUpload, CommandCompute,
           CommandThreshold, CommandUnknown, UploadPixel, SetThreshold, Compute
<1>7. out' = [n \in 1 .. Pixels |-> ram.X[n - 1]] /\ pc' = pc
    BY <1>6 DEF CommandDownload
<1>8. out' = Expected(session)
  <2>1. ASSUME NEW n \in 1 .. Pixels PROVE ram.X[n - 1] = Expected(session)[n]
    <3>1. n - 1 \in Pixel /\ (n - 1) + 1 = n
        BY ServerAssumption DEF Pixel
    <3> QED BY <1>3, <3>1
  <2>2. Expected(session) = [n \in 1 .. Pixels |-> Expected(session)[n]]
      BY DEF Expected
  <2> QED BY <1>7, <2>1, <2>2
<1> QED BY <1>2, <1>3, <1>4, <1>5, <1>7, <1>8 DEF Download, Answered

LEMMA ServerStep ==
    ASSUME TypeOK, TypeOK', Running, Server
    PROVE  Running' /\ (lost' => lost)
<1>1. OneWay
    BY OneWayHolds
<1>2. UNCHANGED <<host, session, step, hq, inbox>>
    BY DEF Server, hostVars
<1>3. CASE Putc
  <2>1. UNCHANGED <<Incoming, Outgoing>> /\ (lost' => lost)
      BY <1>1, <1>2, <1>3, LinkStep
  <2> QED BY <1>2, <1>3, <2>1, Stays DEF phase, Putc
<1>4. CASE Acts
  <2>1. session.a \in [0 .. Pixels - 1 -> Byte] /\ session.b \in [0 .. Pixels - 1 -> Byte]
      BY SessionAssumption DEF TypeOK
  <2>2. lost' => lost
      BY <1>4
         DEF Acts, Server, Serve, CommandUpload, CommandCompute,
             CommandDownload, CommandThreshold, CommandUnknown, UploadPixel,
             SetThreshold, Compute, Getc
  <2>3. CASE Announced(1, "A", 1)
      BY <1>1, <1>2, <1>4, <2>2, <2>3, UploadBegins DEF Running, Uploading
  <2>4. CASE \E k \in 1 .. Blocks : BlockPhase("A", session.a, 1, k)
    <3>1. PICK k \in 1 .. Blocks : BlockPhase("A", session.a, 1, k)
        BY <2>4
    <3>2. BlockPhase("A", session.a, 1, k)'
        BY <1>1, <1>2, <1>4, <2>1, <3>1, UploadGoesOn
    <3> QED BY <2>2, <3>2 DEF Running, Uploading
  <2>5. ASSUME Loaded("A", session.a, Pixels), Announced(2, "B", Blocks + 2)
        PROVE  Running'
      BY <1>1, <1>2, <1>4, <2>5, UploadBegins DEF Running, Uploading, Loaded
  <2>6. ASSUME Loaded("A", session.a, Pixels),
               NEW k \in 1 .. Blocks, BlockPhase("B", session.b, Blocks + 2, k)
        PROVE  Running'
    <3>1. BlockPhase("B", session.b, Blocks + 2, k)' /\ ram'["A"] = ram["A"]
        BY <1>1, <1>2, <1>4, <2>1, <2>6, UploadGoesOn
    <3>2. Loaded("A", session.a, Pixels)'
        BY <1>2, <2>6, <3>1 DEF Loaded
    <3> QED BY <3>1, <3>2 DEF Running, Uploading
  <2>7. CASE FramesLoaded /\ Threshold
      BY <1>1, <1>2, <1>4, <2>2, <2>7, ThresholdActs
         DEF Running, FramesLoaded, Loaded
  <2>8. CASE FramesLoaded /\ Computation
    <3>1. Computation' /\ ram'.A = ram.A /\ ram'.B = ram.B
        BY <1>1, <1>4, <2>8, ComputationActs
    <3>2. FramesLoaded'
        BY <1>2, <2>8, <3>1 DEF FramesLoaded, Loaded
    <3> QED BY <2>2, <3>1, <3>2 DEF Running
  <2>9. CASE Download
      BY <1>1, <1>4, <2>2, <2>9, DownloadActs DEF Running
  <2> QED BY <2>2, <2>3, <2>4, <2>5, <2>6, <2>7, <2>8, <2>9
             DEF Running, Uploading
<1> QED BY <1>3, <1>4 DEF Acts

-----------------------------------------------------------------------------
(* The host finds the answer it wants, and somebody always has to act.     *)
Expecting ==
    /\ StepNow.ack = None <=> step = LastStep
    /\ \/ Outgoing = <<>>
       \/ step # LastStep /\ Outgoing = <<StepNow.ack>>
       \/ step = LastStep /\ Outgoing = Expected(session)
    /\ Incoming = <<>> /\ Outgoing = <<>> => pc = "compute"
    /\ step = LastStep => pc = "command"

LEMMA HostExpects == TypeOK /\ Running => Expecting
<1> SUFFICES ASSUME TypeOK, Running PROVE Expecting
    OBVIOUS
<1>1. session \in Sessions
    BY DEF TypeOK
<1>2. Blocks \in Nat \ {0} /\ LastStep = 2 * Blocks + 5
    BY Geometry DEF LastStep
<1>3. R # None /\ K # None
    BY Bytes, ServerAssumption
<1>4. CASE Download
  <2>1. Script(session)[LastStep] = [send |-> <<32>>, ack |-> None]
      BY <1>1, ScriptAt
  <2>2. StepNow.ack = None /\ step = LastStep /\ pc = "command"
      BY <1>4, <2>1 DEF StepNow, Download
  <2>3. <<32>> # <<>> /\ Expected(session) # <<>>
      BY <1>1, ExpectedType, EmptySeq, ServerAssumption
  <2> QED BY <1>4, <2>2, <2>3 DEF Download, Expecting, Asked, Answered
<1>5. CASE Threshold \/ Computation
  <2>1. /\ Script(session)[LastStep - 2] = [send |-> <<48, session.t>>, ack |-> K]
        /\ Script(session)[LastStep - 1] = [send |-> <<16 + session.op>>, ack |-> K]
      BY <1>1, ScriptAt
  <2>2. step # LastStep /\ StepNow.ack = K
      BY <1>2, <1>5, <2>1 DEF StepNow, Threshold, Computation
  <2> QED BY <1>3, <1>5, <2>2
             DEF Threshold, Computation, Expecting, Asked, Answered
<1>6. ASSUME NEW d \in {"A", "B"}, NEW f, NEW first \in {1, Blocks + 2}, NEW cmd,
             f \in [0 .. Pixels - 1 -> Byte],
             Script(session)[first].ack = R,
             \A k \in 1 .. Blocks : Script(session)[first + k].ack = K,
             Uploading(cmd, d, f, first)
      PROVE  Expecting
  <2>1. CASE Announced(cmd, d, first)
    <3>1. step = first /\ StepNow.ack = R /\ step # LastStep
        BY <1>2, <1>6, <2>1 DEF Announced, StepNow
    <3>2. <<cmd>> # <<>> /\ <<R>> # <<>>
        OBVIOUS
    <3> QED BY <1>3, <2>1, <3>1, <3>2 DEF Announced, Expecting, Asked, Answered
  <2>2. ASSUME NEW k \in 1 .. Blocks, BlockPhase(d, f, first, k)
        PROVE  Expecting
    <3>1. step = first + k /\ StepNow.ack = K
        BY <1>6, <2>2 DEF BlockPhase, StepNow
    <3>2. step # LastStep
        BY <1>2, <1>6, <3>1
    <3>3. i < k * Block => Slice(f, i, k * Block) # <<>>
      <4>1. i \in Nat /\ k * Block \in Nat /\ k * Block <= Pixels
          BY Multiples DEF TypeOK
      <4> QED BY <1>6, <4>1, SliceParts
    <3> QED BY <1>3, <2>2, <3>1, <3>2, <3>3
               DEF BlockPhase, Expecting, Asked, Answered
  <2> QED BY <1>6, <2>1, <2>2 DEF Uploading
<1>7. CASE Uploading(1, "A", session.a, 1)
  <2>1. Script(session)[1].ack = R
    <3>1. Script(session)[1] = [send |-> <<1>>, ack |-> R]
        BY <1>1, ScriptAt
    <3> QED BY <3>1
  <2>3. ASSUME NEW k \in 1 .. Blocks PROVE Script(session)[1 + k].ack = K
    <3>1. Script(session)[1 + k]
            = [send |-> Slice(session.a, (k - 1) * Block, k * Block), ack |-> K]
        BY <1>1, ScriptAt
    <3> QED BY <3>1
  <2>2. session.a \in [0 .. Pixels - 1 -> Byte]
      BY <1>1, SessionAssumption
  <2> QED BY <1>6, <1>7, <2>1, <2>2, <2>3
<1>8. CASE Uploading(2, "B", session.b, Blocks + 2)
  <2>1. Script(session)[Blocks + 2].ack = R
    <3>1. Script(session)[Blocks + 2] = [send |-> <<2>>, ack |-> R]
        BY <1>1, ScriptAt
    <3> QED BY <3>1
  <2>3. ASSUME NEW k \in 1 .. Blocks PROVE Script(session)[Blocks + 2 + k].ack = K
    <3>1. Script(session)[Blocks + 2 + k]
            = [send |-> Slice(session.b, (k - 1) * Block, k * Block), ack |-> K]
        BY <1>1, ScriptAt
    <3> QED BY <3>1
  <2>2. session.b \in [0 .. Pixels - 1 -> Byte]
      BY <1>1, SessionAssumption
  <2> QED BY <1>6, <1>8, <2>1, <2>2, <2>3
<1> QED BY <1>4, <1>5, <1>7, <1>8 DEF Running

(* After an acknowledgement the line is free for the next message.         *)
LEMMA LineFree ==
    ASSUME TypeOK, TypeOK', Running, Acknowledged
    PROVE  /\ step # LastStep /\ Outgoing = <<StepNow.ack>> /\ Incoming = <<>>
           /\ Incoming' = Script(session)[step + 1].send /\ Outgoing' = <<>>
           /\ UNCHANGED <<pc, dst, i, op, threshold, ram, session>>
           /\ step' = step + 1
<1>1. Expecting /\ OneWay
    BY HostExpects, OneWayHolds
<1>2. inbox # <<>> /\ StepNow.ack # None /\ inbox' = Tail(inbox)
    BY DEF Acknowledged
<1>3. Outgoing # <<>>
    BY <1>2, Directions
<1>4. step # LastStep /\ Outgoing = <<StepNow.ack>> /\ Incoming = <<>>
    BY <1>1, <1>2, <1>3 DEF Expecting, OneWay
<1>5. hq = <<>> /\ box = None
    BY <1>4, Directions
<1>6. /\ inbox \in Seq(Byte) /\ Opt(tx) \in Seq(Byte) /\ out \in Seq(Byte)
    BY OptType DEF TypeOK
<1>7. /\ inbox \o Opt(tx) \in Seq(Byte)
      /\ Len(inbox \o Opt(tx)) = Len(inbox) + Len(Opt(tx))
    BY <1>6, ConcatProperties
<1>8. Len(Outgoing) = Len(inbox) + Len(Opt(tx)) + Len(out)
    BY <1>6, <1>7, ConcatProperties DEF Outgoing
<1>9. /\ Len(inbox) \in Nat \ {0} /\ Len(Opt(tx)) \in Nat /\ Len(out) \in Nat
      /\ Len(Outgoing) = 1
    BY <1>2, <1>4, <1>6, EmptySeq, LenProperties
<1>10. Len(inbox) = 1 /\ Len(Opt(tx)) = 0 /\ Len(out) = 0
  <2> DEFINE x == Len(inbox)
             y == Len(Opt(tx))
             z == Len(out)
  <2>1. x \in Nat \ {0} /\ y \in Nat /\ z \in Nat /\ x + y + z = 1
      BY <1>8, <1>9
  <2> HIDE DEF x, y, z
  <2>2. x = 1 /\ y = 0 /\ z = 0
      BY <2>1
  <2> QED BY <2>2 DEF x, y, z
<1>11. Opt(tx) = <<>> /\ out = <<>> /\ tx = None
    BY <1>6, <1>10, EmptySeq, OptType DEF TypeOK
<1>12. inbox' = <<>>
  <2>1. Tail(inbox) \in Seq(Byte) /\ Len(Tail(inbox)) = 0
      BY <1>2, <1>6, <1>10, HeadTailProperties
  <2> QED BY <1>2, <2>1, EmptySeq
<1>13. /\ UNCHANGED <<box, tx, pc, out, dst, i, op, threshold, ram, session>>
       /\ step' = step + 1 /\ hq' = hq \o Script(session)[step + 1].send
    BY DEF Acknowledged, serverVars
<1>14. Outgoing' = <<>>
  <2>1. inbox' = <<>> /\ tx' = None /\ out' = <<>>
      BY <1>11, <1>12, <1>13
  <2> QED BY <2>1, ConcatEmptySeq, EmptySeq DEF Outgoing, Opt
<1>15. Incoming' = Script(session)[step + 1].send
  <2>1. Script(session)[step + 1].send \in Seq(Byte)
      BY <1>2, SendType DEF TypeOK, StepNow
  <2>2. hq' = Script(session)[step + 1].send
      BY <1>5, <1>13, <2>1, ConcatEmptySeq
  <2>3. Incoming' = <<>> \o hq'
      BY <1>5, <1>13 DEF Incoming, Opt
  <2> QED BY <2>1, <2>2, <2>3, ConcatEmptySeq
<1> QED BY <1>4, <1>13, <1>14, <1>15

LEMMA AcknowledgedStep ==
    ASSUME TypeOK, TypeOK', Running, Acknowledged
    PROVE  Running'
<1>1. /\ step # LastStep /\ Outgoing = <<StepNow.ack>> /\ Incoming = <<>>
      /\ Incoming' = Script(session)[step + 1].send /\ Outgoing' = <<>>
      /\ UNCHANGED <<pc, dst, i, op, threshold, ram, session>>
      /\ step' = step + 1
    BY LineFree
<1>2. Blocks \in Nat \ {0} /\ LastStep = 2 * Blocks + 5 /\ session \in Sessions
    BY Geometry DEF LastStep, TypeOK
<1>4. ASSUME NEW d \in {"A", "B"}, NEW f, NEW first \in {1, Blocks + 2}, NEW cmd,
             Announced(cmd, d, first),
             \A k \in 1 .. Blocks :
                Script(session)[first + k].send = Slice(f, (k - 1) * Block, k * Block)
      PROVE  \E k \in 1 .. Blocks : BlockPhase(d, f, first, k)'
  <2>1. step = first /\ pc = "upload" /\ dst = d /\ i = 0
    <3>1. <<cmd>> # <<>>
        OBVIOUS
    <3> QED BY <1>1, <1>4, <3>1 DEF Announced, Asked
  <2>2. 1 \in 1 .. Blocks /\ (1 - 1) * Block = 0 /\ 1 * Block = Block /\ Block \in Nat \ {0}
      BY <1>2, ServerAssumption
  <2>3. Script(session)[first + 1].send = Slice(f, 0, Block)
      BY <1>4, <2>2
  <2>4. Asked(Slice(f, 0, Block))'
      BY <1>1, <2>1, <2>3 DEF Asked, Slice
  <2>5. BlockPhase(d, f, first, 1)'
      BY <1>1, <2>1, <2>2, <2>4 DEF BlockPhase, Loaded, Asked, Slice
  <2> QED BY <2>2, <2>5
<1>5. ASSUME NEW d \in {"A", "B"}, NEW f, NEW first \in {1, Blocks + 2},
             NEW k \in 1 .. Blocks, BlockPhase(d, f, first, k),
             f \in [0 .. Pixels - 1 -> Byte],
             \A n \in 1 .. Blocks :
                Script(session)[first + n].send = Slice(f, (n - 1) * Block, n * Block)
      PROVE  \/ \E n \in 1 .. Blocks : BlockPhase(d, f, first, n)'
             \/ /\ step' = first + Blocks + 1 /\ pc' = "command"
                /\ Loaded(d, f, Pixels)'
  <2>1. /\ k \in Nat /\ k * Block \in Nat /\ k * Block <= Pixels
        /\ (k - 1) * Block \in Nat
        /\ k * Block = Pixels <=> k = Blocks
      BY Multiples
  <2>2. i < k * Block => Slice(f, i, k * Block) # <<>>
    <3>1. i \in Nat
        BY DEF TypeOK
    <3> QED BY <1>5, <2>1, <3>1, SliceParts
  <2>3. /\ step = first + k /\ dst = d /\ Loaded(d, f, i) /\ i = k * Block
        /\ pc = IF k = Blocks THEN "command" ELSE "upload"
      BY <1>1, <1>5, <2>2 DEF BlockPhase, Asked
  <2>4. CASE k = Blocks
    <3>1. Loaded(d, f, Pixels)'
        BY <1>1, <2>1, <2>3, <2>4 DEF Loaded
    <3> QED BY <1>1, <1>2, <2>3, <2>4, <3>1
  <2>5. CASE k # Blocks
    <3>1. k + 1 \in 1 .. Blocks
        BY <1>2, <2>1, <2>5
    <3>2. /\ ((k + 1) - 1) * Block = k * Block
          /\ k * Block < (k + 1) * Block
          /\ (k + 1) * Block \in Nat /\ (k + 1) * Block <= Pixels
      <4>1. /\ (k + 1) * Block = ((k + 1) - 1) * Block + Block
            /\ (k + 1) * Block \in Nat /\ (k + 1) * Block <= Pixels
          BY <3>1, Multiples
      <4>2. (k + 1) - 1 = k /\ Block \in Nat \ {0}
          BY <2>1, ServerAssumption
      <4> QED BY <2>1, <4>1, <4>2
    <3> DEFINE lo == k * Block
               hi == (k + 1) * Block
    <3>3. /\ first + (k + 1) = step + 1
          /\ Script(session)[first + (k + 1)].send = Slice(f, lo, hi)
      <4>1. Script(session)[first + (k + 1)].send
                = Slice(f, ((k + 1) - 1) * Block, (k + 1) * Block)
          BY <1>5, <3>1
      <4> QED BY <1>2, <2>1, <2>3, <3>2, <4>1
    <3>4. lo \in Nat /\ hi \in Nat /\ lo < hi /\ i = lo /\ ((k + 1) - 1) * Block = lo
        BY <2>1, <2>3, <3>2
    <3> HIDE DEF lo
    <3>5. Asked(Slice(f, lo, hi))'
        BY <1>1, <3>3 DEF Asked, Slice, lo
    <3>6. step' = first + (k + 1) /\ i' = lo /\ pc' = "upload" /\ dst' = d
        BY <1>1, <2>3, <2>5, <3>3, <3>4
    <3>7. Loaded(d, f, i)'
        BY <1>1, <2>3 DEF Loaded
    <3>8. Asked(Slice(f, i, (k + 1) * Block))'
        BY <3>5, <3>6 DEF Asked, Slice, lo
    <3>9. i' \in ((k + 1) - 1) * Block .. (k + 1) * Block
        BY <3>4, <3>6
    <3>10. BlockPhase(d, f, first, k + 1)'
        BY <3>4, <3>6, <3>7, <3>8, <3>9 DEF BlockPhase
    <3> QED BY <3>1, <3>10
  <2> QED BY <2>4, <2>5
<1>6. ASSUME Uploading(1, "A", session.a, 1)
      PROVE  Running'
  <2>1. session.a \in [0 .. Pixels - 1 -> Byte]
      BY <1>2, SessionAssumption
  <2>2. ASSUME NEW k \in 1 .. Blocks
        PROVE  Script(session)[1 + k].send
                = Slice(session.a, (k - 1) * Block, k * Block)
    <3>1. Script(session)[1 + k]
            = [send |-> Slice(session.a, (k - 1) * Block, k * Block), ack |-> K]
        BY <1>2, ScriptAt
    <3> QED BY <3>1
  <2>3. \/ \E n \in 1 .. Blocks : BlockPhase("A", session.a, 1, n)'
        \/ /\ step' = 1 + Blocks + 1 /\ pc' = "command"
           /\ Loaded("A", session.a, Pixels)'
    <3>1. CASE Announced(1, "A", 1)
        BY <1>1, <1>2, <1>4, <2>2, <3>1
    <3>2. CASE \E k \in 1 .. Blocks : BlockPhase("A", session.a, 1, k)
      <4>1. PICK k \in 1 .. Blocks : BlockPhase("A", session.a, 1, k)
          BY <3>2
      <4> QED BY <1>1, <1>5, <2>1, <2>2, <4>1
    <3> QED BY <1>6, <3>1, <3>2 DEF Uploading
  <2>4. CASE \E n \in 1 .. Blocks : BlockPhase("A", session.a, 1, n)'
      BY <1>1, <2>4 DEF Running, Uploading
  <2>5. CASE step' = 1 + Blocks + 1 /\ pc' = "command"
                /\ Loaded("A", session.a, Pixels)'
    <3>1. Script(session)[Blocks + 2] = [send |-> <<2>>, ack |-> R]
        BY <1>2, ScriptAt
    <3>2. step + 1 = Blocks + 2 /\ step' = Blocks + 2
        BY <1>1, <1>2, <2>5
    <3>3. Asked(<<2>>)'
        BY <1>1, <3>1, <3>2 DEF Asked
    <3> QED BY <2>5, <3>2, <3>3 DEF Running, Uploading, Announced
  <2> QED BY <2>3, <2>4, <2>5
<1>7. ASSUME Loaded("A", session.a, Pixels),
             Uploading(2, "B", session.b, Blocks + 2)
      PROVE  Running'
  <2>1. session.b \in [0 .. Pixels - 1 -> Byte]
      BY <1>2, SessionAssumption
  <2>2. ASSUME NEW k \in 1 .. Blocks
        PROVE  Script(session)[Blocks + 2 + k].send
                = Slice(session.b, (k - 1) * Block, k * Block)
    <3>1. Script(session)[Blocks + 2 + k]
            = [send |-> Slice(session.b, (k - 1) * Block, k * Block), ack |-> K]
        BY <1>2, ScriptAt
    <3> QED BY <3>1
  <2>3. \/ \E n \in 1 .. Blocks : BlockPhase("B", session.b, Blocks + 2, n)'
        \/ /\ step' = Blocks + 2 + Blocks + 1 /\ pc' = "command"
           /\ Loaded("B", session.b, Pixels)'
    <3>1. CASE Announced(2, "B", Blocks + 2)
        BY <1>1, <1>2, <1>4, <2>2, <3>1
    <3>2. CASE \E k \in 1 .. Blocks : BlockPhase("B", session.b, Blocks + 2, k)
      <4>1. PICK k \in 1 .. Blocks : BlockPhase("B", session.b, Blocks + 2, k)
          BY <3>2
      <4> QED BY <1>1, <1>5, <2>1, <2>2, <4>1
    <3> QED BY <1>7, <3>1, <3>2 DEF Uploading
  <2>4. Loaded("A", session.a, Pixels)'
      BY <1>1, <1>7 DEF Loaded
  <2>5. CASE \E n \in 1 .. Blocks : BlockPhase("B", session.b, Blocks + 2, n)'
      BY <1>1, <2>4, <2>5 DEF Running, Uploading
  <2>6. CASE step' = Blocks + 2 + Blocks + 1 /\ pc' = "command"
                /\ Loaded("B", session.b, Pixels)'
    <3>1. Script(session)[LastStep - 2] = [send |-> <<48, session.t>>, ack |-> K]
        BY <1>2, ScriptAt
    <3>2. step + 1 = LastStep - 2 /\ step' = LastStep - 2
        BY <1>1, <1>2, <2>6
    <3>3. Asked(<<48, session.t>>)'
        BY <1>1, <3>1, <3>2 DEF Asked
    <3> QED BY <2>4, <2>6, <3>2, <3>3 DEF Running, FramesLoaded, Threshold
  <2> QED BY <2>3, <2>5, <2>6
<1>8. ASSUME FramesLoaded, Threshold
      PROVE  Running'
  <2>1. step = LastStep - 2 /\ pc = "command" /\ threshold = session.t
    <3>1. <<48, session.t>> # <<>> /\ <<session.t>> # <<>>
        OBVIOUS
    <3> QED BY <1>1, <1>8, <3>1 DEF Threshold, Asked
  <2>2. Script(session)[LastStep - 1] = [send |-> <<16 + session.op>>, ack |-> K]
      BY <1>2, ScriptAt
  <2>3. step + 1 = LastStep - 1 /\ step' = LastStep - 1
      BY <1>1, <1>2, <2>1
  <2>4. Asked(<<16 + session.op>>)'
      BY <1>1, <2>2, <2>3 DEF Asked
  <2>5. FramesLoaded'
      BY <1>1, <1>8 DEF FramesLoaded, Loaded
  <2> QED BY <1>1, <2>1, <2>3, <2>4, <2>5 DEF Running, Computation
<1>9. ASSUME Computation
      PROVE  Running'
  <2>1. /\ step = LastStep - 1 /\ pc = "command"
        /\ \A n \in Pixel : ram.X[n] = Expected(session)[n + 1]
    <3>1. <<16 + session.op>> # <<>> /\ Outgoing # <<>>
        BY <1>1
    <3> QED BY <1>9, <3>1 DEF Computation, Asked
  <2>2. Script(session)[LastStep] = [send |-> <<32>>, ack |-> None]
      BY <1>2, ScriptAt
  <2>3. step + 1 = LastStep /\ step' = LastStep
      BY <1>1, <1>2, <2>1
  <2>4. Asked(<<32>>)'
      BY <1>1, <2>2, <2>3 DEF Asked
  <2> QED BY <1>1, <2>1, <2>3, <2>4 DEF Running, Download
<1>10. ~Download
    BY <1>1 DEF Download
<1> QED BY <1>6, <1>7, <1>8, <1>9, <1>10 DEF Running

(* The host does not fail: its reads see the right acknowledgement or the  *)
(* expected image, and somebody is still at work while they wait.          *)
LEMMA NoFailure ==
    ASSUME TypeOK, TypeOK', Running, WrongAck \/ Timeout \/ Result
    PROVE  /\ host' = "ok" /\ pc' = "command" /\ lost' = lost
           /\ Incoming' = <<>> /\ Outgoing' = <<>>
<1>1. Expecting /\ OneWay
    BY HostExpects, OneWayHolds
<1>2. /\ inbox \in Seq(Byte) /\ Opt(tx) \in Seq(Byte) /\ out \in Seq(Byte)
    BY OptType DEF TypeOK
<1>3. ~WrongAck
  <2>1. SUFFICES ASSUME WrongAck PROVE FALSE
      OBVIOUS
  <2>2. StepNow.ack # None /\ inbox # <<>> /\ Head(inbox) # StepNow.ack
      BY <2>1 DEF WrongAck
  <2>3. Outgoing = <<StepNow.ack>>
      BY <1>1, <2>2, Directions DEF Expecting
  <2>4. Len(inbox) \in Nat \ {0} /\ 1 \in 1 .. Len(inbox)
      BY <1>2, <2>2, EmptySeq
  <2>5. Outgoing[1] = inbox[1]
    <3>1. /\ inbox \o Opt(tx) \in Seq(Byte)
          /\ \A k \in 1 .. Len(inbox) : (inbox \o Opt(tx))[k] = inbox[k]
          /\ Len(inbox \o Opt(tx)) \in Nat /\ Len(inbox \o Opt(tx)) >= 1
      <4>1. Len(Opt(tx)) \in Nat
          BY <1>2
      <4>2. /\ inbox \o Opt(tx) \in Seq(Byte)
            /\ Len(inbox \o Opt(tx)) = Len(inbox) + Len(Opt(tx))
            /\ \A k \in 1 .. Len(inbox) : (inbox \o Opt(tx))[k] = inbox[k]
          BY <1>2, <2>4, <4>1, ConcatParts
      <4> QED BY <2>4, <4>1, <4>2
    <3> DEFINE s == inbox \o Opt(tx)
    <3>2. s \in Seq(Byte) /\ Len(s) \in Nat /\ 1 \in 1 .. Len(s) /\ s[1] = inbox[1]
        BY <2>4, <3>1
    <3> HIDE DEF s
    <3>3. (s \o out)[1] = s[1]
      <4>1. Len(out) \in Nat
          BY <1>2
      <4> QED BY <1>2, <3>2, <4>1, ConcatParts
    <3> QED BY <3>2, <3>3 DEF Outgoing, s
  <2>6. Head(inbox) = inbox[1]
      BY <1>2, <2>2
  <2> QED BY <2>2, <2>3, <2>5, <2>6
<1>4. ~Timeout
  <2>1. SUFFICES ASSUME Timeout PROVE FALSE
      OBVIOUS
  <2>2. /\ hq = <<>> /\ pc # "compute" /\ out = <<>> /\ tx = None /\ box = None
        /\ IF StepNow.ack = None THEN Len(inbox) < Pixels ELSE inbox = <<>>
      BY <2>1 DEF Timeout, Waiting
  <2>3. Incoming = <<>>
      BY <2>2, Directions
  <2>4. Outgoing = inbox
      BY <1>2, <2>2, ConcatEmptySeq DEF Outgoing, Opt
  <2>5. inbox # <<>>
      BY <1>1, <2>2, <2>3, <2>4 DEF Expecting
  <2>6. step = LastStep /\ inbox = Expected(session) /\ Len(inbox) < Pixels
      BY <1>1, <2>2, <2>4, <2>5 DEF Expecting
  <2> QED BY <2>6, ExpectedType, ServerAssumption DEF TypeOK
<1>5. Result
    BY <1>3, <1>4
<1>6. /\ StepNow.ack = None /\ Len(inbox) >= Pixels /\ inbox' = <<>>
      /\ host' = IF SubSeq(inbox, 1, Pixels) = Expected(session) THEN "ok"
                                                                 ELSE "failed"
      /\ UNCHANGED <<box, lost, tx, pc, out, hq>>
    BY <1>5 DEF Result, serverVars
<1>7. step = LastStep /\ pc = "command"
    BY <1>1, <1>6 DEF Expecting
<1>8. inbox # <<>>
  <2>1. Len(inbox) # 0
      BY <1>2, <1>6, ServerAssumption
  <2> QED BY <2>1
<1>9. Outgoing = Expected(session) /\ Incoming = <<>>
    BY <1>1, <1>7, <1>8, Directions DEF Expecting, OneWay
<1>10. Len(Outgoing) = Pixels
    BY <1>9, ExpectedType DEF TypeOK
<1>11. Len(Outgoing) = Len(inbox) + Len(Opt(tx)) + Len(out)
  <2>1. /\ inbox \o Opt(tx) \in Seq(Byte)
        /\ Len(inbox \o Opt(tx)) = Len(inbox) + Len(Opt(tx))
      BY <1>2, ConcatProperties
  <2> QED BY <1>2, <2>1, ConcatProperties DEF Outgoing
<1>12. Len(inbox) = Pixels /\ Len(Opt(tx)) = 0 /\ Len(out) = 0
  <2> DEFINE x == Len(inbox)
             y == Len(Opt(tx))
             z == Len(out)
  <2>1. /\ x \in Nat /\ y \in Nat /\ z \in Nat
        /\ x + y + z = Pixels /\ x >= Pixels
      BY <1>2, <1>6, <1>10, <1>11, LenProperties
  <2> HIDE DEF x, y, z
  <2>2. x = Pixels /\ y = 0 /\ z = 0
      BY <2>1, ServerAssumption
  <2> QED BY <2>2 DEF x, y, z
<1>13. Opt(tx) = <<>> /\ out = <<>> /\ tx = None
    BY <1>2, <1>12, EmptySeq, OptType DEF TypeOK
<1>14. inbox = Expected(session)
    BY <1>2, <1>9, <1>13, ConcatEmptySeq DEF Outgoing
<1>15. SubSeq(inbox, 1, Pixels) = inbox
    BY <1>2, <1>12, SubSeqFull
<1>16. host' = "ok"
    BY <1>6, <1>14, <1>15
<1>17. Incoming' = <<>>
    BY <1>6, <1>9 DEF Incoming, Opt
<1>18. Outgoing' = <<>>
  <2>1. inbox' = <<>> /\ tx' = None /\ out' = <<>>
      BY <1>6, <1>13
  <2> QED BY <2>1, ConcatEmptySeq, EmptySeq DEF Outgoing, Opt
<1> QED BY <1>6, <1>7, <1>16, <1>17, <1>18

LEMMA StartStep ==
    ASSUME TypeOK, TypeOK', Start
    PROVE  clean' => ~lost' /\ host' = "running" /\ Running'
<1> SUFFICES ASSUME clean' PROVE ~lost' /\ host' = "running" /\ Running'
    OBVIOUS
<1>1. /\ host' = "running" /\ lost' = FALSE /\ step' = 1 /\ session' \in Sessions
      /\ hq' = Script(session')[1].send /\ inbox' = <<>> /\ ServerReady
      /\ UNCHANGED <<box, tx, pc, out>>
    BY DEF Start
<1>2. box = None /\ tx = None /\ out = <<>> /\ pc = "command"
    BY <1>1 DEF ServerReady, Waiting
<1>3. hq' = <<1>>
  <2>1. Script(session')[1] = [send |-> <<1>>, ack |-> R]
      BY <1>1, ScriptAt
  <2> QED BY <1>1, <2>1
<1>4. Incoming' = <<1>>
  <2>1. Incoming' = <<>> \o <<1>>
      BY <1>1, <1>2, <1>3 DEF Incoming, Opt
  <2>2. <<1>> \in Seq(Byte)
      BY Bytes
  <2> QED BY <2>1, <2>2, ConcatEmptySeq
<1>5. Outgoing' = <<>>
  <2>1. inbox' = <<>> /\ tx' = None /\ out' = <<>>
      BY <1>1, <1>2
  <2> QED BY <2>1, ConcatEmptySeq, EmptySeq DEF Outgoing, Opt
<1> QED BY <1>1, <1>2, <1>4, <1>5 DEF Running, Uploading, Announced, Asked

LEMMA SessionStep ==
    ASSUME TypeOK, TypeOK', SessionInv, [Next]_vars
    PROVE  SessionInv'
<1>1. CASE Start
    BY <1>1, StartStep DEF SessionInv
<1>2. CASE Killed \/ BoardReset
    BY <1>2 DEF Killed, BoardReset, SessionInv
<1>3. CASE UNCHANGED vars
  <2>1. UNCHANGED <<box, lost, tx, pc, out, dst, i, op, threshold, ram,
                    host, session, step, hq, inbox, clean>>
      BY <1>3 DEF vars, serverVars, hostVars, historyVars
  <2>2. UNCHANGED <<Incoming, Outgoing>>
      BY <2>1 DEF Incoming, Outgoing, Opt
  <2> QED BY <2>1, <2>2, Stays DEF SessionInv, phase
<1>4. ASSUME HostStep \/ ToServer \/ ToHost \/ Server, clean
      PROVE  SessionInv'
  <2>1. ~lost /\ host \in {"running", "ok"}
      BY <1>4 DEF SessionInv
  <2>2. CASE host = "running"
    <3>1. Running /\ OneWay
        BY <1>4, <2>2, OneWayHolds DEF SessionInv
    <3>2. CASE Server
        BY <2>1, <2>2, <3>1, <3>2, ServerStep DEF SessionInv, Server, hostVars
    <3>3. CASE ToServer \/ ToHost
      <4>1. UNCHANGED <<Incoming, Outgoing>> /\ (lost' => lost)
          BY <2>2, <3>1, <3>3, LinkStep
      <4>2. UNCHANGED <<pc, dst, i, op, threshold, ram, step, session, host>>
          BY <3>3 DEF ToServer, ToHost, Arrive, Sent
      <4> QED BY <2>1, <2>2, <3>1, <4>1, <4>2, Stays DEF phase, SessionInv
    <3>4. CASE Acknowledged
      <4>1. lost' = lost /\ host' = host
          BY <3>4 DEF Acknowledged, serverVars
      <4> QED BY <2>1, <2>2, <3>1, <3>4, <4>1, AcknowledgedStep DEF SessionInv
    <3>5. CASE WrongAck \/ Timeout \/ Result
        BY <2>1, <3>1, <3>5, NoFailure DEF SessionInv
    <3> QED BY <1>4, <3>2, <3>3, <3>4, <3>5 DEF HostStep
  <2>3. CASE host = "ok"
    <3>1. pc = "command" /\ Incoming = <<>> /\ Outgoing = <<>>
        BY <1>4, <2>3 DEF SessionInv
    <3>2. hq = <<>> /\ box = None /\ tx = None /\ out = <<>>
        BY <3>1, Directions
    <3>3. ~HostStep
        BY <2>3 DEF HostStep, Acknowledged, WrongAck, Result, Timeout
    <3>4. ~ToServer /\ ~ToHost
        BY <3>2 DEF ToServer, ToHost, Sent
    <3>5. ~Server
        BY <3>1, <3>2
           DEF Server, Serve, Putc, CommandUpload, CommandCompute,
               CommandDownload, CommandThreshold, CommandUnknown, UploadPixel,
               SetThreshold, Compute, Getc
    <3> QED BY <1>4, <3>3, <3>4, <3>5
  <2> QED BY <2>1, <2>2, <2>3
<1>5. ASSUME HostStep \/ ToServer \/ ToHost \/ Server, ~clean
      PROVE  SessionInv'
  <2>1. clean' = clean
      BY <1>5
         DEF HostStep, Acknowledged, WrongAck, Result, Timeout, ToServer,
             ToHost, Server, historyVars
  <2> QED BY <1>5, <2>1 DEF SessionInv
<1> QED BY <1>1, <1>2, <1>3, <1>4, <1>5 DEF Next

(* The invariant, for frames of any size in blocks of any size, any number *)
(* of sessions, kills and resets of the board (uart_host.py,               *)
(* board_server.c).                                                        *)
THEOREM SessionsInOrder == Spec => []IInv
<1>1. Init => IInv
    BY TypeInit DEF IInv, SessionInv, Init
<1>2. IInv /\ [Next]_vars => IInv'
    BY TypeStep, SessionStep DEF IInv
<1> QED BY <1>1, <1>2, PTL DEF Spec

(* A session that finds the server ready does not fail: no acknowledgement *)
(* is wrong, no byte is lost in the one-byte buffer, no read of the host   *)
(* times out, and the image is that of golden.py.                          *)
THEOREM SessionsSucceed == Spec => []CleanSessionSucceeds
<1>1. IInv => CleanSessionSucceeds
    BY DEF IInv, SessionInv, CleanSessionSucceeds
<1> QED BY <1>1, SessionsInOrder, PTL

(* Such a session leaves the server ready for the next one, so that a      *)
(* series of sessions succeeds.                                            *)
THEOREM ServerStaysReady == Spec => []SuccessLeavesReady
<1>1. IInv => SuccessLeavesReady
  <2> SUFFICES ASSUME TypeOK, SessionInv, clean, host = "ok"
               PROVE  ServerReady /\ hq = <<>>
      BY DEF IInv, SuccessLeavesReady
  <2>1. pc = "command" /\ Incoming = <<>> /\ Outgoing = <<>>
      BY DEF SessionInv
  <2> QED BY <2>1, Directions DEF ServerReady, Waiting
<1> QED BY <1>1, SessionsInOrder, PTL

(* While a session is undisturbed, bytes are on the way in one direction   *)
(* only: the host never sends ahead of the acknowledgement.                *)
THEOREM LineIsHalfDuplex == Spec => []OneDirection
<1>1. IInv => OneDirection
  <2> SUFFICES ASSUME TypeOK, SessionInv, clean
               PROVE  hq = <<>> \/ (tx = None /\ out = <<>> /\ inbox = <<>>)
      BY DEF IInv, OneDirection
  <2>1. Incoming = <<>> \/ Outgoing = <<>>
      BY OneWayHolds DEF SessionInv, OneWay
  <2> QED BY <2>1, Directions
<1> QED BY <1>1, SessionsInOrder, PTL
=============================================================================

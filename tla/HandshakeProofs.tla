---------------------------- MODULE HandshakeProofs ----------------------------
(***************************************************************************)
(* Proofs about Handshake and Packets, for heads, bodies and frames of any *)
(* length and for any texts, numbers and keys: nothing of the frames       *)
(* behind a head is lost, and every frame comes to its handler as what it  *)
(* was.  On an upgraded connection both streams are one known sequence of  *)
(* units (Stream), and all that a side has handled, keeps waiting or still *)
(* has to read are adjacent slices of it.                                  *)
(***************************************************************************)
EXTENDS Handshake, SequenceTheorems, TLAPS

-------------------------------------------------------------------------------
(* Division by the length of a frame.                                      *)

LEMMA Lengths ==
  /\ HeadUnits \in Nat /\ BodyUnits \in Nat /\ BodyUnits >= 1
  /\ FrameUnits \in Nat /\ FrameUnits >= 1 /\ MaxHead \in Nat /\ HeadUnits < MaxHead
BY LengthsAssumption

LEMMA MoreFramesAreLonger ==
  ASSUME NEW m \in Nat, NEW n \in Nat
  PROVE  /\ m * FrameUnits \in Nat
         /\ (m + n) * FrameUnits = m * FrameUnits + n * FrameUnits
         /\ m <= n => m * FrameUnits <= n * FrameUnits
         /\ m < n => m * FrameUnits + FrameUnits <= n * FrameUnits
<1>1. FrameUnits \in Nat
  BY Lengths
<1>2. m * FrameUnits \in Nat /\ n * FrameUnits \in Nat
  BY <1>1
<1>3. (m + n) * FrameUnits = m * FrameUnits + n * FrameUnits
  BY <1>1
<1>4. ASSUME NEW d \in Nat, n = m + d
      PROVE  m * FrameUnits <= n * FrameUnits
  <2>1. d * FrameUnits \in Nat
    BY <1>1
  <2>2. n * FrameUnits = m * FrameUnits + d * FrameUnits
    BY <1>1, <1>4
  <2> QED
    BY <1>2, <2>1, <2>2
<1>5. m <= n => m * FrameUnits <= n * FrameUnits
  <2> SUFFICES ASSUME m <= n PROVE m * FrameUnits <= n * FrameUnits
    OBVIOUS
  <2>1. n - m \in Nat /\ n = m + (n - m)
    OBVIOUS
  <2> QED
    BY <1>4, <2>1
<1>6. m < n => m * FrameUnits + FrameUnits <= n * FrameUnits
  <2> SUFFICES ASSUME m < n PROVE m * FrameUnits + FrameUnits <= n * FrameUnits
    OBVIOUS
  <2>1. n - m - 1 \in Nat /\ n = (m + 1) + (n - m - 1)
    OBVIOUS
  <2>2. (n - m - 1) * FrameUnits \in Nat
    BY <1>1, <2>1
  <2>3. n * FrameUnits = m * FrameUnits + FrameUnits + (n - m - 1) * FrameUnits
    BY <1>1, <2>1
  <2> QED
    BY <1>1, <1>2, <2>2, <2>3
<1> QED
  BY <1>2, <1>3, <1>5, <1>6

(* The quotient and the rest are the only ones.                            *)
LEMMA Quotient ==
  ASSUME NEW n \in Nat
  PROVE  /\ n \div FrameUnits \in Nat /\ n % FrameUnits \in 0 .. FrameUnits - 1
         /\ n = (n \div FrameUnits) * FrameUnits + (n % FrameUnits)
BY Lengths

LEMMA Division ==
  ASSUME NEW q \in Nat, NEW r \in 0 .. FrameUnits - 1
  PROVE  (q * FrameUnits + r) \div FrameUnits = q /\ (q * FrameUnits + r) % FrameUnits = r
<1> DEFINE n == q * FrameUnits + r
           d == n \div FrameUnits
           m == n % FrameUnits
<1>1. FrameUnits \in Nat /\ r \in Nat /\ r < FrameUnits
  BY Lengths
<1>2. n \in Nat
  BY <1>1, MoreFramesAreLonger
<1>3. d \in Nat /\ m \in 0 .. FrameUnits - 1 /\ n = d * FrameUnits + m
  BY <1>2, Quotient
<1> HIDE DEF d, m
<1>4. ~(d < q)
  <2> SUFFICES ASSUME d < q PROVE FALSE
    OBVIOUS
  <2>1. d * FrameUnits + FrameUnits <= q * FrameUnits /\ d * FrameUnits \in Nat /\ q * FrameUnits \in Nat
    BY <1>3, MoreFramesAreLonger
  <2> QED
    BY <1>1, <1>3, <2>1
<1>5. ~(q < d)
  <2> SUFFICES ASSUME q < d PROVE FALSE
    OBVIOUS
  <2>1. q * FrameUnits + FrameUnits <= d * FrameUnits /\ d * FrameUnits \in Nat /\ q * FrameUnits \in Nat
    BY <1>3, MoreFramesAreLonger
  <2> QED
    BY <1>1, <1>3, <2>1
<1>6. d = q
  BY <1>3, <1>4, <1>5
<1>7. m = r
  <2>1. q * FrameUnits \in Nat
    BY MoreFramesAreLonger
  <2> QED
    BY <1>1, <1>3, <1>6, <2>1
<1> QED
  BY <1>6, <1>7 DEF d, m

-------------------------------------------------------------------------------
(* Pieces of a stream.  On an upgraded connection both streams are the same *)
(* sequence of units: a head that is accepted, then the frames.            *)

FrameUnit(i) ==
  [unit |-> "frame", frame |-> (i - 1) \div FrameUnits + 1, part |-> ((i - 1) % FrameUnits) + 1]

WholeHead == HeadUnits + 1

Stream ==
  [i \in Nat \ {0} |-> IF i <= HeadUnits THEN HeadUnit
                       ELSE IF i = WholeHead THEN BlankLine(TRUE)
                       ELSE FrameUnit(i - WholeHead)]

Units == {Stream[i] : i \in Nat \ {0}}

(* The units behind the first m, up to the n-th.                           *)
Slice(m, n) == [i \in 1 .. n - m |-> Stream[m + i]]

LEMMA SliceIsSeq ==
  ASSUME NEW m \in Nat, NEW n \in Nat, m <= n
  PROVE  /\ Slice(m, n) \in Seq(Units)
         /\ Len(Slice(m, n)) = n - m
         /\ \A i \in 1 .. n - m : Slice(m, n)[i] = Stream[m + i]
<1>1. n - m \in Nat
  OBVIOUS
<1>2. \A i \in 1 .. n - m : Stream[m + i] \in Units
  BY DEF Units
<1> HIDE DEF Stream, Units
<1> QED
  BY <1>1, <1>2 DEF Slice

LEMMA EmptySlice ==
  ASSUME NEW m \in Nat
  PROVE  Slice(m, m) = <<>>
BY SliceIsSeq, EmptySeq

LEMMA SliceConcat ==
  ASSUME NEW l \in Nat, NEW m \in Nat, NEW n \in Nat, l <= m, m <= n
  PROVE  Slice(l, m) \o Slice(m, n) = Slice(l, n)
<1> DEFINE s == Slice(l, m)
           t == Slice(m, n)
           u == Slice(l, n)
<1>1. /\ s \in Seq(Units) /\ Len(s) = m - l /\ \A i \in 1 .. m - l : s[i] = Stream[l + i]
      /\ t \in Seq(Units) /\ Len(t) = n - m /\ \A i \in 1 .. n - m : t[i] = Stream[m + i]
      /\ u \in Seq(Units) /\ Len(u) = n - l /\ \A i \in 1 .. n - l : u[i] = Stream[l + i]
  <2>1. l <= n
    OBVIOUS
  <2> QED
    BY <2>1, SliceIsSeq
<1> HIDE DEF s, t, u
<1>2. s \o t \in Seq(Units) /\ Len(s \o t) = n - l
  BY <1>1, ConcatProperties
<1>3. ASSUME NEW i \in 1 .. n - l
      PROVE  (s \o t)[i] = u[i]
  <2>1. (s \o t)[i] = IF i <= m - l THEN s[i] ELSE t[i - (m - l)]
    BY <1>1, ConcatProperties
  <2>2. CASE i <= m - l
    BY <1>1, <2>1, <2>2
  <2>3. CASE ~(i <= m - l)
    <3>1. i - (m - l) \in 1 .. n - m /\ m + (i - (m - l)) = l + i
      BY <2>3
    <3> QED
      BY <1>1, <2>1, <2>3, <3>1
  <2> QED
    BY <2>2, <2>3
<1>4. s \o t = u
  BY <1>1, <1>2, <1>3, SeqEqual
<1> QED
  BY <1>4 DEF s, t, u

LEMMA SliceSplit ==
  ASSUME NEW m \in Nat, NEW n \in Nat, m <= n, NEW k \in 0 .. n - m
  PROVE  /\ SubSeq(Slice(m, n), 1, k) = Slice(m, m + k)
         /\ After(Slice(m, n), k) = Slice(m + k, n)
<1> DEFINE s == Slice(m, n)
           t == Slice(m, m + k)
           u == Slice(m + k, n)
           first == SubSeq(s, 1, k)
           rest == SubSeq(s, k + 1, n - m)
<1>1. /\ s \in Seq(Units) /\ Len(s) = n - m /\ \A i \in 1 .. n - m : s[i] = Stream[m + i]
      /\ t \in Seq(Units) /\ Len(t) = k /\ \A i \in 1 .. k : t[i] = Stream[m + i]
      /\ u \in Seq(Units) /\ Len(u) = n - m - k /\ \A i \in 1 .. n - m - k : u[i] = Stream[m + k + i]
  <2>1. m + k \in Nat /\ m + k <= n /\ m <= m + k /\ (m + k) - m = k /\ n - (m + k) = n - m - k
    OBVIOUS
  <2> QED
    BY <2>1, SliceIsSeq
<1> HIDE DEF s, t, u
<1>2. \A i \in 1 .. n - m : s[i] \in Units
  BY <1>1, ElementOfSeq
<1>3. first \in Seq(Units) /\ Len(first) = k /\ \A i \in 1 .. k : first[i] = s[i]
  <2>1. \A i \in 1 .. k : s[i] \in Units
    BY <1>2
  <2>2. \A i \in 1 .. k : SubSeq(s, 1, k)[i] = s[i]
    BY <2>1, SubSeqProperties
  <2> QED
    BY <2>1, <2>2, SubSeqProperties
<1>4. first = t
  <2> HIDE DEF first
  <2>1. \A i \in 1 .. k : first[i] = t[i]
    <3>1. k \in Nat /\ n - m \in Nat /\ k <= n - m
      OBVIOUS
    <3>2. \A i \in 1 .. k : i \in 1 .. n - m
      BY <3>1
    <3> QED
      BY <1>1, <1>3, <3>2
  <2> QED
    BY <1>1, <1>3, <2>1, SeqEqual
<1>5. rest \in Seq(Units) /\ Len(rest) = n - m - k /\ \A i \in 1 .. n - m - k : rest[i] = s[k + i]
  <2>1. \A i \in k + 1 .. n - m : s[i] \in Units
    BY <1>2
  <2>2. \A i \in 1 .. (n - m) - (k + 1) + 1 : rest[i] = s[(k + 1) + i - 1]
    BY <2>1, SubSeqProperties
  <2>3. \A i \in 1 .. n - m - k : rest[i] = s[k + i]
    BY <2>2
  <2> QED
    BY <2>1, <2>3, SubSeqProperties
<1>6. rest = u
  <2> HIDE DEF rest
  <2>1. ASSUME NEW i \in 1 .. n - m - k
        PROVE  rest[i] = u[i]
    <3>1. k + i \in 1 .. n - m /\ m + (k + i) = m + k + i
      OBVIOUS
    <3>2. rest[i] = s[k + i] /\ u[i] = Stream[m + k + i]
      BY <1>1, <1>5
    <3>3. s[k + i] = Stream[m + (k + i)]
      BY <1>1, <3>1
    <3> QED
      BY <3>1, <3>2, <3>3
  <2> QED
    BY <1>1, <1>5, <2>1, SeqEqual
<1>7. After(s, k) = rest
  BY <1>1 DEF After
<1> QED
  BY <1>4, <1>6, <1>7 DEF s, t, u

LEMMA HeadSlice == HeadOf(HeadUnits, TRUE) = Slice(0, WholeHead)
<1> DEFINE head == [i \in 1 .. HeadUnits |-> HeadUnit]
           blank == <<BlankLine(TRUE)>>
           AnyUnits == {HeadUnit, BlankLine(TRUE)}
<1>1. head \in Seq(AnyUnits) /\ Len(head) = HeadUnits /\ \A i \in 1 .. HeadUnits : head[i] = HeadUnit
  BY Lengths
<1>2. blank \in Seq(AnyUnits) /\ Len(blank) = 1 /\ blank[1] = BlankLine(TRUE)
  OBVIOUS
<1>3. WholeHead \in Nat /\ 0 \in Nat /\ 0 <= WholeHead /\ WholeHead - 0 = HeadUnits + 1
  BY Lengths DEF WholeHead
<1>4. /\ Slice(0, WholeHead) \in Seq(Units) /\ Len(Slice(0, WholeHead)) = HeadUnits + 1
      /\ \A i \in 1 .. HeadUnits + 1 : Slice(0, WholeHead)[i] = Stream[0 + i]
  BY <1>3, SliceIsSeq
<1>5. \A i \in 1 .. HeadUnits + 1 : Stream[0 + i] = IF i <= HeadUnits THEN HeadUnit ELSE BlankLine(TRUE)
  <2> SUFFICES ASSUME NEW i \in 1 .. HeadUnits + 1
               PROVE  Stream[0 + i] = IF i <= HeadUnits THEN HeadUnit ELSE BlankLine(TRUE)
    OBVIOUS
  <2>1. i \in Nat \ {0} /\ 0 + i = i /\ (~(i <= HeadUnits) => i = HeadUnits + 1)
    BY Lengths
  <2>2. Stream[i] = IF i <= HeadUnits THEN HeadUnit
                    ELSE IF i = WholeHead THEN BlankLine(TRUE) ELSE FrameUnit(i - WholeHead)
    BY <2>1 DEF Stream
  <2>3. WholeHead = HeadUnits + 1
    BY DEF WholeHead
  <2> QED
    BY <2>1, <2>2, <2>3
<1> DEFINE whole == head \o blank
<1> HIDE DEF head, blank, AnyUnits
<1>6. whole \in Seq(AnyUnits) /\ Len(whole) = HeadUnits + 1
  BY <1>1, <1>2, ConcatProperties, Lengths
<1>9. \A i \in 1 .. HeadUnits + 1 : whole[i] = IF i <= Len(head) THEN head[i] ELSE blank[i - Len(head)]
  <2>1. Len(head) + Len(blank) = HeadUnits + 1
    BY <1>1, <1>2, Lengths
  <2>2. \A i \in 1 .. Len(head) + Len(blank) :
          whole[i] = IF i <= Len(head) THEN head[i] ELSE blank[i - Len(head)]
    BY <1>1, <1>2, ConcatProperties
  <2> QED
    BY <2>1, <2>2
<1> HIDE DEF whole
<1>7. ASSUME NEW i \in 1 .. HeadUnits + 1
      PROVE  whole[i] = IF i <= HeadUnits THEN HeadUnit ELSE BlankLine(TRUE)
  <2>1. whole[i] = IF i <= HeadUnits THEN head[i] ELSE blank[i - HeadUnits]
    BY <1>1, <1>9
  <2>2. CASE i <= HeadUnits
    <3>1. i \in 1 .. HeadUnits
      BY <2>2, Lengths
    <3> QED
      BY <1>1, <2>1, <2>2, <3>1
  <2>3. CASE ~(i <= HeadUnits)
    <3>1. i - HeadUnits = 1
      BY <2>3, Lengths
    <3> QED
      BY <1>2, <2>1, <2>3, <3>1
  <2> QED
    BY <2>2, <2>3
<1>8. whole = Slice(0, WholeHead)
  <2>1. \A i \in 1 .. HeadUnits + 1 : whole[i] = Slice(0, WholeHead)[i]
    BY <1>4, <1>5, <1>7
  <2>2. whole = [i \in 1 .. HeadUnits + 1 |-> whole[i]]
    BY <1>6, LenProperties
  <2>3. Slice(0, WholeHead) = [i \in 1 .. HeadUnits + 1 |-> Slice(0, WholeHead)[i]]
    BY <1>4, LenProperties
  <2> QED
    BY <2>1, <2>2, <2>3
<1> QED
  BY <1>8 DEF HeadOf, head, blank, whole

(* The j-th unit of the frame behind the first n.                          *)
LEMMA UnitOfFrame ==
  ASSUME NEW n \in Nat, NEW j \in 1 .. FrameUnits
  PROVE  Stream[WholeHead + n * FrameUnits + j] = [unit |-> "frame", frame |-> n + 1, part |-> j]
<1>1. n * FrameUnits \in Nat
  BY MoreFramesAreLonger
<1>2. j - 1 \in 0 .. FrameUnits - 1 /\ j \in Nat /\ WholeHead \in Nat /\ HeadUnits < WholeHead
  BY Lengths DEF WholeHead
<1>3. (n * FrameUnits + (j - 1)) \div FrameUnits = n /\ (n * FrameUnits + (j - 1)) % FrameUnits = j - 1
  BY <1>2, Division
<1>4. FrameUnit(n * FrameUnits + j) = [unit |-> "frame", frame |-> n + 1, part |-> j]
  <2> DEFINE u == n * FrameUnits
  <2>1. u \in Nat
    BY <1>1
  <2>2. (u + (j - 1)) \div FrameUnits = n /\ (u + (j - 1)) % FrameUnits = j - 1
    BY <1>3
  <2> HIDE DEF u
  <2>3. u + j - 1 = u + (j - 1) /\ (j - 1) + 1 = j
    BY <1>2, <2>1
  <2>4. (u + j - 1) \div FrameUnits = n /\ ((u + j - 1) % FrameUnits) + 1 = j
    BY <2>2, <2>3
  <2>5. FrameUnit(u + j) = [unit |-> "frame", frame |-> n + 1, part |-> j]
    BY <1>2, <2>1, <2>4 DEF FrameUnit
  <2> QED
    BY <2>5 DEF u
<1>5. Stream[WholeHead + n * FrameUnits + j] = FrameUnit(n * FrameUnits + j)
  <2> DEFINE u == n * FrameUnits
  <2>1. u \in Nat
    BY <1>1
  <2> HIDE DEF u
  <2>2. /\ WholeHead + u + j \in Nat \ {0} /\ ~(WholeHead + u + j <= HeadUnits)
        /\ WholeHead + u + j # WholeHead /\ (WholeHead + u + j) - WholeHead = u + j
    BY <1>2, <2>1, Lengths
  <2>3. Stream[WholeHead + u + j] = FrameUnit(u + j)
    BY <2>2 DEF Stream
  <2> QED
    BY <2>3 DEF u
<1> QED
  BY <1>4, <1>5

LEMMA FrameSlice ==
  ASSUME NEW n \in Nat
  PROVE  Frame(n + 1) = Slice(WholeHead + n * FrameUnits, WholeHead + (n + 1) * FrameUnits)
<1> DEFINE u == WholeHead + n * FrameUnits
           v == WholeHead + (n + 1) * FrameUnits
<1>1. u \in Nat /\ v = u + FrameUnits /\ FrameUnits \in Nat /\ v \in Nat /\ u <= v /\ v - u = FrameUnits
  BY Lengths, MoreFramesAreLonger DEF WholeHead
<1>2. \A j \in 1 .. FrameUnits : Stream[u + j] = [unit |-> "frame", frame |-> n + 1, part |-> j]
  BY UnitOfFrame
<1> HIDE DEF u, v
<1>3. Slice(u, v) = [j \in 1 .. FrameUnits |-> [unit |-> "frame", frame |-> n + 1, part |-> j]]
  BY <1>1, <1>2 DEF Slice
<1> QED
  BY <1>3 DEF Frame, u, v

(* The units of the first n frames, as the property writes them.           *)
LEMMA UnitsSlice ==
  ASSUME NEW n \in Nat
  PROVE  UnitsOf(n) = Slice(WholeHead, WholeHead + n * FrameUnits)
<1>1. WholeHead \in Nat /\ HeadUnits < WholeHead /\ FrameUnits \in Nat /\ FrameUnits >= 1
  BY Lengths DEF WholeHead
<1> DEFINE u == n * FrameUnits
<1>2. u \in Nat
  BY MoreFramesAreLonger
<1> HIDE DEF u
<1>3. ASSUME NEW i \in 1 .. u
      PROVE  Frame((i - 1) \div FrameUnits + 1)[((i - 1) % FrameUnits) + 1] = Stream[WholeHead + i]
  <2>1. i - 1 \in Nat /\ (i - 1) % FrameUnits \in 0 .. FrameUnits - 1
    BY <1>2, Quotient
  <2>2. ((i - 1) % FrameUnits) + 1 \in 1 .. FrameUnits
    BY <1>1, <2>1
  <2>3. Frame((i - 1) \div FrameUnits + 1)[((i - 1) % FrameUnits) + 1] = FrameUnit(i)
    BY <2>2 DEF Frame, FrameUnit
  <2>4. /\ WholeHead + i \in Nat \ {0} /\ ~(WholeHead + i <= HeadUnits)
        /\ WholeHead + i # WholeHead /\ (WholeHead + i) - WholeHead = i
    BY <1>1, <1>2, Lengths
  <2>5. Stream[WholeHead + i] = FrameUnit(i)
    BY <2>4 DEF Stream
  <2> QED
    BY <2>3, <2>5
<1>4. (WholeHead + u) - WholeHead = u
  BY <1>1, <1>2
<1>5. UnitsOf(n) = [i \in 1 .. u |-> Frame((i - 1) \div FrameUnits + 1)[((i - 1) % FrameUnits) + 1]]
  BY DEF UnitsOf, u
<1>6. Slice(WholeHead, WholeHead + u) = [i \in 1 .. u |-> Stream[WholeHead + i]]
  BY <1>4 DEF Slice
<1> QED
  BY <1>3, <1>5, <1>6 DEF u

(* What is parsed of the units behind the first n frames: the next frames, *)
(* as far as they are complete; what is left is shorter than a frame.      *)
LEMMA ParsedSlice ==
  ASSUME NEW n \in Nat, NEW k \in Nat, n * FrameUnits <= k, NEW frames
  PROVE  LET received == Slice(WholeHead + n * FrameUnits, WholeHead + k)
             c == Complete(received)
         IN /\ c \in Nat
            /\ (n + c) * FrameUnits \in Nat
            /\ (n + c) * FrameUnits <= k /\ k < (n + c) * FrameUnits + FrameUnits
            /\ Parsed(received, frames) = [i \in 1 .. c |-> parse_frame(frames[n + i])]
            /\ Incomplete(received) = Slice(WholeHead + (n + c) * FrameUnits, WholeHead + k)
            /\ Len(Incomplete(received)) = k - (n + c) * FrameUnits
<1> DEFINE u == n * FrameUnits
           received == Slice(WholeHead + u, WholeHead + k)
           c == Complete(received)
           w == c * FrameUnits
<1>1. WholeHead \in Nat /\ FrameUnits \in Nat /\ FrameUnits >= 1
  BY Lengths DEF WholeHead
<1>2. u \in Nat /\ k - u \in Nat
  <2>1. u \in Nat
    BY MoreFramesAreLonger
  <2>2. u <= k
    OBVIOUS
  <2> HIDE DEF u
  <2> QED
    BY <2>1, <2>2
<1>3. /\ received \in Seq(Units) /\ Len(received) = k - u
      /\ \A i \in 1 .. k - u : received[i] = Stream[WholeHead + u + i]
  <2> HIDE DEF u
  <2>1. WholeHead + u \in Nat /\ WholeHead + k \in Nat /\ WholeHead + u <= WholeHead + k
        /\ (WholeHead + k) - (WholeHead + u) = k - u
    BY <1>1, <1>2
  <2> QED
    BY <2>1, SliceIsSeq
<1>4. c = (k - u) \div FrameUnits
  BY <1>3 DEF Complete
<1>5. c \in Nat /\ w \in Nat /\ w <= k - u /\ k - u < w + FrameUnits
  <2> DEFINE l == k - u
             d == l \div FrameUnits
  <2>1. d \in Nat /\ l % FrameUnits \in 0 .. FrameUnits - 1
        /\ l = d * FrameUnits + (l % FrameUnits)
    BY <1>2, Quotient
  <2>2. c = d
    BY <1>4
  <2> HIDE DEF c, d, l
  <2>3. d * FrameUnits \in Nat
    BY <2>1, MoreFramesAreLonger
  <2>4. c \in Nat /\ c * FrameUnits \in Nat
    BY <2>1, <2>2, <2>3
  <2>5. d * FrameUnits <= l /\ l < d * FrameUnits + FrameUnits
    BY <1>1, <2>1, <2>3
  <2>6. c * FrameUnits <= l /\ l < c * FrameUnits + FrameUnits
    BY <2>2, <2>5
  <2> QED
    BY <2>4, <2>6 DEF l
<1> HIDE DEF c
<1>6. (n + c) * FrameUnits = u + w
  BY <1>5, MoreFramesAreLonger
<1>7. ASSUME NEW i \in 1 .. c
      PROVE  received[i * FrameUnits].frame = n + i
  <2>1. i - 1 \in Nat /\ n + (i - 1) \in Nat /\ FrameUnits \in 1 .. FrameUnits /\ i \in Nat /\ i <= c
    BY <1>1, <1>5
  <2>2. (n + (i - 1)) * FrameUnits = u + (i - 1) * FrameUnits /\ (i - 1) * FrameUnits \in Nat
    BY <2>1, MoreFramesAreLonger
  <2>3. i * FrameUnits = (i - 1) * FrameUnits + FrameUnits
    BY <1>1, <2>1
  <2>4. i * FrameUnits <= w
    BY <1>5, <2>1, MoreFramesAreLonger
  <2> DEFINE p == i * FrameUnits
             o == (i - 1) * FrameUnits
             b == (n + (i - 1)) * FrameUnits
  <2>5. o \in Nat /\ p = o + FrameUnits /\ p <= w /\ b = u + o
    BY <2>2, <2>3, <2>4
  <2>6. Stream[WholeHead + b + FrameUnits].frame = n + (i - 1) + 1
    <3> DEFINE q == n + (i - 1)
    <3>1. q \in Nat /\ FrameUnits \in 1 .. FrameUnits
      BY <2>1
    <3> HIDE DEF q
    <3>2. Stream[WholeHead + q * FrameUnits + FrameUnits]
             = [unit |-> "frame", frame |-> q + 1, part |-> FrameUnits]
      BY <3>1, UnitOfFrame
    <3>3. Stream[WholeHead + q * FrameUnits + FrameUnits].frame = q + 1
      BY <3>2
    <3> QED
      BY <3>3 DEF q
  <2> HIDE DEF u, w, p, o, b
  <2>7. p \in 1 .. k - u /\ WholeHead + u + p = WholeHead + b + FrameUnits
    BY <1>1, <1>2, <1>5, <2>5
  <2>8. received[p] = Stream[WholeHead + b + FrameUnits]
    BY <1>3, <2>7
  <2>9. n + (i - 1) + 1 = n + i
    BY <2>1
  <2> QED
    BY <2>6, <2>8, <2>9 DEF p
<1>8. Parsed(received, frames) = [i \in 1 .. c |-> parse_frame(frames[n + i])]
  BY <1>7 DEF Parsed, c
<1>9. Incomplete(received) = Slice(WholeHead + (u + w), WholeHead + k)
  <2> HIDE DEF u, w
  <2>1. /\ WholeHead + u \in Nat /\ WholeHead + k \in Nat /\ WholeHead + u <= WholeHead + k
        /\ w \in 0 .. (WholeHead + k) - (WholeHead + u)
        /\ (WholeHead + u) + w = WholeHead + (u + w)
    BY <1>1, <1>2, <1>5
  <2>2. After(received, w) = Slice((WholeHead + u) + w, WholeHead + k)
    BY <2>1, SliceSplit
  <2> QED
    BY <2>1, <2>2 DEF Incomplete, c, w
<1>10. Len(Incomplete(received)) = k - (u + w)
  <2> HIDE DEF u, w, received
  <2>1. WholeHead + (u + w) \in Nat /\ WholeHead + k \in Nat /\ WholeHead + (u + w) <= WholeHead + k
        /\ (WholeHead + k) - (WholeHead + (u + w)) = k - (u + w)
    BY <1>1, <1>2, <1>5
  <2> QED
    BY <1>9, <2>1, SliceIsSeq
<1>11. u + w \in Nat /\ u + w <= k /\ k < u + w + FrameUnits
  <2> HIDE DEF u, w
  <2> QED
    BY <1>1, <1>2, <1>5
<1> QED
  BY <1>5, <1>6, <1>8, <1>9, <1>10, <1>11 DEF c

-------------------------------------------------------------------------------
(* The kinds of JSON values.                                               *)

LEMMA ScalarKinds ==
  ASSUME NEW v \in Scalars
  PROVE  \/ v.t = "null" /\ v = Null
         \/ v.t = "bool" /\ v = [t |-> "bool", b |-> v.b]
         \/ v.t = "str" /\ v = [t |-> "str", s |-> v.s]
         \/ v.t = "uint" /\ v = [t |-> "uint", n |-> v.n] /\ v.n \in Int /\ v.n >= 0
         \/ v.t = "int" /\ v = [t |-> "int", n |-> v.n] /\ v.n \in Int
         \/ v.t = "float" /\ v = [t |-> "float", n |-> v.n]
<1>1. CASE v = Null
  BY <1>1 DEF Null
<1>2. CASE v \in [t : {"bool"}, b : BOOLEAN]
  BY <1>2
<1>3. CASE v \in [t : {"str"}, s : Strings]
  BY <1>3
<1>4. CASE v \in [t : {"uint"}, n : {n \in Numbers : n >= 0}]
  BY <1>4, DataAssumption
<1>5. CASE v \in [t : {"int"}, n : Numbers]
  BY <1>5, DataAssumption
<1>6. CASE v \in [t : {"float"}, n : Numbers]
  BY <1>6
<1> QED
  BY <1>1, <1>2, <1>3, <1>4, <1>5, <1>6 DEF Scalars

ArrayOver(v, S) ==
  v.t = "array" /\ v = [t |-> "array", items |-> v.items] /\ \A i \in DOMAIN v.items : v.items[i] \in S
ObjectOver(v, S) ==
  v.t = "object" /\ v = [t |-> "object", fields |-> v.fields]
  /\ \A k \in DOMAIN v.fields : v.fields[k] \in S

LEMMA ArrayKind ==
  ASSUME NEW S, NEW longest \in Nat, NEW v \in ArraysOf(S, longest)
  PROVE  ArrayOver(v, S)
<1>1. v.t = "array" /\ v = [t |-> "array", items |-> v.items]
      /\ v.items \in UNION {[1..n -> S] : n \in 0..longest}
  BY DEF ArraysOf
<1>2. PICK n \in 0 .. longest : v.items \in [1 .. n -> S]
  BY <1>1
<1> QED
  BY <1>1, <1>2 DEF ArrayOver

LEMMA ObjectKind ==
  ASSUME NEW S, NEW keySets, NEW v \in ObjectsOf(S, keySets)
  PROVE  ObjectOver(v, S)
<1>1. v.t = "object" /\ v = [t |-> "object", fields |-> v.fields]
      /\ v.fields \in UNION {[K -> S] : K \in keySets}
  BY DEF ObjectsOf
<1>2. PICK K \in keySets : v.fields \in [K -> S]
  BY <1>1
<1> QED
  BY <1>1, <1>2 DEF ObjectOver

LEMMA ValueKinds ==
  /\ Scalars \subseteq Flat /\ Flat \subseteq Values
  /\ \A v \in Flat : v \in Scalars \/ ArrayOver(v, Scalars) \/ ObjectOver(v, Scalars)
  /\ \A v \in Values : v \in Flat \/ ArrayOver(v, Flat) \/ ObjectOver(v, Flat)
<1>1. \A v \in ArraysOf(Scalars, 2) : ArrayOver(v, Scalars)
  BY ArrayKind
<1>2. \A v \in ObjectsOf(Scalars, SUBSET Keys) : ObjectOver(v, Scalars)
  BY ObjectKind
<1>3. \A v \in ArraysOf(Flat, 1) : ArrayOver(v, Flat)
  BY ArrayKind
<1>4. \A v \in ObjectsOf(Flat, {{k} : k \in Keys}) : ObjectOver(v, Flat)
  BY ObjectKind
<1>5. /\ Scalars \subseteq Flat
      /\ \A v \in Flat :
           v \in Scalars \/ v \in ArraysOf(Scalars, 2) \/ v \in ObjectsOf(Scalars, SUBSET Keys)
  BY DEF Flat
<1>6. /\ Flat \subseteq Values
      /\ \A v \in Values :
           v \in Flat \/ v \in ArraysOf(Flat, 1) \/ v \in ObjectsOf(Flat, {{k} : k \in Keys})
  BY DEF Values
<1> QED
  BY <1>1, <1>2, <1>3, <1>4, <1>5, <1>6

-------------------------------------------------------------------------------
(* Packing: one round of pack_json, with f for the rounds below it.        *)

PackOf(f, v) ==
  CASE v.t = "null" -> [m |-> "nil"]
    [] v.t = "bool" -> [m |-> "boolean", b |-> v.b]
    [] v.t \in {"uint", "int"} -> PackInteger(v.n)
    [] v.t = "float" -> [m |-> "float64", n |-> v.n]
    [] v.t = "str" -> PackString(v.s)
    [] v.t = "array" -> [m |-> "array", items |-> [i \in DOMAIN v.items |-> f[v.items[i]]]]
    [] v.t = "object" -> [m |-> "map", fields |-> [k \in DOMAIN v.fields |-> f[v.fields[k]]]]
PackStep(f) == [v \in Values |-> PackOf(f, v)]

LEMMA PackKinds ==
  ASSUME NEW f, NEW v
  PROVE  /\ v.t = "null" => PackOf(f, v) = [m |-> "nil"]
         /\ v.t = "bool" => PackOf(f, v) = [m |-> "boolean", b |-> v.b]
         /\ v.t = "uint" => PackOf(f, v) = PackInteger(v.n)
         /\ v.t = "int" => PackOf(f, v) = PackInteger(v.n)
         /\ v.t = "float" => PackOf(f, v) = [m |-> "float64", n |-> v.n]
         /\ v.t = "str" => PackOf(f, v) = PackString(v.s)
         /\ v.t = "array" => PackOf(f, v) =
              [m |-> "array", items |-> [i \in DOMAIN v.items |-> f[v.items[i]]]]
         /\ v.t = "object" => PackOf(f, v) =
              [m |-> "map", fields |-> [k \in DOMAIN v.fields |-> f[v.fields[k]]]]
<1>1. v.t = "null" => PackOf(f, v) = [m |-> "nil"]
  BY DEF PackOf
<1>2. v.t = "bool" => PackOf(f, v) = [m |-> "boolean", b |-> v.b]
  BY DEF PackOf
<1>3. v.t = "uint" => PackOf(f, v) = PackInteger(v.n)
  BY DEF PackOf
<1>4. v.t = "int" => PackOf(f, v) = PackInteger(v.n)
  BY DEF PackOf
<1>5. v.t = "float" => PackOf(f, v) = [m |-> "float64", n |-> v.n]
  BY DEF PackOf
<1>6. v.t = "str" => PackOf(f, v) = PackString(v.s)
  BY DEF PackOf
<1>7. v.t = "array" => PackOf(f, v) =
              [m |-> "array", items |-> [i \in DOMAIN v.items |-> f[v.items[i]]]]
  BY DEF PackOf
<1>8. v.t = "object" => PackOf(f, v) =
              [m |-> "map", fields |-> [k \in DOMAIN v.fields |-> f[v.fields[k]]]]
  BY DEF PackOf
<1> QED
  BY <1>1, <1>2, <1>3, <1>4, <1>5, <1>6, <1>7, <1>8

(* What is made of a scalar does not depend on the rounds below.           *)
LEMMA PackScalars ==
  ASSUME NEW f, NEW g
  PROVE  \A v \in Scalars : PackOf(f, v) = PackOf(g, v)
<1> TAKE v \in Scalars
<1>1. v.t \in {"null", "bool", "str", "uint", "int", "float"}
  BY ScalarKinds
<1> QED
  BY <1>1, PackKinds

(* What is made of an array or an object depends on its elements' only.    *)
LEMMA PackOver ==
  ASSUME NEW f, NEW g, NEW S, \A x \in S : f[x] = g[x],
         NEW v, ArrayOver(v, S) \/ ObjectOver(v, S)
  PROVE  PackOf(f, v) = PackOf(g, v)
<1>1. CASE ArrayOver(v, S)
  <2>1. [i \in DOMAIN v.items |-> f[v.items[i]]] = [i \in DOMAIN v.items |-> g[v.items[i]]]
    BY <1>1 DEF ArrayOver
  <2> QED
    BY <1>1, <2>1, PackKinds DEF ArrayOver
<1>2. CASE ObjectOver(v, S)
  <2>1. [k \in DOMAIN v.fields |-> f[v.fields[k]]] = [k \in DOMAIN v.fields |-> g[v.fields[k]]]
    BY <1>2 DEF ObjectOver
  <2> QED
    BY <1>2, <2>1, PackKinds DEF ObjectOver
<1> QED
  BY <1>1, <1>2

(* Values are two levels deep: three rounds of PackStep reach them all, so *)
(* that the recursion has a solution, which pack_json is.                  *)
LEMMA PackUnfolds == pack_json = PackStep(pack_json)
<1> DEFINE f1 == PackStep(0)
           f2 == PackStep(f1)
           f3 == PackStep(f2)
<1>1. \A v \in Scalars : f1[v] = f2[v]
  BY PackScalars, ValueKinds DEF PackStep
<1>2. \A v \in Flat : f2[v] = f3[v]
  <2> HIDE DEF f1
  <2> TAKE v \in Flat
  <2>1. PackOf(f1, v) = PackOf(f2, v)
    <3> HIDE DEF f2
    <3>1. CASE v \in Scalars
      BY <3>1, PackScalars
    <3>2. CASE ArrayOver(v, Scalars) \/ ObjectOver(v, Scalars)
      BY <1>1, <3>2, PackOver
    <3> QED
      BY <3>1, <3>2, ValueKinds
  <2> QED
    BY <2>1, ValueKinds DEF PackStep
<1>3. ASSUME NEW v \in Values
      PROVE  PackOf(f2, v) = PackOf(f3, v)
  <2> HIDE DEF f1, f2, f3
  <2>1. CASE v \in Scalars
    BY <2>1, PackScalars
  <2>2. CASE ArrayOver(v, Scalars) \/ ObjectOver(v, Scalars)
    BY <1>2, <2>2, PackOver, ValueKinds
  <2>3. CASE ArrayOver(v, Flat) \/ ObjectOver(v, Flat)
    BY <1>2, <2>3, PackOver
  <2> QED
    BY <2>1, <2>2, <2>3, ValueKinds
<1>4. f3 = PackStep(f3)
  <2> HIDE DEF f2
  <2>1. f3 = [v \in Values |-> PackOf(f2, v)]
    BY DEF PackStep
  <2> HIDE DEF f3
  <2> QED
    BY <1>3, <2>1 DEF PackStep
<1> HIDE DEF f3
<1> QED
  BY <1>4 DEF pack_json, PackStep, PackOf

(* What pack_json makes of each kind of value.                             *)
LEMMA Packed ==
  ASSUME NEW v \in Values
  PROVE  pack_json[v] = PackOf(pack_json, v) /\ pack_json[v] \in Objects
<1>1. PackStep(pack_json)[v] = PackOf(pack_json, v)
  BY DEF PackStep
<1>2. pack_json[v] \in Objects
  BY DEF Objects
<1> QED
  BY <1>1, <1>2, PackUnfolds

-------------------------------------------------------------------------------
(* What a value is to the receiver.                                        *)

CanonicalOf(f, v) ==
  CASE v.t = "int" /\ v.n >= 0 -> [t |-> "uint", n |-> v.n]
    [] v.t = "array" -> [v EXCEPT !.items = [i \in DOMAIN v.items |-> f[v.items[i]]]]
    [] v.t = "object" -> [v EXCEPT !.fields = [k \in DOMAIN v.fields |-> f[v.fields[k]]]]
    [] OTHER -> v
CanonicalStep(f) == [v \in Values |-> CanonicalOf(f, v)]

LEMMA CanonicalKinds ==
  ASSUME NEW f, NEW v
  PROVE  /\ v.t = "int" /\ v.n >= 0 => CanonicalOf(f, v) = [t |-> "uint", n |-> v.n]
         /\ v.t = "int" /\ ~(v.n >= 0) => CanonicalOf(f, v) = v
         /\ v.t \in {"null", "bool", "str", "uint", "float"} => CanonicalOf(f, v) = v
<1>1. v.t = "int" /\ v.n >= 0 => CanonicalOf(f, v) = [t |-> "uint", n |-> v.n]
  BY DEF CanonicalOf
<1>2. v.t = "int" /\ ~(v.n >= 0) => CanonicalOf(f, v) = v
  BY DEF CanonicalOf
<1>3. v.t \in {"null", "bool", "str", "uint", "float"} => CanonicalOf(f, v) = v
  BY DEF CanonicalOf
<1> QED
  BY <1>1, <1>2, <1>3

LEMMA CanonicalArray ==
  ASSUME NEW f, NEW S, NEW v, ArrayOver(v, S)
  PROVE  CanonicalOf(f, v) = [t |-> "array", items |-> [i \in DOMAIN v.items |-> f[v.items[i]]]]
<1>1. v.t = "array"
  BY DEF ArrayOver
<1>2. CanonicalOf(f, v) = [v EXCEPT !.items = [i \in DOMAIN v.items |-> f[v.items[i]]]]
  BY <1>1 DEF CanonicalOf
<1>3. \A x : [v EXCEPT !.items = x] = [t |-> "array", items |-> x]
  BY DEF ArrayOver
<1> QED
  BY <1>2, <1>3, Zenon

LEMMA CanonicalObject ==
  ASSUME NEW f, NEW S, NEW v, ObjectOver(v, S)
  PROVE  CanonicalOf(f, v) = [t |-> "object", fields |-> [k \in DOMAIN v.fields |-> f[v.fields[k]]]]
<1>1. v.t = "object"
  BY DEF ObjectOver
<1>2. CanonicalOf(f, v) = [v EXCEPT !.fields = [k \in DOMAIN v.fields |-> f[v.fields[k]]]]
  BY <1>1 DEF CanonicalOf
<1>3. \A x : [v EXCEPT !.fields = x] = [t |-> "object", fields |-> x]
  BY DEF ObjectOver
<1> QED
  BY <1>2, <1>3, Zenon

LEMMA CanonicalScalars ==
  ASSUME NEW f, NEW g
  PROVE  \A v \in Scalars : CanonicalOf(f, v) = CanonicalOf(g, v)
<1> TAKE v \in Scalars
<1>1. v.t \in {"null", "bool", "str", "uint", "int", "float"}
  BY ScalarKinds
<1> QED
  BY <1>1, CanonicalKinds

LEMMA CanonicalOver ==
  ASSUME NEW f, NEW g, NEW S, \A x \in S : f[x] = g[x],
         NEW v, ArrayOver(v, S) \/ ObjectOver(v, S)
  PROVE  CanonicalOf(f, v) = CanonicalOf(g, v)
<1>1. CASE ArrayOver(v, S)
  <2>1. [i \in DOMAIN v.items |-> f[v.items[i]]] = [i \in DOMAIN v.items |-> g[v.items[i]]]
    BY <1>1 DEF ArrayOver
  <2> QED
    BY <1>1, <2>1, CanonicalArray
<1>2. CASE ObjectOver(v, S)
  <2>1. [k \in DOMAIN v.fields |-> f[v.fields[k]]] = [k \in DOMAIN v.fields |-> g[v.fields[k]]]
    BY <1>2 DEF ObjectOver
  <2> QED
    BY <1>2, <2>1, CanonicalObject
<1> QED
  BY <1>1, <1>2

(* The same for the recursion of Canonical.                                *)
LEMMA CanonicalUnfolds == Canonical = CanonicalStep(Canonical)
<1> DEFINE f1 == CanonicalStep(0)
           f2 == CanonicalStep(f1)
           f3 == CanonicalStep(f2)
<1>1. \A v \in Scalars : f1[v] = f2[v]
  BY CanonicalScalars, ValueKinds DEF CanonicalStep
<1>2. \A v \in Flat : f2[v] = f3[v]
  <2> HIDE DEF f1
  <2> TAKE v \in Flat
  <2>1. CanonicalOf(f1, v) = CanonicalOf(f2, v)
    <3> HIDE DEF f2
    <3>1. CASE v \in Scalars
      BY <3>1, CanonicalScalars
    <3>2. CASE ArrayOver(v, Scalars) \/ ObjectOver(v, Scalars)
      BY <1>1, <3>2, CanonicalOver
    <3> QED
      BY <3>1, <3>2, ValueKinds
  <2> QED
    BY <2>1, ValueKinds DEF CanonicalStep
<1>3. ASSUME NEW v \in Values
      PROVE  CanonicalOf(f2, v) = CanonicalOf(f3, v)
  <2> HIDE DEF f1, f2, f3
  <2>1. CASE v \in Scalars
    BY <2>1, CanonicalScalars
  <2>2. CASE ArrayOver(v, Scalars) \/ ObjectOver(v, Scalars)
    BY <1>2, <2>2, CanonicalOver, ValueKinds
  <2>3. CASE ArrayOver(v, Flat) \/ ObjectOver(v, Flat)
    BY <1>2, <2>3, CanonicalOver
  <2> QED
    BY <2>1, <2>2, <2>3, ValueKinds
<1>4. f3 = CanonicalStep(f3)
  <2> HIDE DEF f2
  <2>1. f3 = [v \in Values |-> CanonicalOf(f2, v)]
    BY DEF CanonicalStep
  <2> HIDE DEF f3
  <2> QED
    BY <1>3, <2>1 DEF CanonicalStep
<1> HIDE DEF f3
<1> QED
  BY <1>4 DEF Canonical, CanonicalStep, CanonicalOf

-------------------------------------------------------------------------------
(* Unpacking what was packed.                                              *)

UnpackOf(f, o) ==
  CASE o.m = "nil" -> Null
    [] o.m = "boolean" -> [t |-> "bool", b |-> o.b]
    [] o.m = "positive" -> [t |-> "uint", n |-> o.n]
    [] o.m = "negative" -> [t |-> "int", n |-> o.n]
    [] o.m = "float64" -> [t |-> "float", n |-> o.n]
    [] o.m = "str" -> [t |-> "str", s |-> o.s]
    [] o.m = "array" -> [t |-> "array", items |-> [i \in DOMAIN o.items |-> f[o.items[i]]]]
    [] o.m = "map" -> [t |-> "object", fields |-> [k \in DOMAIN o.fields |-> f[o.fields[k]]]]
UnpackStep(f) == [o \in Objects |-> UnpackOf(f, o)]

LEMMA UnpackKinds ==
  ASSUME NEW f, NEW o
  PROVE  /\ o.m = "nil" => UnpackOf(f, o) = Null
         /\ o.m = "boolean" => UnpackOf(f, o) = [t |-> "bool", b |-> o.b]
         /\ o.m = "positive" => UnpackOf(f, o) = [t |-> "uint", n |-> o.n]
         /\ o.m = "negative" => UnpackOf(f, o) = [t |-> "int", n |-> o.n]
         /\ o.m = "float64" => UnpackOf(f, o) = [t |-> "float", n |-> o.n]
         /\ o.m = "str" => UnpackOf(f, o) = [t |-> "str", s |-> o.s]
         /\ o.m = "array" => UnpackOf(f, o) =
              [t |-> "array", items |-> [i \in DOMAIN o.items |-> f[o.items[i]]]]
         /\ o.m = "map" => UnpackOf(f, o) =
              [t |-> "object", fields |-> [k \in DOMAIN o.fields |-> f[o.fields[k]]]]
<1>1. o.m = "nil" => UnpackOf(f, o) = Null
  BY DEF UnpackOf
<1>2. o.m = "boolean" => UnpackOf(f, o) = [t |-> "bool", b |-> o.b]
  BY DEF UnpackOf
<1>3. o.m = "positive" => UnpackOf(f, o) = [t |-> "uint", n |-> o.n]
  BY DEF UnpackOf
<1>4. o.m = "negative" => UnpackOf(f, o) = [t |-> "int", n |-> o.n]
  BY DEF UnpackOf
<1>5. o.m = "float64" => UnpackOf(f, o) = [t |-> "float", n |-> o.n]
  BY DEF UnpackOf
<1>6. o.m = "str" => UnpackOf(f, o) = [t |-> "str", s |-> o.s]
  BY DEF UnpackOf
<1>7. o.m = "array" => UnpackOf(f, o) =
              [t |-> "array", items |-> [i \in DOMAIN o.items |-> f[o.items[i]]]]
  BY DEF UnpackOf
<1>8. o.m = "map" => UnpackOf(f, o) =
              [t |-> "object", fields |-> [k \in DOMAIN o.fields |-> f[o.fields[k]]]]
  BY DEF UnpackOf
<1> QED
  BY <1>1, <1>2, <1>3, <1>4, <1>5, <1>6, <1>7, <1>8

(* Scalars come back as their canonical form.                              *)
LEMMA UnpackScalars ==
  ASSUME NEW f
  PROVE  \A v \in Scalars : UnpackOf(f, pack_json[v]) = Canonical[v]
<1> TAKE v \in Scalars
<1>1. v \in Values
  BY ValueKinds
<1>2. pack_json[v] = PackOf(pack_json, v)
  BY <1>1, Packed
<1>3. Canonical[v] = CanonicalOf(Canonical, v)
  <2>1. CanonicalStep(Canonical)[v] = CanonicalOf(Canonical, v)
    BY <1>1 DEF CanonicalStep
  <2> QED
    BY <2>1, CanonicalUnfolds
<1>4. CASE v.t = "null" /\ v = Null
  <2>1. pack_json[v] = [m |-> "nil"]
    BY <1>2, <1>4, PackKinds
  <2>2. UnpackOf(f, pack_json[v]) = Null
    BY <2>1, UnpackKinds
  <2> QED
    BY <1>3, <1>4, <2>2, CanonicalKinds
<1>5. CASE v.t = "bool" /\ v = [t |-> "bool", b |-> v.b]
  <2>1. pack_json[v] = [m |-> "boolean", b |-> v.b]
    BY <1>2, <1>5, PackKinds
  <2>2. UnpackOf(f, pack_json[v]) = [t |-> "bool", b |-> v.b]
    BY <2>1, UnpackKinds
  <2> QED
    BY <1>3, <1>5, <2>2, CanonicalKinds
<1>6. CASE v.t = "str" /\ v = [t |-> "str", s |-> v.s]
  <2>1. pack_json[v] = [m |-> "str", s |-> v.s]
    BY <1>2, <1>6, PackKinds DEF PackString
  <2>2. UnpackOf(f, pack_json[v]) = [t |-> "str", s |-> v.s]
    BY <2>1, UnpackKinds
  <2> QED
    BY <1>3, <1>6, <2>2, CanonicalKinds
<1>7. CASE v.t = "uint" /\ v = [t |-> "uint", n |-> v.n] /\ v.n \in Int /\ v.n >= 0
  <2>1. pack_json[v] = [m |-> "positive", n |-> v.n]
    BY <1>2, <1>7, PackKinds DEF PackInteger
  <2>2. UnpackOf(f, pack_json[v]) = [t |-> "uint", n |-> v.n]
    BY <2>1, UnpackKinds
  <2> QED
    BY <1>3, <1>7, <2>2, CanonicalKinds
<1>8. CASE v.t = "int" /\ v = [t |-> "int", n |-> v.n] /\ v.n \in Int
  <2>1. pack_json[v] = [m |-> IF v.n >= 0 THEN "positive" ELSE "negative", n |-> v.n]
    BY <1>2, <1>8, PackKinds DEF PackInteger
  <2>2. CASE v.n >= 0
    <3>1. UnpackOf(f, pack_json[v]) = [t |-> "uint", n |-> v.n]
      BY <2>1, <2>2, UnpackKinds
    <3> QED
      BY <1>3, <1>8, <2>2, <3>1, CanonicalKinds
  <2>3. CASE ~(v.n >= 0)
    <3>1. UnpackOf(f, pack_json[v]) = [t |-> "int", n |-> v.n]
      BY <2>1, <2>3, UnpackKinds
    <3> QED
      BY <1>3, <1>8, <2>3, <3>1, CanonicalKinds
  <2> QED
    BY <2>2, <2>3
<1>9. CASE v.t = "float" /\ v = [t |-> "float", n |-> v.n]
  <2>1. pack_json[v] = [m |-> "float64", n |-> v.n]
    BY <1>2, <1>9, PackKinds
  <2>2. UnpackOf(f, pack_json[v]) = [t |-> "float", n |-> v.n]
    BY <2>1, UnpackKinds
  <2> QED
    BY <1>3, <1>9, <2>2, CanonicalKinds
<1> QED
  BY <1>4, <1>5, <1>6, <1>7, <1>8, <1>9, ScalarKinds

(* So do arrays and objects over values that do.                           *)
LEMMA UnpackOver ==
  ASSUME NEW f, NEW S, \A x \in S : f[pack_json[x]] = Canonical[x],
         NEW v \in Values, ArrayOver(v, S) \/ ObjectOver(v, S)
  PROVE  UnpackOf(f, pack_json[v]) = Canonical[v]
<1>1. pack_json[v] = PackOf(pack_json, v)
  BY Packed
<1>2. Canonical[v] = CanonicalOf(Canonical, v)
  <2>1. CanonicalStep(Canonical)[v] = CanonicalOf(Canonical, v)
    BY DEF CanonicalStep
  <2> QED
    BY <2>1, CanonicalUnfolds
<1>3. CASE ArrayOver(v, S)
  <2> DEFINE packed == [i \in DOMAIN v.items |-> pack_json[v.items[i]]]
  <2>1. pack_json[v] = [m |-> "array", items |-> packed]
    BY <1>1, <1>3, PackKinds DEF ArrayOver
  <2>2. UnpackOf(f, pack_json[v]) = [t |-> "array", items |-> [i \in DOMAIN packed |-> f[packed[i]]]]
    <3> HIDE DEF packed
    <3> QED
      BY <2>1, UnpackKinds
  <2>3. [i \in DOMAIN packed |-> f[packed[i]]] = [i \in DOMAIN v.items |-> Canonical[v.items[i]]]
    BY <1>3 DEF ArrayOver
  <2>4. Canonical[v] = [t |-> "array", items |-> [i \in DOMAIN v.items |-> Canonical[v.items[i]]]]
    BY <1>2, <1>3, CanonicalArray
  <2> HIDE DEF packed
  <2> QED
    BY <2>2, <2>3, <2>4
<1>4. CASE ObjectOver(v, S)
  <2> DEFINE packed == [k \in DOMAIN v.fields |-> pack_json[v.fields[k]]]
  <2>1. pack_json[v] = [m |-> "map", fields |-> packed]
    BY <1>1, <1>4, PackKinds DEF ObjectOver
  <2>2. UnpackOf(f, pack_json[v]) = [t |-> "object", fields |-> [k \in DOMAIN packed |-> f[packed[k]]]]
    <3> HIDE DEF packed
    <3> QED
      BY <2>1, UnpackKinds
  <2>3. [k \in DOMAIN packed |-> f[packed[k]]] = [k \in DOMAIN v.fields |-> Canonical[v.fields[k]]]
    BY <1>4 DEF ObjectOver
  <2>4. Canonical[v] = [t |-> "object", fields |-> [k \in DOMAIN v.fields |-> Canonical[v.fields[k]]]]
    BY <1>2, <1>4, CanonicalObject
  <2> HIDE DEF packed
  <2> QED
    BY <2>2, <2>3, <2>4
<1> QED
  BY <1>3, <1>4

(* Three rounds reach every level, so that the recursion has a solution,   *)
(* which gives back what was packed.                                       *)
LEMMA UnpackUnfolds == unpack_object = UnpackStep(unpack_object)
<1> DEFINE f1 == UnpackStep(0)
           f2 == UnpackStep(f1)
           f3 == UnpackStep(f2)
<1>1. \A v \in Scalars : f1[pack_json[v]] = Canonical[v]
  BY UnpackScalars, ValueKinds, Packed DEF UnpackStep
<1>2. \A v \in Flat : f2[pack_json[v]] = Canonical[v]
  <2> HIDE DEF f1
  <2> TAKE v \in Flat
  <2>1. v \in Values
    BY ValueKinds
  <2>2. UnpackOf(f1, pack_json[v]) = Canonical[v]
    <3>1. CASE v \in Scalars
      BY <3>1, UnpackScalars
    <3>2. CASE ArrayOver(v, Scalars) \/ ObjectOver(v, Scalars)
      BY <1>1, <2>1, <3>2, UnpackOver
    <3> QED
      BY <3>1, <3>2, ValueKinds
  <2> QED
    BY <2>1, <2>2, Packed DEF UnpackStep
<1>3. ASSUME NEW f, \A v \in Flat : f[pack_json[v]] = Canonical[v]
      PROVE  \A v \in Values : UnpackOf(f, pack_json[v]) = Canonical[v]
  <2> TAKE v \in Values
  <2>1. CASE v \in Scalars
    BY <2>1, UnpackScalars
  <2>2. CASE ArrayOver(v, Scalars) \/ ObjectOver(v, Scalars)
    BY <1>3, <2>2, UnpackOver, ValueKinds
  <2>3. CASE ArrayOver(v, Flat) \/ ObjectOver(v, Flat)
    BY <1>3, <2>3, UnpackOver
  <2> QED
    BY <2>1, <2>2, <2>3, ValueKinds
<1>4. \A v \in Values : f3[pack_json[v]] = Canonical[v]
  <2> HIDE DEF f2
  <2>1. \A v \in Values : UnpackOf(f2, pack_json[v]) = Canonical[v]
    BY <1>2, <1>3
  <2> QED
    BY <2>1, Packed DEF UnpackStep
<1>5. ASSUME NEW o \in Objects
      PROVE  UnpackOf(f2, o) = UnpackOf(f3, o)
  <2> HIDE DEF f2, f3
  <2>1. PICK v \in Values : o = pack_json[v]
    BY DEF Objects
  <2>2. UnpackOf(f2, pack_json[v]) = Canonical[v]
    BY <1>2, <1>3
  <2>3. UnpackOf(f3, pack_json[v]) = Canonical[v]
    BY <1>4, <1>3, ValueKinds
  <2> QED
    BY <2>1, <2>2, <2>3
<1>6. f3 = UnpackStep(f3)
  <2> HIDE DEF f2
  <2>1. f3 = [o \in Objects |-> UnpackOf(f2, o)]
    BY DEF UnpackStep
  <2> HIDE DEF f3
  <2> QED
    BY <1>5, <2>1 DEF UnpackStep
<1> HIDE DEF f3
<1> QED
  BY <1>6 DEF unpack_object, UnpackStep, UnpackOf

(* msgpack_codec.cpp:9: what is packed and unpacked is the value that was  *)
(* packed, every integer as the number it was.                             *)
THEOREM RoundTrip == \A v \in Values : unpack_object[pack_json[v]] = Canonical[v]
<1> DEFINE f == unpack_object
<1>1. \A v \in Values : f[pack_json[v]] = UnpackOf(f, pack_json[v])
  <2> HIDE DEF f
  <2>1. f = UnpackStep(f)
    BY UnpackUnfolds DEF f
  <2>2. \A v \in Values : UnpackStep(f)[pack_json[v]] = UnpackOf(f, pack_json[v])
    BY Packed DEF UnpackStep
  <2> QED
    BY <2>1, <2>2
<1> HIDE DEF f
<1>2. \A v \in Scalars : f[pack_json[v]] = Canonical[v]
  BY <1>1, UnpackScalars, ValueKinds
<1>3. \A v \in Flat : f[pack_json[v]] = Canonical[v]
  BY <1>1, <1>2, UnpackOver, ValueKinds
<1>4. \A v \in Values : f[pack_json[v]] = Canonical[v]
  BY <1>1, <1>3, UnpackOver, ValueKinds
<1> QED
  BY <1>4 DEF f

-------------------------------------------------------------------------------
(* What is sent is what is parsed.                                         *)

(* An event comes with its name and its data; null is left out, and read   *)
(* again where it is missing.                                              *)
LEMMA EventFrame ==
  ASSUME NEW event, NEW data \in Values
  PROVE  parse_frame(build_event_frame(event, data)) =
           [kind |-> "Event", event |-> event, data |-> Canonical[data]]
<1> DEFINE args == <<PackString(event)>> \o IF data = Null THEN <<>> ELSE <<pack_json[data]>>
<1>1. args # <<>> /\ args[1] = PackString(event)
      /\ (data = Null => Len(args) = 1) /\ (data # Null => Len(args) = 2 /\ args[2] = pack_json[data])
  <2>1. CASE data = Null
    <3>1. args = <<PackString(event)>> \o <<>>
      BY <2>1
    <3>2. args = <<PackString(event)>>
      BY <3>1
    <3> QED
      BY <2>1, <3>2
  <2>2. CASE data # Null
    <3>1. args = <<PackString(event)>> \o <<pack_json[data]>>
      BY <2>2
    <3> DEFINE S == {PackString(event), pack_json[data]}
               s == <<PackString(event)>>
               t == <<pack_json[data]>>
    <3>2. s \in Seq(S) /\ t \in Seq(S) /\ Len(s) = 1 /\ Len(t) = 1
          /\ s[1] = PackString(event) /\ t[1] = pack_json[data]
      OBVIOUS
    <3> HIDE DEF S, s, t
    <3>3. s \o t \in Seq(S) /\ Len(s \o t) = 2
          /\ \A i \in 1 .. 2 : (s \o t)[i] = IF i <= 1 THEN s[i] ELSE t[i - 1]
      BY <3>2, ConcatProperties
    <3>4. (s \o t)[1] = PackString(event) /\ (s \o t)[2] = pack_json[data]
      BY <3>2, <3>3
    <3>5. s \o t # <<>>
      BY <3>3
    <3>6. args = s \o t
      BY <3>1 DEF s, t
    <3> HIDE DEF args
    <3> QED
      BY <2>2, <3>3, <3>4, <3>5, <3>6
  <2> QED
    BY <2>1, <2>2
<1>2. EventData(args) = pack_json[data]
  BY <1>1 DEF EventData
<1> DEFINE packet == [type |-> 2, data |-> args]
<1>3. build_event_frame(event, data) = [binary |-> TRUE, head |-> 4, packet |-> packet]
  BY DEF build_event_frame
<1> HIDE DEF args
<1>4. parse_binary(packet) = [kind |-> "Event", event |-> event, data |-> unpack_object[EventData(args)]]
  BY <1>1 DEF parse_binary, PackString
<1>5. parse_frame([binary |-> TRUE, head |-> 4, packet |-> packet]) = parse_binary(packet)
  BY DEF parse_frame
<1>6. unpack_object[EventData(args)] = Canonical[data]
  BY <1>2, RoundTrip
<1> QED
  BY <1>3, <1>4, <1>5, <1>6

LEMMA IdValue ==
  LET id == [t |-> "str", s |-> "id"] IN id \in Values /\ Canonical[id] = id
<1> DEFINE id == [t |-> "str", s |-> "id"]
<1>1. id \in Scalars
  BY IdAssumption DEF Scalars
<1>2. id \in Values
  BY <1>1, ValueKinds
<1>3. CanonicalStep(Canonical)[id] = CanonicalOf(Canonical, id)
  <2> HIDE DEF id
  <2> QED
    BY <1>2 DEF CanonicalStep
<1>4. CanonicalOf(Canonical, id) = id
  <2>1. id.t = "str"
    OBVIOUS
  <2> HIDE DEF id
  <2> QED
    BY <2>1, CanonicalKinds
<1> QED
  BY <1>2, <1>3, <1>4, CanonicalUnfolds

LEMMA NullValue == Null \in Values
BY ValueKinds DEF Scalars

LEMMA ServerFrameMeans ==
  ASSUME payload \in Values, NEW j \in 1 .. 4
  PROVE  parse_frame(ServerFrames[j]) = ServerMeans[j]
<1>1. CASE j = 1
  <2> DEFINE packet == [sid |-> "sid", pingInterval |-> 25000, pingTimeout |-> 5000]
  <2>1. ServerFrames[1] = [binary |-> FALSE, head |-> "0", packet |-> packet]
    BY DEF ServerFrames, build_open_frame, Text
  <2>2. parse_text("0", packet) =
          [kind |-> "Open", sid |-> packet.sid, pingInterval |-> packet.pingInterval,
           pingTimeout |-> packet.pingTimeout]
    BY DEF parse_text
  <2>3. parse_frame([binary |-> FALSE, head |-> "0", packet |-> packet]) = parse_text("0", packet)
    BY DEF parse_frame
  <2>4. ServerMeans[1] = [kind |-> "Open", sid |-> "sid", pingInterval |-> 25000, pingTimeout |-> 5000]
    BY DEF ServerMeans
  <2> QED
    BY <1>1, <2>1, <2>2, <2>3, <2>4
<1>2. CASE j = 2
  <2> DEFINE packet == [type |-> 0]
  <2>1. ServerFrames[2] = [binary |-> FALSE, head |-> "4", packet |-> packet]
    BY DEF ServerFrames, build_connect_ack_frame, Text
  <2>2. packet.type = 0
    OBVIOUS
  <2> HIDE DEF packet
  <2>3. parse_text("4", packet) = [kind |-> "Connect"]
    BY <2>2 DEF parse_text
  <2>4. parse_frame([binary |-> FALSE, head |-> "4", packet |-> packet]) = parse_text("4", packet)
    BY DEF parse_frame
  <2>5. ServerMeans[2] = [kind |-> "Connect"]
    BY DEF ServerMeans
  <2> QED
    BY <1>2, <2>1, <2>3, <2>4, <2>5
<1>3. CASE j = 3
  <2>1. ServerFrames[3] = build_event_frame("CLIENT_ID_SET", [t |-> "str", s |-> "id"])
    BY DEF ServerFrames
  <2>2. ServerMeans[3] = [kind |-> "Event", event |-> "CLIENT_ID_SET", data |-> [t |-> "str", s |-> "id"]]
    BY DEF ServerMeans
  <2> QED
    BY <1>3, <2>1, <2>2, IdValue, EventFrame
<1>4. CASE j = 4
  <2>1. ServerFrames[4] = build_event_frame("message", payload)
    BY DEF ServerFrames
  <2>2. ServerMeans[4] = [kind |-> "Event", event |-> "message", data |-> Canonical[payload]]
    BY DEF ServerMeans
  <2> QED
    BY <1>4, <2>1, <2>2, EventFrame
<1> QED
  BY <1>1, <1>2, <1>3, <1>4

LEMMA ClientFrameMeans ==
  ASSUME NEW j \in 1 .. 3
  PROVE  parse_frame(ClientFrames[j]) = ClientMeans[j]
<1>1. CASE j = 1
  <2> DEFINE packet == <<>>
  <2>1. ClientFrames[1] = [binary |-> FALSE, head |-> "2", packet |-> packet]
    BY DEF ClientFrames, PING_PACKET, Text
  <2>2. parse_text("2", packet) = [kind |-> "Ping"]
    BY DEF parse_text
  <2>3. parse_frame([binary |-> FALSE, head |-> "2", packet |-> packet]) = parse_text("2", packet)
    BY DEF parse_frame
  <2>4. ClientMeans[1] = [kind |-> "Ping"]
    BY DEF ClientMeans
  <2> QED
    BY <1>1, <2>1, <2>2, <2>3, <2>4
<1>2. CASE j = 2
  <2>1. ClientFrames[2] = build_event_frame("message", [t |-> "str", s |-> "id"])
    BY DEF ClientFrames
  <2>2. ClientMeans[2] = [kind |-> "Event", event |-> "message", data |-> [t |-> "str", s |-> "id"]]
    BY DEF ClientMeans
  <2> QED
    BY <1>2, <2>1, <2>2, IdValue, EventFrame
<1>3. CASE j = 3
  <2> DEFINE packet == [type |-> 1]
  <2>1. ClientFrames[3] = [binary |-> FALSE, head |-> "4", packet |-> packet]
    BY DEF ClientFrames, build_disconnect_frame, Text
  <2>2. packet.type = 1 /\ packet.type # 0
    OBVIOUS
  <2> HIDE DEF packet
  <2>3. parse_text("4", packet) = [kind |-> "Disconnect"]
    BY <2>2 DEF parse_text
  <2>4. parse_frame([binary |-> FALSE, head |-> "4", packet |-> packet]) = parse_text("4", packet)
    BY DEF parse_frame
  <2>5. ClientMeans[3] = [kind |-> "Disconnect"]
    BY DEF ClientMeans
  <2> QED
    BY <1>3, <2>1, <2>3, <2>4, <2>5
<1> QED
  BY <1>1, <1>2, <1>3

-------------------------------------------------------------------------------
(* The inductive invariant.                                                *)

(* How the kind of the request and the places of both sides depend on each *)
(* other.                                                                  *)
PhasesInv ==
  /\ upEnd => cli = "gone"
  /\ cli = "start" <=> kind = "none"
  /\ cli = "start" => srv = "head" /\ srvRead = 0 /\ cliRead = 0 /\ up = <<>> /\ down = <<>>
  /\ srv \in {"head", "body", "reply"} =>
       srvHandled = <<>> /\ srvPending = <<>> /\ srvSent = 0 /\ cliSent = 0 /\ cli # "open"
  /\ cli \in {"start", "head"} => cliHandled = <<>> /\ cliPending = <<>> /\ cliSent = 0
  /\ srv = "body" => kind = "body"
  /\ srv \in {"greet", "open"} \/ cli = "open" => kind = "upgrade"
  /\ kind = "upgrade" /\ cli \in {"head", "open"} => srv # "gone"

(* What is where of n frames that follow a head: some are handled, a piece *)
(* of the next waits, and the stream carries what comes after it.          *)
Carried(handled, pending, stream, n) ==
  \E k \in Nat :
    /\ Len(handled) * FrameUnits <= k /\ k < Len(handled) * FrameUnits + FrameUnits
    /\ k <= n * FrameUnits
    /\ pending = Slice(WholeHead + Len(handled) * FrameUnits, WholeHead + k)
    /\ stream = Slice(WholeHead + k, WholeHead + n * FrameUnits)

(* An upgraded connection: each side is somewhere in the same stream.      *)
UpgradeInv ==
  kind = "upgrade" =>
    /\ srv = "head" => srvRead <= HeadUnits /\ up = Slice(srvRead, WholeHead)
    /\ srv = "reply" => up = <<>> /\ reply = Slice(0, WholeHead)
    /\ srv \in {"greet", "open"} => Carried(srvHandled, srvPending, up, cliSent)
    /\ cli = "head" /\ srv \in {"head", "reply"} => down = <<>> /\ cliRead = 0
    /\ cli = "head" /\ srv \in {"greet", "open"} =>
         cliRead <= HeadUnits /\ down = Slice(cliRead, WholeHead + srvSent * FrameUnits)
    /\ cli = "open" => Carried(cliHandled, cliPending, down, srvSent)

(* Another connection: no answer on it is that of an upgrade.              *)
Refusals == {HeadUnit, BlankLine(FALSE)}
RefusalInv ==
  kind # "upgrade" => down \in Seq(Refusals) /\ (srv = "reply" => reply \in Seq(Refusals))

(* The frames handled are the first ones of those sent.                    *)
Meant(handled, means, n) == \E c \in 0 .. n : handled = [i \in 1 .. c |-> means[i]]
MeaningInv ==
  Meant(cliHandled, ServerMeans, srvSent) /\ Meant(srvHandled, ClientMeans, cliSent)

HandshakeInv == TypeOK /\ PhasesInv /\ UpgradeInv /\ RefusalInv /\ MeaningInv

-------------------------------------------------------------------------------
(* Frames on an upgraded connection.                                       *)

LEMMA MeantLength ==
  ASSUME NEW handled, NEW means, NEW c \in Nat, handled = [i \in 1 .. c |-> means[i]]
  PROVE  Len(handled) = c
OBVIOUS

LEMMA MeansConcat ==
  ASSUME NEW means, NEW c \in Nat, NEW d \in Nat
  PROVE  [i \in 1 .. c |-> means[i]] \o [i \in 1 .. d |-> means[c + i]] = [i \in 1 .. c + d |-> means[i]]
<1> DEFINE S == {means[i] : i \in Nat}
           s == [i \in 1 .. c |-> means[i]]
           t == [i \in 1 .. d |-> means[c + i]]
           u == [i \in 1 .. c + d |-> means[i]]
<1>1. /\ s \in Seq(S) /\ Len(s) = c /\ \A i \in 1 .. c : s[i] = means[i]
      /\ t \in Seq(S) /\ Len(t) = d /\ \A i \in 1 .. d : t[i] = means[c + i]
      /\ u \in Seq(S) /\ Len(u) = c + d /\ \A i \in 1 .. c + d : u[i] = means[i]
  <2>1. \A i \in Nat : means[i] \in S
    OBVIOUS
  <2> HIDE DEF S
  <2> QED
    BY <2>1
<1> HIDE DEF s, t, u
<1>2. s \o t \in Seq(S) /\ Len(s \o t) = c + d
  BY <1>1, ConcatProperties
<1>3. ASSUME NEW i \in 1 .. c + d
      PROVE  (s \o t)[i] = u[i]
  <2>1. (s \o t)[i] = IF i <= c THEN s[i] ELSE t[i - c]
    BY <1>1, ConcatProperties
  <2>2. CASE i <= c
    <3>1. i \in 1 .. c
      BY <2>2
    <3> QED
      BY <1>1, <2>1, <2>2, <3>1
  <2>3. CASE ~(i <= c)
    <3>1. i - c \in 1 .. d /\ c + (i - c) = i
      BY <2>3
    <3> QED
      BY <1>1, <2>1, <2>3, <3>1
  <2> QED
    BY <2>2, <2>3
<1>4. s \o t = u
  BY <1>1, <1>2, <1>3, SeqEqual
<1> QED
  BY <1>4 DEF s, t, u

(* Behind the head all that was sent is under way.                         *)
LEMMA CarriedAtFirst ==
  ASSUME NEW n \in Nat
  PROVE  Carried(<<>>, <<>>, Slice(WholeHead, WholeHead + n * FrameUnits), n)
<1>1. WholeHead \in Nat /\ FrameUnits \in Nat /\ FrameUnits >= 1 /\ WholeHead + 0 = WholeHead
  BY Lengths DEF WholeHead
<1>2. n * FrameUnits \in Nat
  BY MoreFramesAreLonger
<1>3. Len(<<>>) * FrameUnits = 0
  BY <1>1
<1>4. Slice(WholeHead, WholeHead) = <<>>
  BY <1>1, EmptySlice
<1>5. /\ 0 \in Nat /\ Len(<<>>) * FrameUnits <= 0 /\ 0 < Len(<<>>) * FrameUnits + FrameUnits
      /\ 0 <= n * FrameUnits
      /\ <<>> = Slice(WholeHead + Len(<<>>) * FrameUnits, WholeHead + 0)
      /\ Slice(WholeHead, WholeHead + n * FrameUnits) = Slice(WholeHead + 0, WholeHead + n * FrameUnits)
  BY <1>1, <1>2, <1>3, <1>4
<1> QED
  BY <1>5 DEF Carried

LEMMA NextFrame ==
  ASSUME NEW n \in Nat, NEW m \in Nat, m <= WholeHead + n * FrameUnits
  PROVE  Slice(m, WholeHead + n * FrameUnits) \o Frame(n + 1)
           = Slice(m, WholeHead + (n + 1) * FrameUnits)
<1> DEFINE u == WholeHead + n * FrameUnits
           v == WholeHead + (n + 1) * FrameUnits
<1>1. u \in Nat /\ v \in Nat /\ u <= v
  BY Lengths, MoreFramesAreLonger DEF WholeHead
<1>2. Frame(n + 1) = Slice(u, v)
  BY FrameSlice
<1>3. m <= u
  OBVIOUS
<1> HIDE DEF u, v
<1>4. Slice(m, u) \o Slice(u, v) = Slice(m, v)
  BY <1>1, <1>3, SliceConcat
<1> QED
  BY <1>2, <1>4 DEF u, v

LEMMA CarriedSend ==
  ASSUME NEW handled, NEW pending, NEW stream, NEW n \in Nat, Carried(handled, pending, stream, n)
  PROVE  Carried(handled, pending, stream \o Frame(n + 1), n + 1)
<1>1. PICK k \in Nat :
         /\ Len(handled) * FrameUnits <= k /\ k < Len(handled) * FrameUnits + FrameUnits
         /\ k <= n * FrameUnits
         /\ pending = Slice(WholeHead + Len(handled) * FrameUnits, WholeHead + k)
         /\ stream = Slice(WholeHead + k, WholeHead + n * FrameUnits)
  BY DEF Carried
<1>2. WholeHead \in Nat /\ n * FrameUnits \in Nat /\ n + 1 \in Nat
      /\ n * FrameUnits <= (n + 1) * FrameUnits /\ (n + 1) * FrameUnits \in Nat
  BY Lengths, MoreFramesAreLonger DEF WholeHead
<1> DEFINE v == n * FrameUnits
           w == (n + 1) * FrameUnits
<1>3. WholeHead + k \in Nat /\ WholeHead + k <= WholeHead + n * FrameUnits /\ k <= w
  <2>1. v \in Nat /\ w \in Nat /\ k <= v /\ v <= w
    BY <1>1, <1>2
  <2> HIDE DEF v, w
  <2>2. WholeHead + k \in Nat /\ WholeHead + k <= WholeHead + v /\ k <= w
    BY <1>2, <2>1
  <2> QED
    BY <2>2 DEF v
<1>4. stream \o Frame(n + 1) = Slice(WholeHead + k, WholeHead + w)
  BY <1>1, <1>3, NextFrame
<1> QED
  BY <1>1, <1>3, <1>4 DEF Carried

(* One receiving: what is parsed of it are the next frames.                *)
LEMMA CarriedReceive ==
  ASSUME NEW handled, NEW pending, NEW stream, NEW n \in Nat, Carried(handled, pending, stream, n),
         NEW frames, NEW means, \A j \in 1 .. n : parse_frame(frames[j]) = means[j],
         Meant(handled, means, n), NEW r \in 1 .. Len(stream)
  PROVE  LET received == pending \o SubSeq(stream, 1, r)
             now == handled \o Parsed(received, frames)
         IN /\ Carried(now, Incomplete(received), After(stream, r), n)
            /\ Meant(now, means, n) /\ Len(now) <= n
            /\ Len(Incomplete(received)) < FrameUnits
<1> DEFINE received == pending \o SubSeq(stream, 1, r)
           now == handled \o Parsed(received, frames)
<1>1. PICK c \in 0 .. n : handled = [i \in 1 .. c |-> means[i]]
  BY DEF Meant
<1>2. c \in Nat /\ Len(handled) = c
  BY <1>1, MeantLength
<1>3. PICK k \in Nat :
         /\ c * FrameUnits <= k /\ k < c * FrameUnits + FrameUnits /\ k <= n * FrameUnits
         /\ pending = Slice(WholeHead + c * FrameUnits, WholeHead + k)
         /\ stream = Slice(WholeHead + k, WholeHead + n * FrameUnits)
  BY <1>2 DEF Carried
<1> DEFINE u == c * FrameUnits
           v == n * FrameUnits
<1>4. WholeHead \in Nat /\ FrameUnits \in Nat /\ FrameUnits >= 1 /\ u \in Nat /\ v \in Nat
      /\ u <= k /\ k <= v
  BY <1>2, <1>3, Lengths, MoreFramesAreLonger DEF WholeHead
<1>5. pending = Slice(WholeHead + u, WholeHead + k) /\ stream = Slice(WholeHead + k, WholeHead + v)
  BY <1>3
<1> HIDE DEF u, v, received, now
<1>6. WholeHead + k \in Nat /\ WholeHead + v \in Nat /\ WholeHead + k <= WholeHead + v
      /\ (WholeHead + v) - (WholeHead + k) = v - k /\ WholeHead + u \in Nat
      /\ WholeHead + u <= WholeHead + k
  BY <1>4
<1>7. Len(stream) = v - k
  BY <1>5, <1>6, SliceIsSeq
<1>8. r \in Nat /\ r \in 0 .. v - k /\ k + r \in Nat /\ u <= k + r /\ k + r <= v
      /\ (WholeHead + k) + r = WholeHead + (k + r) /\ WholeHead + (k + r) \in Nat
      /\ WholeHead + k <= WholeHead + (k + r)
  BY <1>4, <1>7
<1>9. SubSeq(stream, 1, r) = Slice(WholeHead + k, WholeHead + (k + r))
      /\ After(stream, r) = Slice(WholeHead + (k + r), WholeHead + v)
  <2>1. r \in 0 .. (WholeHead + v) - (WholeHead + k)
    BY <1>6, <1>8
  <2>2. SubSeq(stream, 1, r) = Slice(WholeHead + k, (WholeHead + k) + r)
        /\ After(stream, r) = Slice((WholeHead + k) + r, WholeHead + v)
    BY <1>5, <1>6, <2>1, SliceSplit
  <2> QED
    BY <1>8, <2>2
<1>10. received = Slice(WholeHead + u, WholeHead + (k + r))
  <2> DEFINE a == WholeHead + u
             b == WholeHead + k
             e == WholeHead + (k + r)
  <2>1. a \in Nat /\ b \in Nat /\ e \in Nat /\ a <= b /\ b <= e
    BY <1>6, <1>8
  <2>2. received = Slice(a, b) \o Slice(b, e)
    BY <1>5, <1>9 DEF received
  <2> HIDE DEF a, b, e
  <2>3. Slice(a, b) \o Slice(b, e) = Slice(a, e)
    BY <2>1, SliceConcat
  <2> QED
    BY <2>2, <2>3 DEF a, e
<1> DEFINE d == Complete(received)
           w == (c + d) * FrameUnits
<1>11. /\ d \in Nat /\ w \in Nat /\ w <= k + r /\ k + r < w + FrameUnits
       /\ Parsed(received, frames) = [i \in 1 .. d |-> parse_frame(frames[c + i])]
       /\ Incomplete(received) = Slice(WholeHead + w, WholeHead + (k + r))
       /\ Len(Incomplete(received)) = (k + r) - w
  <2> DEFINE q == k + r
  <2>1. q \in Nat /\ c * FrameUnits <= q /\ received = Slice(WholeHead + c * FrameUnits, WholeHead + q)
    BY <1>8, <1>10 DEF u
  <2> HIDE DEF q
  <2>2. /\ d \in Nat /\ w \in Nat /\ w <= q /\ q < w + FrameUnits
        /\ Parsed(received, frames) = [i \in 1 .. d |-> parse_frame(frames[c + i])]
        /\ Incomplete(received) = Slice(WholeHead + w, WholeHead + q)
        /\ Len(Incomplete(received)) = q - w
    BY <1>2, <2>1, ParsedSlice
  <2> QED
    BY <2>2 DEF q
<1> HIDE DEF d
<1>12. c + d \in Nat /\ c + d <= n
  <2>1. c + d \in Nat
    BY <1>2, <1>11
  <2> SUFFICES ASSUME n < c + d PROVE FALSE
    BY <2>1
  <2>2. n * FrameUnits + FrameUnits <= (c + d) * FrameUnits
    BY <2>1, MoreFramesAreLonger
  <2>3. v + FrameUnits <= w
    BY <2>2 DEF v
  <2> HIDE DEF w
  <2> QED
    BY <1>4, <1>8, <1>11, <2>3
<1>13. Parsed(received, frames) = [i \in 1 .. d |-> means[c + i]]
  <2>1. \A i \in 1 .. d : c + i \in 1 .. n
    BY <1>2, <1>11, <1>12
  <2>2. \A i \in 1 .. d : parse_frame(frames[c + i]) = means[c + i]
    BY <2>1
  <2> QED
    BY <1>11, <2>2
<1>14. now = [i \in 1 .. c + d |-> means[i]]
  <2>1. now = [i \in 1 .. c |-> means[i]] \o [i \in 1 .. d |-> means[c + i]]
    BY <1>1, <1>13, Zenon DEF now
  <2>2. d \in Nat
    BY <1>11
  <2>3. [i \in 1 .. c |-> means[i]] \o [i \in 1 .. d |-> means[c + i]] = [i \in 1 .. c + d |-> means[i]]
    BY <1>2, <2>2, MeansConcat
  <2> QED
    BY <2>1, <2>3, Zenon
<1>15. Len(now) = c + d
  BY <1>12, <1>14, MeantLength
<1>16. Meant(now, means, n)
  <2>1. c + d \in 0 .. n
    BY <1>12
  <2> QED
    BY <1>14, <2>1 DEF Meant
<1>17. Carried(now, Incomplete(received), After(stream, r), n)
  <2> HIDE DEF w
  <2>1. Len(now) * FrameUnits = w
    BY <1>15 DEF w
  <2>2. /\ k + r \in Nat /\ Len(now) * FrameUnits <= k + r
        /\ k + r < Len(now) * FrameUnits + FrameUnits /\ k + r <= n * FrameUnits
    BY <1>8, <1>11, <2>1 DEF v
  <2>3. /\ Incomplete(received) = Slice(WholeHead + Len(now) * FrameUnits, WholeHead + (k + r))
        /\ After(stream, r) = Slice(WholeHead + (k + r), WholeHead + n * FrameUnits)
    BY <1>9, <1>11, <2>1 DEF v
  <2> QED
    BY <2>2, <2>3 DEF Carried
<1>18. Len(Incomplete(received)) < FrameUnits
  <2> HIDE DEF w
  <2> QED
    BY <1>4, <1>8, <1>11
<1> QED
  BY <1>12, <1>15, <1>16, <1>17, <1>18 DEF now, received

-------------------------------------------------------------------------------
(* One reading of a head.                                                  *)

LEMMA HeadUnitRead ==
  ASSUME NEW m \in Nat, NEW n \in Nat, m <= HeadUnits, WholeHead <= n
  PROVE  LET taken == SubSeq(Slice(m, n), 1, 1)
         IN /\ After(Slice(m, n), 1) = Slice(m + 1, n)
            /\ HeadEnds(taken) <=> m = HeadUnits
            /\ Accepted(taken) <=> m = HeadUnits
<1> DEFINE taken == SubSeq(Slice(m, n), 1, 1)
<1>1. HeadUnits \in Nat /\ WholeHead = HeadUnits + 1 /\ m <= n /\ 1 \in 0 .. n - m
  BY Lengths DEF WholeHead
<1>2. taken = Slice(m, m + 1) /\ After(Slice(m, n), 1) = Slice(m + 1, n)
  BY <1>1, SliceSplit
<1>3. DOMAIN taken = {1} /\ taken[1] = Stream[m + 1]
  <2>1. (m + 1) - m = 1 /\ m + 1 \in Nat /\ m <= m + 1
    OBVIOUS
  <2> DEFINE e == m + 1
  <2>2. Slice(m, e) \in Seq(Units) /\ Len(Slice(m, e)) = 1 /\ Slice(m, e)[1] = Stream[m + 1]
    <3>1. e \in Nat /\ m <= e /\ e - m = 1 /\ 1 \in 1 .. 1
      BY <2>1
    <3> HIDE DEF e
    <3> QED
      BY <3>1, SliceIsSeq
  <2> HIDE DEF taken
  <2>3. DOMAIN taken = 1 .. 1
    BY <1>2, <2>2
  <2> QED
    BY <1>2, <2>2, <2>3
<1>4. m < HeadUnits => Stream[m + 1] = HeadUnit
  <2> SUFFICES ASSUME m < HeadUnits PROVE Stream[m + 1] = HeadUnit
    OBVIOUS
  <2>1. m + 1 \in Nat \ {0} /\ m + 1 <= HeadUnits
    BY <1>1
  <2> QED
    BY <2>1 DEF Stream
<1>5. m = HeadUnits => Stream[m + 1] = BlankLine(TRUE)
  <2> SUFFICES ASSUME m = HeadUnits PROVE Stream[m + 1] = BlankLine(TRUE)
    OBVIOUS
  <2>1. m + 1 \in Nat \ {0} /\ ~(m + 1 <= HeadUnits) /\ m + 1 = WholeHead
    BY <1>1
  <2> QED
    BY <2>1 DEF Stream
<1> HIDE DEF taken
<1>6. CASE m = HeadUnits
  <2>1. HeadEnds(taken) /\ Accepted(taken)
    BY <1>3, <1>5, <1>6 DEF HeadEnds, Accepted, BlankLine
  <2> QED
    BY <1>2, <1>6, <2>1 DEF taken
<1>7. CASE m # HeadUnits
  <2>1. m < HeadUnits
    BY <1>1, <1>7
  <2>2. ~HeadEnds(taken) /\ ~Accepted(taken)
    BY <1>3, <1>4, <2>1 DEF HeadEnds, Accepted, HeadUnit
  <2> QED
    BY <1>2, <1>7, <2>2 DEF taken
<1> QED
  BY <1>6, <1>7

(* Another answer than that of an upgrade is never accepted.               *)
LEMMA RefusalPiece ==
  ASSUME NEW s \in Seq(Refusals), NEW n \in 1 .. Len(s)
  PROVE  /\ SubSeq(s, 1, n) \in Seq(Refusals) /\ After(s, n) \in Seq(Refusals)
         /\ ~Accepted(SubSeq(s, 1, n))
<1>1. \A i \in 1 .. Len(s) : s[i] \in Refusals
  BY ElementOfSeq
<1>2. Len(s) \in Nat
  BY LenProperties
<1> DEFINE taken == SubSeq(s, 1, n)
<1> HIDE DEF Refusals
<1>3. taken \in Seq(Refusals)
  <2>1. \A i \in 1 .. n : s[i] \in Refusals
    BY <1>1, <1>2
  <2> QED
    BY <2>1, SubSeqProperties
<1>4. After(s, n) \in Seq(Refusals)
  <2>1. \A i \in n + 1 .. Len(s) : s[i] \in Refusals
    BY <1>1, <1>2
  <2>2. n + 1 \in Int /\ Len(s) \in Int
    BY <1>2
  <2> QED
    BY <2>1, <2>2, SubSeqProperties DEF After
<1>5. ~Accepted(taken)
  <2> HIDE DEF taken
  <2>1. \A i \in DOMAIN taken : taken[i] \in Refusals
    BY <1>3
  <2>2. \A x \in Refusals : ~(x.unit = "blank" /\ x.ok)
    BY DEF Refusals, HeadUnit, BlankLine
  <2> QED
    BY <2>1, <2>2 DEF Accepted
<1> QED
  BY <1>3, <1>4, <1>5 DEF taken

LEMMA RefusalHead == HeadOf(HeadUnits, FALSE) \in Seq(Refusals)
<1> DEFINE head == [i \in 1 .. HeadUnits |-> HeadUnit]
           blank == <<BlankLine(FALSE)>>
<1>1. HeadUnit \in Refusals /\ BlankLine(FALSE) \in Refusals
  BY DEF Refusals
<1> HIDE DEF Refusals
<1>2. head \in Seq(Refusals)
  BY <1>1, Lengths
<1>3. blank \in Seq(Refusals)
  <2>1. \A x \in Refusals : <<x>> \in Seq(Refusals)
    OBVIOUS
  <2> QED
    BY <1>1, <2>1, Zenon
<1> HIDE DEF head, blank
<1>4. head \o blank \in Seq(Refusals)
  BY <1>2, <1>3, ConcatProperties
<1> QED
  BY <1>4 DEF HeadOf, head, blank

-------------------------------------------------------------------------------
(* Facts about every step.                                                 *)

LEMMA FrameCounts ==
  /\ Len(ServerFrames) = 4 /\ Len(ClientFrames) = 3
  /\ Len(ServerFrames)' = 4 /\ Len(ClientFrames)' = 3
BY DEF ServerFrames, ClientFrames

LEMMA MeansUnchanged ==
  ASSUME payload' = payload
  PROVE  ServerMeans' = ServerMeans
BY DEF ServerMeans

LEMMA MeantMore ==
  ASSUME NEW handled, NEW means, NEW n \in Nat, Meant(handled, means, n)
  PROVE  Meant(handled, means, n + 1)
BY DEF Meant

(* A step that changes neither what was sent nor what was handled.         *)
LEMMA MeaningUnchanged ==
  ASSUME MeaningInv, UNCHANGED <<cliHandled, srvHandled, srvSent, cliSent, payload>>
  PROVE  MeaningInv'
BY MeansUnchanged DEF MeaningInv

LEMMA EveryType ==
  ASSUME TypeOK
  PROVE  /\ srvRead \in Nat /\ cliRead \in Nat /\ srvSent \in 0 .. 4 /\ cliSent \in 0 .. 3
         /\ srvRead <= MaxHead + BodyUnits /\ cliRead <= MaxHead /\ srvSent \in Nat /\ cliSent \in Nat
BY FrameCounts, Lengths DEF TypeOK

-------------------------------------------------------------------------------
(* Every action keeps the invariant.                                       *)

LEMMA Initially == Init => HandshakeInv
<1> SUFFICES ASSUME Init PROVE HandshakeInv
  OBVIOUS
<1>1. TypeOK
  <2>1. Len(<<>>) = 0 /\ 0 < FrameUnits /\ 0 \in 0 .. MaxHead + BodyUnits /\ 0 \in 0 .. MaxHead
    BY Lengths
  <2>2. /\ kind \in {"none", "upgrade", "refused", "body", "endless"}
        /\ srv \in {"head", "body", "reply", "greet", "open", "gone"}
        /\ cli \in {"start", "head", "open", "gone"}
        /\ upEnd \in BOOLEAN /\ downEnd \in BOOLEAN
    BY DEF Init
  <2>3. /\ srvRead = 0 /\ cliRead = 0 /\ srvSent = 0 /\ cliSent = 0
        /\ Len(srvPending) = 0 /\ Len(cliPending) = 0 /\ Len(srvHandled) = 0 /\ Len(cliHandled) = 0
    BY DEF Init
  <2>4. payload \in Values
    BY NullValue DEF Init
  <2> QED
    BY <2>1, <2>2, <2>3, <2>4, FrameCounts DEF TypeOK
<1>2. PhasesInv
  BY DEF Init, PhasesInv
<1>3. UpgradeInv
  BY DEF Init, UpgradeInv
<1>4. RefusalInv
  BY DEF Init, RefusalInv
<1>5. MeaningInv
  <2>1. \A means : Meant(<<>>, means, 0)
    BY DEF Meant
  <2> QED
    BY <2>1 DEF Init, MeaningInv
<1> QED
  BY <1>1, <1>2, <1>3, <1>4, <1>5 DEF HandshakeInv

LEMMA ServerReadsHeadStep ==
  ASSUME HandshakeInv, ServerReadsHead
  PROVE  HandshakeInv'
<1> USE DEF HandshakeInv
<1>1. /\ srv = "head" /\ up' = After(up, 1)
      /\ UNCHANGED <<upEnd, clientVars, down, srvPending, srvSent, srvHandled, payload>>
  BY DEF ServerReadsHead, HeadReads, ServerLeaves, downVars
<1> DEFINE taken == SubSeq(up, 1, 1)
<1>2. \/ HeadEnds(taken) /\ HeadIsRead
      \/ ~HeadEnds(taken) /\ TooLong(srvRead + 1) /\ srv' = "gone" /\ UNCHANGED <<srvRead, reply>>
      \/ ~HeadEnds(taken) /\ ~TooLong(srvRead + 1) /\ srvRead' = srvRead + 1 /\ UNCHANGED <<srv, reply>>
  BY DEF ServerReadsHead, HeadReads, ServerLeaves
<1>3. downEnd' \in BOOLEAN
  BY DEF ServerReadsHead, HeadReads, ServerLeaves, downVars, TypeOK
<1> HIDE DEF taken
<1>4. srv' \in {"head", "body", "reply", "gone"} /\ (srv' = "body" => kind = "body")
      /\ srvRead' \in 0 .. MaxHead + BodyUnits
  BY <1>1, <1>2, EveryType, Lengths DEF HeadIsRead, TooLong
<1>5. TypeOK'
  BY <1>1, <1>3, <1>4, FrameCounts DEF TypeOK, clientVars
<1>6. cli # "start"
  BY DEF ServerReadsHead, PhasesInv
<1>7. kind = "upgrade" =>
        /\ srv' \in {"head", "reply"}
        /\ srv' = "head" => srvRead' <= HeadUnits /\ up' = Slice(srvRead', WholeHead)
        /\ srv' = "reply" => up' = <<>> /\ reply' = Slice(0, WholeHead)
  <2> SUFFICES ASSUME kind = "upgrade"
               PROVE  /\ srv' \in {"head", "reply"}
                      /\ srv' = "head" => srvRead' <= HeadUnits /\ up' = Slice(srvRead', WholeHead)
                      /\ srv' = "reply" => up' = <<>> /\ reply' = Slice(0, WholeHead)
    OBVIOUS
  <2>1. srvRead \in Nat /\ srvRead <= HeadUnits /\ up = Slice(srvRead, WholeHead)
        /\ WholeHead \in Nat /\ WholeHead = HeadUnits + 1 /\ HeadUnits \in Nat
    BY <1>1, EveryType, Lengths DEF UpgradeInv, WholeHead
  <2>2. up' = Slice(srvRead + 1, WholeHead) /\ (HeadEnds(taken) <=> srvRead = HeadUnits)
    BY <1>1, <2>1, HeadUnitRead DEF taken
  <2>3. CASE HeadEnds(taken)
    <3>1. srv' = "reply" /\ reply' = HeadOf(HeadUnits, TRUE)
      BY <1>2, <2>3 DEF HeadIsRead
    <3>2. up' = <<>>
      BY <2>1, <2>2, <2>3, EmptySlice
    <3> QED
      BY <3>1, <3>2, HeadSlice
  <2>4. CASE ~HeadEnds(taken)
    <3>1. srvRead < HeadUnits /\ ~TooLong(srvRead + 1)
      BY <2>1, <2>2, <2>4, Lengths DEF TooLong
    <3>2. srvRead' = srvRead + 1 /\ srv' = "head"
      BY <1>1, <1>2, <2>4, <3>1
    <3> QED
      BY <2>1, <2>2, <3>1, <3>2
  <2> QED
    BY <2>3, <2>4
<1>8. PhasesInv'
  BY <1>1, <1>4, <1>6, <1>7 DEF PhasesInv, clientVars
<1>9. UpgradeInv'
  BY <1>1, <1>6, <1>7, <1>8 DEF UpgradeInv, PhasesInv, clientVars
<1>10. RefusalInv'
  <2>1. kind # "upgrade" /\ srv' = "reply" => reply' = HeadOf(HeadUnits, FALSE)
    BY <1>1, <1>2 DEF HeadIsRead
  <2> QED
    BY <1>1, <2>1, RefusalHead DEF RefusalInv, clientVars
<1>11. MeaningInv'
  BY <1>1, MeaningUnchanged DEF clientVars
<1> QED
  BY <1>5, <1>8, <1>9, <1>10, <1>11

LEMMA ServerReadsBodyStep ==
  ASSUME HandshakeInv, ServerReadsBody
  PROVE  HandshakeInv'
<1> USE DEF HandshakeInv
<1>1. /\ srv = "body" /\ kind = "body"
      /\ UNCHANGED <<upEnd, downVars, clientVars, srvPending, srvSent, srvHandled, payload>>
  BY DEF ServerReadsBody, PhasesInv
<1>2. \/ srv' = "reply" /\ reply' = HeadOf(HeadUnits, FALSE)
      \/ UNCHANGED <<srv, reply>>
  BY DEF ServerReadsBody
<1>3. srvRead' \in 0 .. MaxHead + BodyUnits
  BY EveryType, Lengths DEF ServerReadsBody
<1>4. TypeOK'
  BY <1>1, <1>2, <1>3, FrameCounts DEF TypeOK, clientVars, downVars
<1>5. PhasesInv'
  BY <1>1, <1>2 DEF PhasesInv, clientVars, downVars
<1>6. UpgradeInv'
  BY <1>1 DEF UpgradeInv, clientVars
<1>7. RefusalInv'
  BY <1>1, <1>2, RefusalHead DEF RefusalInv, clientVars, downVars
<1>8. MeaningInv'
  BY <1>1, MeaningUnchanged DEF clientVars
<1> QED
  BY <1>4, <1>5, <1>6, <1>7, <1>8

LEMMA ServerRepliesStep ==
  ASSUME HandshakeInv, ServerReplies
  PROVE  HandshakeInv'
<1> USE DEF HandshakeInv
<1>1. srv = "reply" /\ UNCHANGED <<srvRead, srvPending, srvSent, srvHandled, payload, upVars, clientVars>>
  BY DEF ServerReplies
<1>2. PICK n \in 1 .. Len(reply) :
        /\ kind = "upgrade" => n = Len(reply)
        /\ down' = down \o SubSeq(reply, 1, n) /\ reply' = After(reply, n)
        /\ IF n < Len(reply) THEN UNCHANGED <<srv, downEnd>>
           ELSE /\ srv' = IF kind = "upgrade" THEN "greet" ELSE "gone"
                /\ downEnd' = (kind # "upgrade")
  BY DEF ServerReplies
<1>3. srv' \in {"reply", "greet", "gone"} /\ (srv' = "greet" => kind = "upgrade")
      /\ downEnd' \in BOOLEAN
  BY <1>1, <1>2 DEF TypeOK
<1>4. kind = "upgrade" => srv' = "greet" /\ SubSeq(reply, 1, n) = Slice(0, WholeHead)
  <2> SUFFICES ASSUME kind = "upgrade" PROVE srv' = "greet" /\ SubSeq(reply, 1, n) = Slice(0, WholeHead)
    OBVIOUS
  <2>1. reply = Slice(0, WholeHead) /\ WholeHead \in Nat /\ 0 <= WholeHead /\ WholeHead - 0 = WholeHead
    BY <1>1, Lengths DEF UpgradeInv, WholeHead
  <2>2. Len(reply) = WholeHead
    BY <2>1, SliceIsSeq
  <2>3. n = WholeHead /\ n \in 0 .. WholeHead - 0 /\ 0 + n = WholeHead
    BY <1>2, <2>1, <2>2
  <2>4. SubSeq(Slice(0, WholeHead), 1, n) = Slice(0, 0 + n)
    BY <2>1, <2>3, SliceSplit
  <2>5. ~(n < Len(reply))
    BY <2>1, <2>2, <2>3
  <2> QED
    BY <1>2, <2>1, <2>3, <2>4, <2>5
<1>5. TypeOK'
  BY <1>1, <1>3, FrameCounts DEF TypeOK, clientVars, upVars
<1>6. cli # "start"
  BY <1>1 DEF PhasesInv
<1>7. PhasesInv'
  BY <1>1, <1>3, <1>4, <1>6 DEF PhasesInv, clientVars, upVars
<1>8. UpgradeInv'
  <2> SUFFICES ASSUME kind = "upgrade" PROVE UpgradeInv'
    BY <1>1 DEF UpgradeInv, clientVars
  <2>1. srv' = "greet" /\ cli' = cli /\ cli # "open"
    BY <1>1, <1>4 DEF PhasesInv, clientVars
  <2>2. srvHandled' = <<>> /\ srvPending' = <<>> /\ up' = <<>> /\ cliSent' = 0 /\ srvSent' = 0
    BY <1>1 DEF PhasesInv, UpgradeInv, clientVars, upVars
  <2>3. WholeHead \in Nat /\ 0 * FrameUnits = 0 /\ WholeHead + 0 = WholeHead /\ FrameUnits \in Nat
        /\ 0 <= WholeHead
    BY Lengths DEF WholeHead
  <2>4. Carried(<<>>, <<>>, <<>>, 0)
    <3>1. Slice(WholeHead, WholeHead + 0 * FrameUnits) = <<>>
      BY <2>3, EmptySlice
    <3> QED
      BY <3>1, CarriedAtFirst
  <2>5. Carried(srvHandled', srvPending', up', cliSent')
    BY <2>2, <2>4
  <2>6. cli = "head" => cliRead' = 0 /\ down' = Slice(0, WholeHead + 0 * FrameUnits)
    <3> SUFFICES ASSUME cli = "head" PROVE cliRead' = 0 /\ down' = Slice(0, WholeHead + 0 * FrameUnits)
      OBVIOUS
    <3>1. down = <<>> /\ cliRead' = 0
      BY <1>1 DEF UpgradeInv, clientVars
    <3>2. <<>> = Slice(0, 0)
      BY EmptySlice
    <3>3. \A w \in Nat : Slice(0, 0) \o Slice(0, w) = Slice(0, w)
      <4> TAKE w \in Nat
      <4>1. 0 \in Nat /\ 0 <= 0 /\ 0 <= w
        OBVIOUS
      <4> QED
        BY <4>1, SliceConcat
    <3>4. Slice(0, 0) \o Slice(0, WholeHead) = Slice(0, WholeHead)
      BY <2>3, <3>3
    <3> QED
      BY <1>2, <1>4, <2>3, <3>1, <3>2, <3>4
  <2> QED
    BY <2>1, <2>2, <2>5, <2>6, Lengths DEF UpgradeInv
<1>9. RefusalInv'
  <2> SUFFICES ASSUME kind # "upgrade"
               PROVE  down' \in Seq(Refusals) /\ reply' \in Seq(Refusals)
    BY <1>1 DEF RefusalInv, clientVars
  <2>1. down \in Seq(Refusals) /\ reply \in Seq(Refusals)
    BY <1>1 DEF RefusalInv
  <2>2. SubSeq(reply, 1, n) \in Seq(Refusals) /\ After(reply, n) \in Seq(Refusals)
    BY <2>1, RefusalPiece
  <2> HIDE DEF Refusals
  <2>3. down \o SubSeq(reply, 1, n) \in Seq(Refusals)
    BY <2>1, <2>2, ConcatProperties
  <2> QED
    BY <1>2, <2>2, <2>3
<1>10. MeaningInv'
  BY <1>1, MeaningUnchanged DEF clientVars
<1> QED
  BY <1>5, <1>7, <1>8, <1>9, <1>10

LEMMA ServerSendsStep ==
  ASSUME HandshakeInv, ServerSends
  PROVE  HandshakeInv'
<1> USE DEF HandshakeInv
<1>1. /\ srv \in {"greet", "open"} /\ srvSent < 4
      /\ srvSent' = srvSent + 1 /\ down' = down \o Frame(srvSent + 1)
      /\ (srvSent' # 4 => payload' = payload) /\ srv' = IF srvSent' = 3 THEN "open" ELSE srv
      /\ UNCHANGED <<srvRead, reply, srvPending, srvHandled, downEnd, upVars, clientVars>>
  BY FrameCounts DEF ServerSends
<1>2. payload' \in Values
  BY DEF ServerSends, TypeOK
<1>3. srv' \in {"greet", "open"} /\ srvSent \in Nat /\ kind = "upgrade" /\ cli # "start"
  BY <1>1, EveryType DEF PhasesInv
<1>4. TypeOK'
  <2>1. srvSent' \in 0 .. 4 /\ srvSent <= srvSent'
    BY <1>1, <1>3
  <2>2. Len(cliHandled) <= srvSent'
    <3>1. PICK c \in 0 .. srvSent : cliHandled = [i \in 1 .. c |-> ServerMeans[i]]
      BY DEF MeaningInv, Meant
    <3>2. Len(cliHandled) = c
      BY <3>1, MeantLength
    <3> QED
      BY <1>3, <2>1, <3>1, <3>2
  <2> QED
    BY <1>1, <1>2, <1>3, <2>1, <2>2, FrameCounts DEF TypeOK, clientVars, upVars
<1>5. PhasesInv'
  BY <1>1, <1>3 DEF PhasesInv, clientVars, upVars
<1>6. UpgradeInv'
  <2>1. Carried(srvHandled', srvPending', up', cliSent')
    BY <1>1, <1>3 DEF UpgradeInv, clientVars, upVars
  <2>2. cli = "head" =>
          cliRead' <= HeadUnits /\ down' = Slice(cliRead', WholeHead + srvSent' * FrameUnits)
    <3> SUFFICES ASSUME cli = "head"
                 PROVE  cliRead' <= HeadUnits
                        /\ down' = Slice(cliRead', WholeHead + srvSent' * FrameUnits)
      OBVIOUS
    <3>1. cliRead' = cliRead /\ cliRead <= HeadUnits /\ cliRead \in Nat
          /\ down = Slice(cliRead, WholeHead + srvSent * FrameUnits)
      BY <1>1, <1>3, EveryType DEF UpgradeInv, clientVars
    <3> DEFINE v == srvSent * FrameUnits
    <3>2. v \in Nat
      BY <1>3, MoreFramesAreLonger
    <3> HIDE DEF v
    <3>3. cliRead <= WholeHead + v
      BY <3>1, <3>2, Lengths DEF WholeHead
    <3>4. Slice(cliRead, WholeHead + srvSent * FrameUnits) \o Frame(srvSent + 1)
            = Slice(cliRead, WholeHead + (srvSent + 1) * FrameUnits)
      BY <1>3, <3>1, <3>3, NextFrame DEF v
    <3> QED
      BY <1>1, <3>1, <3>4
  <2>3. cli = "open" => Carried(cliHandled', cliPending', down', srvSent')
    <3> SUFFICES ASSUME cli = "open" PROVE Carried(cliHandled', cliPending', down', srvSent')
      OBVIOUS
    <3>1. Carried(cliHandled, cliPending, down, srvSent)
      BY <1>3 DEF UpgradeInv
    <3>2. Carried(cliHandled, cliPending, down \o Frame(srvSent + 1), srvSent + 1)
      BY <1>3, <3>1, CarriedSend
    <3>3. cliHandled' = cliHandled /\ cliPending' = cliPending
      BY <1>1 DEF clientVars
    <3> QED
      BY <1>1, <3>2, <3>3
  <2> QED
    BY <1>1, <1>3, <2>1, <2>2, <2>3 DEF UpgradeInv, clientVars
<1>7. RefusalInv'
  BY <1>1, <1>3 DEF RefusalInv, clientVars
<1>8. MeaningInv'
  <2>1. PICK c \in 0 .. srvSent : cliHandled = [i \in 1 .. c |-> ServerMeans[i]]
    BY DEF MeaningInv, Meant
  <2>2. c \in 0 .. srvSent' /\ c \in 0 .. 3
    BY <1>1, <1>3
  <2>3. ASSUME NEW i \in 1 .. 3
        PROVE  ServerMeans'[i] = ServerMeans[i]
    BY DEF ServerMeans
  <2>4. cliHandled' = [i \in 1 .. c |-> ServerMeans'[i]]
    <3>1. \A i \in 1 .. c : ServerMeans'[i] = ServerMeans[i]
      BY <2>2, <2>3
    <3>2. cliHandled' = cliHandled
      BY <1>1 DEF clientVars
    <3> QED
      BY <2>1, <3>1, <3>2
  <2>5. Meant(cliHandled', ServerMeans', srvSent')
    BY <2>2, <2>4 DEF Meant
  <2>6. Meant(srvHandled', ClientMeans, cliSent')
    BY <1>1 DEF MeaningInv, clientVars
  <2>7. ClientMeans' = ClientMeans
    BY DEF ClientMeans
  <2> QED
    BY <2>5, <2>6, <2>7 DEF MeaningInv
<1> QED
  BY <1>4, <1>5, <1>6, <1>7, <1>8

LEMMA ServerReceivesStep ==
  ASSUME HandshakeInv, ServerReceives
  PROVE  HandshakeInv'
<1> USE DEF HandshakeInv
<1>1. srv = "open" /\ kind = "upgrade" /\ cli # "start"
      /\ UNCHANGED <<srv, srvRead, reply, srvSent, payload, upEnd, downVars, clientVars>>
  BY DEF ServerReceives, PhasesInv
<1>2. PICK n \in 1 .. Len(up) :
        LET received == srvPending \o SubSeq(up, 1, n)
        IN /\ up' = After(up, n)
           /\ srvHandled' = srvHandled \o Parsed(received, ClientFrames)
           /\ srvPending' = Incomplete(received)
  BY DEF ServerReceives
<1>3. cliSent \in Nat /\ cliSent <= 3
  BY EveryType
<1>4. \A j \in 1 .. cliSent : parse_frame(ClientFrames[j]) = ClientMeans[j]
  BY <1>3, ClientFrameMeans
<1>5. Carried(srvHandled, srvPending, up, cliSent) /\ Meant(srvHandled, ClientMeans, cliSent)
  BY <1>1 DEF UpgradeInv, MeaningInv
<1>6. /\ Carried(srvHandled', srvPending', up', cliSent)
      /\ Meant(srvHandled', ClientMeans, cliSent) /\ Len(srvHandled') <= cliSent
      /\ Len(srvPending') < FrameUnits
  BY <1>2, <1>3, <1>4, <1>5, CarriedReceive
<1>7. TypeOK'
  BY <1>1, <1>6, FrameCounts DEF TypeOK, clientVars, downVars
<1>8. PhasesInv'
  BY <1>1 DEF PhasesInv, clientVars, downVars
<1>9. UpgradeInv'
  BY <1>1, <1>6 DEF UpgradeInv, clientVars, downVars
<1>10. RefusalInv'
  BY <1>1 DEF RefusalInv, clientVars
<1>11. MeaningInv'
  <2>1. Meant(cliHandled', ServerMeans', srvSent')
    BY <1>1, MeansUnchanged DEF MeaningInv, clientVars
  <2>2. ClientMeans' = ClientMeans /\ cliSent' = cliSent
    BY <1>1 DEF ClientMeans, clientVars
  <2> QED
    BY <1>6, <2>1, <2>2 DEF MeaningInv
<1> QED
  BY <1>7, <1>8, <1>9, <1>10, <1>11

LEMMA ServerFindsEndStep ==
  ASSUME HandshakeInv, ServerFindsEnd
  PROVE  HandshakeInv'
<1> USE DEF HandshakeInv
<1>1. /\ srv' = "gone" /\ downEnd' = TRUE /\ cli = "gone"
      /\ UNCHANGED <<srvRead, reply, srvPending, srvSent, srvHandled, payload, down, upVars, clientVars>>
  BY DEF ServerFindsEnd, ServerLeaves, PhasesInv
<1>2. TypeOK'
  BY <1>1, FrameCounts DEF TypeOK, clientVars, upVars
<1>3. PhasesInv'
  BY <1>1 DEF PhasesInv, clientVars, upVars
<1>4. UpgradeInv'
  BY <1>1 DEF UpgradeInv, clientVars
<1>5. RefusalInv'
  BY <1>1 DEF RefusalInv, clientVars
<1>6. MeaningInv'
  BY <1>1, MeaningUnchanged DEF clientVars
<1> QED
  BY <1>2, <1>3, <1>4, <1>5, <1>6

LEMMA ClientAsksStep ==
  ASSUME HandshakeInv, NEW k \in {"upgrade", "refused", "body", "endless"}, ClientAsks(k)
  PROVE  HandshakeInv'
<1> USE DEF HandshakeInv
<1>1. /\ cli = "start" /\ cli' = "head" /\ kind' = k /\ up' = Request(k)
      /\ UNCHANGED <<upEnd, cliRead, cliPending, cliSent, cliHandled, downVars, serverVars>>
  BY DEF ClientAsks
<1>2. kind = "none" /\ srv = "head" /\ srvRead = 0 /\ cliRead = 0 /\ down = <<>>
  BY <1>1 DEF PhasesInv
<1>3. TypeOK'
  BY <1>1, FrameCounts DEF TypeOK, serverVars, downVars
<1>4. PhasesInv'
  BY <1>1, <1>2 DEF PhasesInv, serverVars, downVars
<1>5. UpgradeInv'
  <2>1. k = "upgrade" => up' = Slice(0, WholeHead)
    <3>1. k = "upgrade" => Request(k) = HeadOf(HeadUnits, TRUE)
      BY DEF Request
    <3> QED
      BY <1>1, <3>1, HeadSlice
  <2> QED
    BY <1>1, <1>2, <2>1, Lengths DEF UpgradeInv, serverVars, downVars
<1>6. RefusalInv'
  BY <1>1, <1>2 DEF RefusalInv, serverVars, downVars
<1>7. MeaningInv'
  BY <1>1, MeaningUnchanged DEF serverVars
<1> QED
  BY <1>3, <1>4, <1>5, <1>6, <1>7

(* However the client leaves, what is on its way no longer matters.        *)
LEMMA ClientGone ==
  ASSUME HandshakeInv, cli # "start", cli' = "gone", upEnd' = TRUE,
         UNCHANGED <<up, cliPending, cliSent, cliHandled, kind, cliRead, downEnd, serverVars>>,
         kind # "upgrade" => down' \in Seq(Refusals)
  PROVE  HandshakeInv'
<1> USE DEF HandshakeInv
<1>1. TypeOK'
  BY FrameCounts DEF TypeOK, serverVars
<1>2. PhasesInv'
  BY DEF PhasesInv, serverVars
<1>3. UpgradeInv'
  BY DEF UpgradeInv, serverVars
<1>4. RefusalInv'
  BY DEF RefusalInv, serverVars
<1>5. MeaningInv'
  BY MeaningUnchanged DEF serverVars
<1> QED
  BY <1>1, <1>2, <1>3, <1>4, <1>5

LEMMA ClientReadsHeadStep ==
  ASSUME HandshakeInv, ClientReadsHead
  PROVE  HandshakeInv'
<1> USE DEF HandshakeInv
<1> DEFINE taken == SubSeq(down, 1, 1)
<1>1. /\ cli = "head" /\ down # <<>> /\ down' = After(down, 1) /\ UNCHANGED <<downEnd, serverVars>>
      /\ \/ Accepted(taken) /\ cli' = "open"
            /\ UNCHANGED <<upVars, cliRead, cliPending, cliSent, cliHandled, kind>>
         \/ ~Accepted(taken) /\ (HeadEnds(taken) \/ TooLong(cliRead + 1)) /\ cli' = "gone" /\ upEnd' = TRUE
            /\ UNCHANGED <<up, cliPending, cliSent, cliHandled, kind, cliRead>>
         \/ ~Accepted(taken) /\ ~(HeadEnds(taken) \/ TooLong(cliRead + 1)) /\ cliRead' = cliRead + 1
            /\ UNCHANGED <<upVars, cli, cliPending, cliSent, cliHandled, kind>>
  BY DEF ClientReadsHead, HeadReads, ClientLeaves
<1> HIDE DEF taken
<1>2. kind # "upgrade" => down' \in Seq(Refusals) /\ ~Accepted(taken)
  <2> SUFFICES ASSUME kind # "upgrade" PROVE down' \in Seq(Refusals) /\ ~Accepted(taken)
    OBVIOUS
  <2>1. down \in Seq(Refusals)
    BY DEF RefusalInv
  <2> HIDE DEF Refusals
  <2>2. 1 \in 1 .. Len(down)
    BY <1>1, <2>1, EmptySeq, LenProperties
  <2> QED
    BY <1>1, <2>1, <2>2, RefusalPiece DEF taken
<1>3. kind = "upgrade" =>
        /\ srv \in {"greet", "open"} /\ srvSent \in Nat /\ cliRead \in Nat /\ cliRead <= HeadUnits
        /\ down' = Slice(cliRead + 1, WholeHead + srvSent * FrameUnits)
        /\ Accepted(taken) <=> cliRead = HeadUnits
  <2> SUFFICES ASSUME kind = "upgrade"
               PROVE  /\ srv \in {"greet", "open"} /\ srvSent \in Nat /\ cliRead \in Nat
                      /\ cliRead <= HeadUnits
                      /\ down' = Slice(cliRead + 1, WholeHead + srvSent * FrameUnits)
                      /\ Accepted(taken) <=> cliRead = HeadUnits
    OBVIOUS
  <2>1. srv \in {"greet", "open"}
    BY <1>1 DEF PhasesInv, UpgradeInv, TypeOK
  <2> DEFINE v == srvSent * FrameUnits
  <2>2. srvSent \in Nat /\ cliRead \in Nat /\ cliRead <= HeadUnits /\ down = Slice(cliRead, WholeHead + v)
    BY <1>1, <2>1, EveryType DEF UpgradeInv
  <2>3. v \in Nat
    BY <2>2, MoreFramesAreLonger
  <2> HIDE DEF v
  <2>4. WholeHead + v \in Nat /\ WholeHead <= WholeHead + v
    BY <2>3, Lengths DEF WholeHead
  <2>5. After(down, 1) = Slice(cliRead + 1, WholeHead + v) /\ (Accepted(taken) <=> cliRead = HeadUnits)
    BY <2>2, <2>4, HeadUnitRead DEF taken
  <2> QED
    BY <1>1, <2>1, <2>2, <2>5 DEF v
<1>4. CASE Accepted(taken)
  <2>1. kind = "upgrade" /\ cli' = "open" /\ cliRead = HeadUnits
        /\ UNCHANGED <<upVars, cliRead, cliPending, cliSent, cliHandled, kind>>
    BY <1>1, <1>2, <1>3, <1>4
  <2>2. TypeOK'
    BY <1>1, <2>1, FrameCounts DEF TypeOK, upVars, serverVars
  <2>3. PhasesInv'
    BY <1>1, <1>3, <2>1 DEF PhasesInv, upVars, serverVars
  <2>4. UpgradeInv'
    <3>1. down' = Slice(WholeHead, WholeHead + srvSent * FrameUnits)
      BY <1>3, <2>1 DEF WholeHead
    <3>2. cliHandled' = <<>> /\ cliPending' = <<>>
      BY <1>1, <2>1 DEF PhasesInv
    <3>3. Carried(<<>>, <<>>, Slice(WholeHead, WholeHead + srvSent * FrameUnits), srvSent)
      BY <1>3, <2>1, CarriedAtFirst
    <3>4. Carried(cliHandled', cliPending', down', srvSent')
      BY <1>1, <3>1, <3>2, <3>3 DEF serverVars
    <3>5. Carried(srvHandled', srvPending', up', cliSent')
      BY <1>1, <1>3, <2>1 DEF UpgradeInv, upVars, serverVars
    <3> QED
      BY <1>1, <1>3, <2>1, <3>4, <3>5 DEF UpgradeInv, serverVars
  <2>5. RefusalInv'
    BY <2>1 DEF RefusalInv
  <2>6. MeaningInv'
    BY <1>1, <2>1, MeaningUnchanged DEF serverVars
  <2> QED
    BY <2>2, <2>3, <2>4, <2>5, <2>6
<1>5. CASE ~Accepted(taken) /\ (HeadEnds(taken) \/ TooLong(cliRead + 1))
  BY <1>1, <1>2, <1>5, ClientGone
<1>6. CASE ~Accepted(taken) /\ ~(HeadEnds(taken) \/ TooLong(cliRead + 1))
  <2>1. cliRead' = cliRead + 1 /\ UNCHANGED <<upVars, cli, cliPending, cliSent, cliHandled, kind>>
    BY <1>1, <1>6
  <2>2. cliRead' \in 0 .. MaxHead /\ (kind = "upgrade" => cliRead' <= HeadUnits)
    BY <1>3, <1>6, <2>1, EveryType, Lengths DEF TooLong
  <2>3. TypeOK'
    BY <1>1, <2>1, <2>2, FrameCounts DEF TypeOK, upVars, serverVars
  <2>4. PhasesInv'
    BY <1>1, <2>1 DEF PhasesInv, upVars, serverVars
  <2>5. UpgradeInv'
    BY <1>1, <1>3, <2>1, <2>2 DEF UpgradeInv, upVars, serverVars
  <2>6. RefusalInv'
    BY <1>1, <1>2, <2>1 DEF RefusalInv, serverVars
  <2>7. MeaningInv'
    BY <1>1, <2>1, MeaningUnchanged DEF serverVars
  <2> QED
    BY <2>3, <2>4, <2>5, <2>6, <2>7
<1> QED
  BY <1>4, <1>5, <1>6

LEMMA ClientSendsStep ==
  ASSUME HandshakeInv, ClientSends
  PROVE  HandshakeInv'
<1> USE DEF HandshakeInv
<1>1. /\ cli = "open" /\ cliSent < 3 /\ cliSent' = cliSent + 1 /\ up' = up \o Frame(cliSent + 1)
      /\ UNCHANGED <<upEnd, downVars, serverVars, cli, cliRead, cliPending, cliHandled, kind>>
  BY FrameCounts DEF ClientSends
<1>2. kind = "upgrade" /\ srv \in {"greet", "open"} /\ cliSent \in Nat /\ cliSent' \in 0 .. 3
  BY <1>1, EveryType DEF PhasesInv, TypeOK
<1>3. Meant(srvHandled, ClientMeans, cliSent + 1)
  BY <1>2, MeantMore DEF MeaningInv
<1>4. Len(srvHandled') <= cliSent'
  <2>1. PICK c \in 0 .. cliSent : srvHandled = [i \in 1 .. c |-> ClientMeans[i]]
    BY DEF MeaningInv, Meant
  <2>2. Len(srvHandled) = c /\ c <= cliSent'
    BY <1>1, <1>2, <2>1, MeantLength
  <2> QED
    BY <1>1, <2>2 DEF serverVars
<1>5. TypeOK'
  BY <1>1, <1>2, <1>4, FrameCounts DEF TypeOK, serverVars, downVars
<1>6. PhasesInv'
  BY <1>1, <1>2 DEF PhasesInv, serverVars, downVars
<1>7. UpgradeInv'
  <2>1. Carried(srvHandled, srvPending, up \o Frame(cliSent + 1), cliSent + 1)
    BY <1>2, CarriedSend DEF UpgradeInv
  <2>2. Carried(srvHandled', srvPending', up', cliSent')
    BY <1>1, <2>1 DEF serverVars
  <2>3. Carried(cliHandled', cliPending', down', srvSent')
    BY <1>1, <1>2 DEF UpgradeInv, serverVars, downVars
  <2> QED
    BY <1>1, <1>2, <2>2, <2>3 DEF UpgradeInv, serverVars
<1>8. RefusalInv'
  BY <1>1, <1>2 DEF RefusalInv
<1>9. MeaningInv'
  <2>1. Meant(cliHandled', ServerMeans', srvSent')
    BY <1>1, MeansUnchanged DEF MeaningInv, serverVars
  <2>2. ClientMeans' = ClientMeans /\ srvHandled' = srvHandled
    BY <1>1 DEF ClientMeans, serverVars
  <2> QED
    BY <1>1, <1>3, <2>1, <2>2 DEF MeaningInv
<1> QED
  BY <1>5, <1>6, <1>7, <1>8, <1>9

LEMMA ClientReceivesStep ==
  ASSUME HandshakeInv, ClientReceives
  PROVE  HandshakeInv'
<1> USE DEF HandshakeInv
<1>1. cli = "open" /\ kind = "upgrade"
      /\ UNCHANGED <<cli, cliRead, cliSent, kind, downEnd, upVars, serverVars>>
  BY DEF ClientReceives, PhasesInv
<1>2. PICK n \in 1 .. Len(down) :
        LET received == cliPending \o SubSeq(down, 1, n)
        IN /\ down' = After(down, n)
           /\ cliHandled' = cliHandled \o Parsed(received, ServerFrames)
           /\ cliPending' = Incomplete(received)
  BY DEF ClientReceives
<1>3. srvSent \in Nat /\ srvSent <= 4 /\ payload \in Values
  BY EveryType DEF TypeOK
<1>4. \A j \in 1 .. srvSent : parse_frame(ServerFrames[j]) = ServerMeans[j]
  BY <1>3, ServerFrameMeans
<1>5. Carried(cliHandled, cliPending, down, srvSent) /\ Meant(cliHandled, ServerMeans, srvSent)
  BY <1>1 DEF UpgradeInv, MeaningInv
<1>6. /\ Carried(cliHandled', cliPending', down', srvSent)
      /\ Meant(cliHandled', ServerMeans, srvSent) /\ Len(cliHandled') <= srvSent
      /\ Len(cliPending') < FrameUnits
  BY <1>2, <1>3, <1>4, <1>5, CarriedReceive
<1>7. TypeOK'
  BY <1>1, <1>6, FrameCounts DEF TypeOK, upVars, serverVars
<1>8. PhasesInv'
  BY <1>1 DEF PhasesInv, upVars, serverVars
<1>9. UpgradeInv'
  BY <1>1, <1>6 DEF UpgradeInv, upVars, serverVars
<1>10. RefusalInv'
  BY <1>1 DEF RefusalInv
<1>11. MeaningInv'
  <2>1. Meant(cliHandled', ServerMeans', srvSent')
    BY <1>1, <1>6, MeansUnchanged DEF serverVars
  <2>2. ClientMeans' = ClientMeans /\ cliSent' = cliSent /\ srvHandled' = srvHandled
    BY <1>1 DEF ClientMeans, serverVars
  <2> QED
    BY <2>1, <2>2 DEF MeaningInv
<1> QED
  BY <1>7, <1>8, <1>9, <1>10, <1>11

LEMMA ClientEndsStep ==
  ASSUME HandshakeInv, ClientFindsEnd \/ ClientCloses
  PROVE  HandshakeInv'
<1>1. /\ cli # "start" /\ cli' = "gone" /\ upEnd' = TRUE
      /\ UNCHANGED <<up, cliPending, cliSent, cliHandled, kind, cliRead, downVars, serverVars>>
  BY DEF ClientFindsEnd, ClientCloses, ClientLeaves
<1>2. downEnd' = downEnd /\ (kind # "upgrade" => down' \in Seq(Refusals))
  BY <1>1 DEF HandshakeInv, RefusalInv, downVars
<1> QED
  BY <1>1, <1>2, ClientGone

LEMMA Stuttering ==
  ASSUME HandshakeInv, UNCHANGED vars
  PROVE  HandshakeInv'
<1> USE DEF HandshakeInv, vars, upVars, downVars, serverVars, clientVars
<1>1. TypeOK'
  BY FrameCounts DEF TypeOK
<1>2. PhasesInv'
  BY DEF PhasesInv
<1>3. UpgradeInv'
  BY DEF UpgradeInv
<1>4. RefusalInv'
  BY DEF RefusalInv
<1>5. MeaningInv'
  BY MeaningUnchanged
<1> QED
  BY <1>1, <1>2, <1>3, <1>4, <1>5

(* server.cpp:316, client.cpp:247: where each side stands in the streams   *)
(* of its connection, and what has been handled of them.                   *)
THEOREM HandshakeInductive == Spec => []HandshakeInv
<1>1. ASSUME HandshakeInv, [Next]_vars
      PROVE  HandshakeInv'
  <2>1. CASE Next
    BY <1>1, <2>1, ServerReadsHeadStep, ServerReadsBodyStep, ServerRepliesStep, ServerSendsStep,
       ServerReceivesStep, ServerFindsEndStep, ClientAsksStep, ClientReadsHeadStep, ClientSendsStep,
       ClientReceivesStep, ClientEndsStep
    DEF Next
  <2>2. CASE UNCHANGED vars
    BY <1>1, <2>2, Stuttering
  <2> QED
    BY <1>1, <2>1, <2>2
<1> QED
  BY <1>1, Initially, PTL DEF Spec

-------------------------------------------------------------------------------
(* The results.                                                            *)

(* Frames on an upgraded connection are all accounted for.                 *)
LEMMA CarriedAll ==
  ASSUME NEW handled, NEW pending, NEW stream, NEW n \in Nat, Carried(handled, pending, stream, n),
         NEW means, Meant(handled, means, n)
  PROVE  UnitsOf(Len(handled)) \o pending \o stream = UnitsOf(n)
<1>1. PICK c \in 0 .. n : handled = [i \in 1 .. c |-> means[i]]
  BY DEF Meant
<1>2. c \in Nat /\ Len(handled) = c
  BY <1>1, MeantLength
<1>3. PICK k \in Nat :
         /\ c * FrameUnits <= k /\ k <= n * FrameUnits
         /\ pending = Slice(WholeHead + c * FrameUnits, WholeHead + k)
         /\ stream = Slice(WholeHead + k, WholeHead + n * FrameUnits)
  BY <1>2 DEF Carried
<1> DEFINE a == WholeHead + c * FrameUnits
           b == WholeHead + k
           e == WholeHead + n * FrameUnits
<1>4. WholeHead \in Nat /\ a \in Nat /\ b \in Nat /\ e \in Nat /\ WholeHead <= a /\ a <= b /\ b <= e
  <2> DEFINE u == c * FrameUnits
             v == n * FrameUnits
  <2>1. u \in Nat /\ v \in Nat /\ u <= k /\ k <= v /\ WholeHead \in Nat
    BY <1>2, <1>3, Lengths, MoreFramesAreLonger DEF WholeHead
  <2> HIDE DEF u, v
  <2>2. WholeHead + u \in Nat /\ b \in Nat /\ WholeHead + v \in Nat /\ WholeHead <= WholeHead + u
        /\ WholeHead + u <= b /\ b <= WholeHead + v
    BY <2>1
  <2> QED
    BY <2>1, <2>2 DEF u, v
<1>5. UnitsOf(c) = Slice(WholeHead, a) /\ UnitsOf(n) = Slice(WholeHead, e)
  BY <1>2, UnitsSlice
<1>6. pending = Slice(a, b) /\ stream = Slice(b, e)
  BY <1>3
<1> HIDE DEF a, b, e
<1>7. Slice(WholeHead, a) \o Slice(a, b) = Slice(WholeHead, b)
  BY <1>4, SliceConcat
<1>8. WholeHead <= b
  BY <1>4
<1>9. Slice(WholeHead, b) \o Slice(b, e) = Slice(WholeHead, e)
  BY <1>4, <1>8, SliceConcat
<1> QED
  BY <1>2, <1>5, <1>6, <1>7, <1>9

(* http.cpp:13, client.cpp:23: the readings of heads and bodies take       *)
(* nothing of the frames behind them.                                      *)
THEOREM NothingLost == Spec => []NothingIsLost
<1>1. HandshakeInv => NothingIsLost
  <2> SUFFICES ASSUME HandshakeInv PROVE NothingIsLost
    OBVIOUS
  <2>1. cli = "open" => UnitsOf(Len(cliHandled)) \o cliPending \o down = UnitsOf(srvSent)
    BY CarriedAll, EveryType DEF HandshakeInv, PhasesInv, UpgradeInv, MeaningInv
  <2>2. srv \in {"greet", "open"} => UnitsOf(Len(srvHandled)) \o srvPending \o up = UnitsOf(cliSent)
    BY CarriedAll, EveryType DEF HandshakeInv, PhasesInv, UpgradeInv, MeaningInv
  <2> QED
    BY <2>1, <2>2 DEF NothingIsLost
<1> QED
  BY <1>1, HandshakeInductive, PTL

LEMMA MeantPrefix ==
  ASSUME NEW handled, NEW means, NEW n \in Nat, n <= Len(means), NEW S, means \in Seq(S),
         Meant(handled, means, n)
  PROVE  handled = SubSeq(means, 1, Len(handled))
<1>1. PICK c \in 0 .. n : handled = [i \in 1 .. c |-> means[i]]
  BY DEF Meant
<1>2. c \in Nat /\ Len(handled) = c
  BY <1>1, MeantLength
<1>3. \A i \in 1 .. Len(means) : means[i] \in S
  BY ElementOfSeq
<1>4. \A i \in 1 .. c : means[i] \in S
  BY <1>3, LenProperties
<1> DEFINE first == SubSeq(means, 1, c)
<1>5. first \in Seq(S) /\ Len(first) = c /\ \A i \in 1 .. c : first[i] = means[i]
  <2>1. \A i \in 1 .. c : SubSeq(means, 1, c)[i] = means[i]
    BY <1>2, <1>4, SubSeqProperties
  <2> QED
    BY <1>2, <1>4, <2>1, SubSeqProperties
<1> HIDE DEF first
<1>6. first = [i \in 1 .. c |-> first[i]]
  BY <1>5
<1>7. first = handled
  BY <1>1, <1>5, <1>6
<1> QED
  BY <1>2, <1>7 DEF first

(* sio_protocol.cpp:20, msgpack_codec.cpp:9: what is handled is what was   *)
(* sent, whatever the data of the event.                                   *)
THEOREM MeaningKept == Spec => []FramesKeepTheirMeaning
<1>1. HandshakeInv => FramesKeepTheirMeaning
  <2> SUFFICES ASSUME HandshakeInv PROVE FramesKeepTheirMeaning
    OBVIOUS
  <2> DEFINE S == {ServerMeans[i] : i \in 1 .. 4}
             T == {ClientMeans[i] : i \in 1 .. 3}
  <2>1. ServerMeans \in Seq(S) /\ Len(ServerMeans) = 4
    BY DEF ServerMeans
  <2>2. ClientMeans \in Seq(T) /\ Len(ClientMeans) = 3
    BY DEF ClientMeans
  <2> HIDE DEF S, T
  <2>3. cliHandled = SubSeq(ServerMeans, 1, Len(cliHandled))
    <3>1. srvSent \in Nat /\ srvSent <= Len(ServerMeans) /\ Meant(cliHandled, ServerMeans, srvSent)
      BY <2>1, EveryType DEF HandshakeInv, MeaningInv
    <3> QED
      BY <2>1, <3>1, MeantPrefix
  <2>4. srvHandled = SubSeq(ClientMeans, 1, Len(srvHandled))
    <3>1. cliSent \in Nat /\ cliSent <= Len(ClientMeans) /\ Meant(srvHandled, ClientMeans, cliSent)
      BY <2>2, EveryType DEF HandshakeInv, MeaningInv
    <3> QED
      BY <2>2, <3>1, MeantPrefix
  <2> QED
    BY <2>3, <2>4 DEF FramesKeepTheirMeaning
<1> QED
  BY <1>1, HandshakeInductive, PTL

(* All variables of the handshake keep their types, and neither side keeps *)
(* a whole frame waiting.                                                  *)
THEOREM HandshakeTypeCorrect == Spec => []TypeOK
<1>1. HandshakeInv => TypeOK
  BY DEF HandshakeInv
<1> QED
  BY <1>1, HandshakeInductive, PTL
===============================================================================

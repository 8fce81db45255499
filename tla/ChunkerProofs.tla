--------------------------- MODULE ChunkerProofs ---------------------------
(***************************************************************************)
(* The passages of Chunker are lossless, bounded and each bring new text,  *)
(* for every length, limit, overlap and set of boundaries; the loop ends.  *)
(***************************************************************************)
EXTENDS Chunker, LeastElement, TLAPS

\* The quarter that bounds the overlap is smaller than the limit.
LEMMA OverlapBound ==
  ASSUME NEW l \in Nat \ {0}
  PROVE  l \div 4 \in Nat /\ l \div 4 < l
OBVIOUS

\* What holds between the last passage and the loop's variables.
Inv ==
  /\ TypeOK
  /\ done => blank \/ covered = length
  /\ blank => done /\ chunks = <<>>
  /\ chunks = <<>> => start = 0 /\ covered = 0 /\ (done => blank)
  /\ chunks # <<>> =>
       LET last == chunks[Len(chunks)]
       IN /\ chunks[1].from = 0
          /\ last.to = covered
          /\ done => last.to = length
          /\ ~done => /\ last.from < start /\ start <= covered
                      /\ covered <= start + (limit \div 4)
                      /\ covered < length
  /\ NewText
  /\ Bounded
  /\ \A i \in 1..(Len(chunks) - 1) : chunks[i + 1].from <= chunks[i].to

LEMMA InvInit == Init => Inv
<1> SUFFICES ASSUME Init PROVE Inv
  OBVIOUS
<1>1. Len(chunks) = 0 /\ chunks \in Seq(Passage)
  BY DEF Init
<1>2. QED
  BY <1>1, LengthAssumption DEF Init, Inv, TypeOK, NewText, Bounded

\* One passage: where it ends and where the next one starts.
LEMMA CutBounds ==
  ASSUME TypeOK, start < length, NEW end, EndsAt(end), start <= covered,
         covered < length, covered <= start + (limit \div 4)
  PROVE  /\ end \in 0..length /\ start < end /\ covered < end /\ end <= start + limit
         /\ end < length => /\ NextStart(end) \in 0..length
                            /\ start < NextStart(end) /\ NextStart(end) <= end
                            /\ end <= NextStart(end) + (limit \div 4)
<1>1. limit \in Nat \ {0} /\ overlapChars \in Nat /\ length \in Nat
  BY SettingsAssumption, LengthAssumption DEF TypeOK
<1>2. limit \div 4 \in Nat /\ limit \div 4 < limit
  BY <1>1, OverlapBound
<1>3. Overlap \in Nat /\ Overlap <= limit \div 4
  BY <1>1, <1>2 DEF Overlap
<1>4. HardEnd \in 0..length /\ start < HardEnd /\ HardEnd <= start + limit
  BY <1>1 DEF TypeOK, HardEnd
<1>5. end \in 0..length /\ start < end /\ end <= start + limit /\ covered < end
  <2>1. CASE end = HardEnd
    BY <1>1, <1>2, <1>4, <2>1 DEF TypeOK, HardEnd
  <2>2. CASE end \in UsableBoundary
    <3>1. end \in 0..length /\ start < end /\ covered < end /\ end <= HardEnd
      BY <2>2 DEF TypeOK, UsableBoundary
    <3>2. QED
      BY <1>1, <1>4, <3>1 DEF TypeOK
  <2>3. QED
    BY <2>1, <2>2 DEF EndsAt
<1>6. QED
  BY <1>1, <1>2, <1>3, <1>5 DEF TypeOK, NextStart

LEMMA InvStep == Inv /\ [Next]_vars => Inv'
<1> SUFFICES ASSUME Inv, [Next]_vars PROVE Inv'
  OBVIOUS
<1>1. CASE UNCHANGED vars
  BY <1>1 DEF vars, input, Inv, TypeOK, NewText, Bounded
<1>2. CASE Cut
  <2> DEFINE n == Len(chunks)
             last == chunks[n]
  <2>0. /\ limit \in Nat \ {0} /\ length \in Nat /\ length \in 0..MaxLength
        /\ start \in 0..length /\ covered \in 0..length
        /\ chunks \in Seq(Passage) /\ n \in Nat
        /\ limit \div 4 \in Nat
    BY SettingsAssumption, LengthAssumption, OverlapBound DEF Inv, TypeOK
  <2>1. PICK end \in boundaries \cup {HardEnd} :
          /\ EndsAt(end)
          /\ chunks' = Append(chunks, [from |-> start, to |-> end])
          /\ covered' = end
          /\ done' = (end = length)
          /\ start' = IF end = length THEN start ELSE NextStart(end)
    BY <1>2 DEF Cut
  <2>2. /\ ~done /\ start < length /\ ~blank
        /\ UNCHANGED input
    BY <1>2 DEF Cut, Inv
  <2>3. start <= covered /\ covered < length /\ covered <= start + (limit \div 4)
    BY <2>0, <2>2 DEF Inv
  <2>4. /\ end \in 0..length /\ start < end /\ covered < end /\ end <= start + limit
        /\ end < length => /\ NextStart(end) \in 0..length
                           /\ start < NextStart(end) /\ NextStart(end) <= end
                           /\ end <= NextStart(end) + (limit \div 4)
    BY <2>1, <2>2, <2>3, CutBounds DEF Inv
  <2>5. [from |-> start, to |-> end] \in Passage
    BY <2>0, <2>4, LengthAssumption DEF Passage
  <2>6. /\ chunks' \in Seq(Passage) /\ Len(chunks') = n + 1
        /\ \A i \in 1..n : chunks'[i] = chunks[i] /\ chunks[i] \in Passage
        /\ chunks'[n + 1] = [from |-> start, to |-> end]
    BY <2>0, <2>1, <2>5
  <2>7. TypeOK'
    <3>1. start' \in 0..length
      BY <2>0, <2>1, <2>4
    <3>2. QED
      BY <2>1, <2>2, <2>4, <2>6, <3>1 DEF Inv, TypeOK, input
  <2>8. n > 0 => last.from < start /\ last.to = covered
    BY <2>0, <2>2 DEF Inv
  <2>9. \A i \in 1..n : chunks'[i + 1].from <= chunks'[i].to
    <3>1. TAKE i \in 1..n
    <3>2. CASE i = n
      BY <2>0, <2>3, <2>6, <2>8, <3>2
    <3>3. CASE i # n
      BY <2>0, <2>6, <3>3 DEF Inv
    <3>4. QED
      BY <3>2, <3>3
  <2>10. NewText'
    <3>1. SUFFICES ASSUME NEW i \in 1..n
                   PROVE  /\ chunks'[i].from < chunks'[i + 1].from
                          /\ chunks'[i].to < chunks'[i + 1].to
      BY <2>0, <2>6 DEF NewText
    <3>2. CASE i = n
      BY <2>0, <2>4, <2>6, <2>8, <3>2
    <3>3. CASE i # n
      BY <2>0, <2>6, <3>3 DEF Inv, NewText
    <3>4. QED
      BY <3>2, <3>3
  <2>11. Bounded'
    <3>1. \A i \in 1..(n + 1) : /\ chunks'[i].from < chunks'[i].to
                                /\ chunks'[i].to <= chunks'[i].from + limit
      <4>1. TAKE i \in 1..(n + 1)
      <4>2. CASE i = n + 1
        BY <2>0, <2>4, <2>6, <4>2
      <4>3. CASE i # n + 1
        BY <2>0, <2>6, <4>3 DEF Inv, Bounded
      <4>4. QED
        BY <4>2, <4>3
    <3>2. \A i \in 1..n : chunks'[i].to <= chunks'[i + 1].from + (limit \div 4)
      <4>1. TAKE i \in 1..n
      <4>2. CASE i = n
        BY <2>0, <2>3, <2>6, <2>8, <4>2
      <4>3. CASE i # n
        <5>1. i \in 1..(n - 1) /\ i + 1 \in 1..n
          BY <2>0, <4>3
        <5>2. chunks[i].to <= chunks[i + 1].from + (limit \div 4)
          BY <5>1 DEF Inv, Bounded
        <5>3. QED
          BY <2>6, <5>1, <5>2
      <4>4. QED
        BY <4>2, <4>3
    <3>3. QED
      BY <2>0, <2>2, <2>6, <3>1, <3>2 DEF Bounded, input
  <2>12. /\ chunks' # <<>> /\ chunks'[1].from = 0
         /\ chunks'[Len(chunks')].to = covered'
         /\ done' => chunks'[Len(chunks')].to = length'
         /\ ~done' => /\ chunks'[Len(chunks')].from < start' /\ start' <= covered'
                      /\ covered' <= start' + (limit' \div 4)
                      /\ covered' < length'
    <3>1. chunks'[1].from = 0
      BY <2>0, <2>6 DEF Inv
    <3>2. chunks'[Len(chunks')] = [from |-> start, to |-> end] /\ chunks' # <<>>
      BY <2>0, <2>6
    <3>3. limit' = limit /\ length' = length
      BY <2>2 DEF input
    <3>4. CASE end = length
      <4>1. covered' = end /\ done'
        BY <2>1, <3>4
      <4>2. QED
        BY <3>1, <3>2, <3>3, <3>4, <4>1
    <3>5. CASE end # length
      <4>1. end < length
        BY <2>0, <2>4, <3>5
      <4>2. start' = NextStart(end) /\ covered' = end
        BY <2>1, <3>5
      <4>3. ~done'
        BY <2>1, <3>5
      <4>4. QED
        BY <2>4, <3>1, <3>2, <3>3, <4>1, <4>2, <4>3
    <3>6. QED
      BY <3>4, <3>5
  <2>13. ~blank' /\ (done' => blank' \/ covered' = length')
    BY <2>1, <2>2 DEF input
  <2>14. QED
    BY <2>0, <2>6, <2>7, <2>9, <2>10, <2>11, <2>12, <2>13 DEF Inv
<1>3. QED
  BY <1>1, <1>2 DEF Next

LEMMA AlwaysInv == Spec => []Inv
BY InvInit, InvStep, PTL DEF Spec

\* Every variable has its type: in particular no passage leaves its text.
THEOREM TypeCorrect == Spec => []TypeOK
<1>1. Inv => TypeOK
  BY DEF Inv
<1>2. QED
  BY <1>1, AlwaysInv, PTL

\* The passages of every text cover all of it without a gap.
THEOREM ChunksAreLossless == Spec => []Lossless
<1>1. Inv => Lossless
  BY DEF Inv, Lossless
<1>2. QED
  BY <1>1, AlwaysInv, PTL

\* Every passage brings text that none before it has, so the loop ends.
THEOREM ChunksBringNewText == Spec => []NewText
<1>1. Inv => NewText
  BY DEF Inv
<1>2. QED
  BY <1>1, AlwaysInv, PTL

\* No passage is empty or too long, or shares more than a quarter of the limit
\* with its neighbour.
THEOREM ChunksAreBounded == Spec => []Bounded
<1>1. Inv => Bounded
  BY DEF Inv
<1>2. QED
  BY <1>1, AlwaysInv, PTL
-----------------------------------------------------------------------------
(* The loop ends: it can always cut, and no text has more passages than     *)
(* characters.                                                              *)

LEMMA GreatestExists ==
  ASSUME NEW n \in Nat, NEW S \in SUBSET (0..n), S # {}
  PROVE  \E x \in S : \A y \in S : y <= x
<1> DEFINE U == {b \in 0..n : \A y \in S : y <= b}
           m == Min(U)
<1>1. \A y \in S : y \in 0..n
  OBVIOUS
<1>2. n \in U /\ U \in SUBSET Nat
  BY <1>1
<1>3. IsFiniteSet(U)
  BY FS_Interval, FS_Subset, 0 \in Int, n \in Int
<1>4. m \in U /\ \A x \in U : m <= x
  <2> HIDE DEF U
  <2> QED
    BY <1>2, <1>3, LeastExists
<1>5. m \in 0..n /\ \A y \in S : y <= m
  BY <1>4
<1>6. ASSUME m \notin S PROVE FALSE
  <2> HIDE DEF m
  <2>1. \A y \in S : y <= m - 1
    BY <1>1, <1>5, <1>6
  <2>2. m - 1 \in 0..n
    <3>1. PICK y \in S : TRUE
      OBVIOUS
    <3>2. y \in 0..n /\ y <= m - 1
      BY <1>1, <2>1
    <3> QED
      BY <1>5, <3>2
  <2>3. m - 1 \in U
    BY <2>1, <2>2
  <2>4. m <= m - 1
    <3> HIDE DEF U
    <3> QED
      BY <1>4, <2>3
  <2> QED
    BY <1>5, <2>4
<1> HIDE DEF m
<1> QED
  BY <1>5, <1>6

\* While the loop runs there is a place for the passage to end.
Proceeds ==
  ~done => start < length /\ \E end \in boundaries \cup {HardEnd} : EndsAt(end)

\* Every passage covers a character of its own, and only a blank text is empty.
ShortInv == /\ Len(chunks) <= covered
            /\ length = 0 => blank

\* The loop is never stuck before the end of the text, and ends after at most
\* as many passages as the text has characters.
THEOREM LoopEnds == Spec => [](Proceeds /\ Len(chunks) <= length)
<1>1. Init => ShortInv
  BY DEF Init, ShortInv
<1>2. Inv /\ ShortInv /\ [Next]_vars => ShortInv'
  <2> SUFFICES ASSUME Inv, ShortInv, Next PROVE ShortInv'
    BY DEF ShortInv, vars, input
  <2>1. PICK end \in boundaries \cup {HardEnd} :
          /\ EndsAt(end) /\ covered' = end
          /\ chunks' = Append(chunks, [from |-> start, to |-> end])
    BY DEF Next, Cut
  <2>2. start < length /\ ~done /\ UNCHANGED input
    BY DEF Next, Cut
  <2>3. start <= covered /\ covered < length /\ covered <= start + (limit \div 4)
    BY <2>2, SettingsAssumption, LengthAssumption, OverlapBound DEF Inv, TypeOK
  <2>4. covered < end /\ end \in 0..length
    BY <2>1, <2>2, <2>3, CutBounds DEF Inv
  <2>5. Len(chunks') = Len(chunks) + 1 /\ Len(chunks) \in Nat
    BY <2>1 DEF Inv, TypeOK
  <2> QED
    BY <2>1, <2>2, <2>4, <2>5 DEF ShortInv, Inv, TypeOK, input
<1>3. ASSUME Inv, ShortInv, ~done
      PROVE  start < length /\ \E end \in boundaries \cup {HardEnd} : EndsAt(end)
  <2>1. start < length
    BY <1>3, LengthAssumption, SettingsAssumption, OverlapBound DEF Inv, ShortInv, TypeOK
  <2>2. length \in Nat /\ UsableBoundary \in SUBSET (0..length)
    <3>1. length \in 0..MaxLength /\ boundaries \subseteq 0..length
      BY <1>3 DEF Inv, TypeOK
    <3>2. UsableBoundary \subseteq boundaries
      BY DEF UsableBoundary
    <3>3. length \in Nat
      BY <3>1, LengthAssumption
    <3> QED
      BY <3>1, <3>2, <3>3, Zenon
  <2>3. HardEnd \in 0..length
    BY <1>3, SettingsAssumption, LengthAssumption DEF Inv, TypeOK, HardEnd
  <2>4. CASE HardEnd = length \/ UsableBoundary = {}
    BY <2>1, <2>4 DEF EndsAt
  <2>5. CASE HardEnd # length /\ UsableBoundary # {}
    <3>1. PICK end \in UsableBoundary : \A b \in UsableBoundary : b <= end
      BY <2>2, <2>5, GreatestExists
    <3>2. HardEnd < length /\ end \in boundaries
      BY <2>2, <2>3, <2>5 DEF UsableBoundary
    <3> QED
      BY <2>1, <3>1, <3>2 DEF EndsAt
  <2> QED
    BY <2>4, <2>5
<1>4. Inv /\ ShortInv => Proceeds /\ Len(chunks) <= length
  BY <1>3, LengthAssumption DEF Proceeds, ShortInv, Inv, TypeOK
<1>5. Spec => []ShortInv
  BY <1>1, <1>2, AlwaysInv, PTL DEF Spec
<1> QED
  BY <1>4, <1>5, AlwaysInv, PTL
=============================================================================

------------------------------ MODULE Chunker ------------------------------
(***************************************************************************)
(* The passages of indexing/chunker.py.  A text is its length and the      *)
(* positions where a passage should preferably end; a passage is the       *)
(* interval of source coordinates it covers.  Each step of the loop cuts   *)
(* one passage.                                                            *)
(***************************************************************************)
EXTENDS Naturals, Sequences

CONSTANTS MaxLength,  \* bound: characters of a text
          Limits,     \* the values max_chars may have
          Overlaps    \* the values overlap_chars may have

ASSUME LengthAssumption == MaxLength \in Nat
ASSUME SettingsAssumption == Limits \subseteq Nat \ {0} /\ Overlaps \subseteq Nat

VARIABLES length,      \* of the text
          blank,       \* whether the text is whitespace only
          boundaries,  \* section starts or paragraph ends
          limit,       \* max_chars
          overlapChars,
          start,       \* of the next passage
          covered,     \* how much of the text the passages so far cover
          chunks,      \* the passages so far
          done         \* the loop has ended

input == <<length, blank, boundaries, limit, overlapChars>>
vars == <<input, start, covered, chunks, done>>

-----------------------------------------------------------------------------
\* An overlap of a quarter of the limit at most.
\* Fault: the overlap is as the settings say.
UnlimitedOverlap == overlapChars
Overlap == IF overlapChars <= limit \div 4 THEN overlapChars ELSE limit \div 4

Init == /\ length \in 0..MaxLength
        /\ blank \in {b \in BOOLEAN : length = 0 => b}
        /\ boundaries \in SUBSET (0..length)
        /\ limit \in Limits
        /\ overlapChars \in Overlaps
        /\ start = 0
        /\ covered = 0
        /\ chunks = <<>>
        /\ done = blank

\* Where a passage ends that is cut for its size only.
\* Fault: the last passage is not shortened to the text.
UnclampedEnd == start + limit
HardEnd == IF start + limit <= length THEN start + limit ELSE length

\* The boundaries it may end at: bisect_right finds the last one up to the hard
\* end, which counts only beyond what is covered already.
\* Fault: a boundary in covered text counts.
AnyBoundary == {b \in boundaries : start < b /\ b <= HardEnd}
UsableBoundary == {b \in boundaries : start < b /\ covered < b /\ b <= HardEnd}

\* The passage ends at the last usable boundary, or at the hard end.
EndsAt(end) ==
  \/ end = HardEnd /\ (HardEnd = length \/ UsableBoundary = {})
  \/ HardEnd < length /\ end \in UsableBoundary /\ \A b \in UsableBoundary : b <= end

\* The next passage starts Overlap before the end of this one, or else one
\* character further on than this one did.
\* Fault: the character at the end is taken for covered.
StartBeyond(end) == IF start + 1 + Overlap <= end THEN end - Overlap + 1 ELSE start + 1
NextStart(end) == IF start + 1 + Overlap <= end THEN end - Overlap ELSE start + 1

Cut == /\ ~done /\ start < length
       /\ \E end \in boundaries \cup {HardEnd} :
            /\ EndsAt(end)
            /\ chunks' = Append(chunks, [from |-> start, to |-> end])
            /\ covered' = end
            /\ done' = (end = length)
            /\ start' = IF end = length THEN start ELSE NextStart(end)
       /\ UNCHANGED input

Next == Cut

Spec == Init /\ [][Next]_vars

-----------------------------------------------------------------------------
(* Properties. *)

Passage == [from : 0..MaxLength, to : 0..MaxLength]

\* Every variable has its type.
TypeOK ==
  /\ length \in 0..MaxLength
  /\ blank \in BOOLEAN
  /\ boundaries \subseteq 0..length
  /\ limit \in Limits
  /\ overlapChars \in Overlaps
  /\ start \in 0..length
  /\ covered \in 0..length
  /\ chunks \in Seq(Passage)
  /\ done \in BOOLEAN

\* "Lossless": the passages cover a text that is not blank from its first to
\* its last character, without a gap between any two.
Lossless ==
  done /\ ~blank =>
    /\ chunks # <<>>
    /\ chunks[1].from = 0
    /\ chunks[Len(chunks)].to = length
    /\ \A i \in 1..(Len(chunks) - 1) : chunks[i + 1].from <= chunks[i].to

\* Every passage brings text that no earlier passage has, and none starts
\* before its predecessor: boundaries in an overlap are not cut at again, and
\* the loop ends after as many passages as the text has characters at most.
NewText ==
  \A i \in 1..(Len(chunks) - 1) :
    /\ chunks[i].from < chunks[i + 1].from
    /\ chunks[i].to < chunks[i + 1].to

\* No passage is empty or longer than the limit, and two neighbours share at
\* most a quarter of it.
Bounded ==
  /\ \A i \in 1..Len(chunks) : /\ chunks[i].from < chunks[i].to
                               /\ chunks[i].to <= chunks[i].from + limit
  /\ \A i \in 1..(Len(chunks) - 1) :
       chunks[i].to <= chunks[i + 1].from + (limit \div 4)
=============================================================================

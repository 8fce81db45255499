-------------------------- MODULE MCDocumentSearch --------------------------
(***************************************************************************)
(* An instance of DocumentSearch for TLC: a document with a summary and up *)
(* to four passages, up to two with a passage each between them.           *)
(* Contents 1 and 2 match the keyword, 1 in its own case.                  *)
(***************************************************************************)
EXTENDS DocumentSearch

CONSTANTS a, b, c

MCOwner == <<a, a, b, a, c, a, a>>
MCScore == [x \in Content \X Content |->
              IF x[1] < x[2] THEN 3 - (x[2] - x[1]) ELSE 3 - (x[1] - x[2])]
\* The first document may have only its summary, or passages that are two pages
\* and, with four of them, three batches.
MCStores == {s \in [Point -> Content \cup {None}] :
               /\ s[1] = 3
               /\ \/ s[2] \in {1, 2} /\ s[4] \in {1, 3} /\ s[6] = 1 /\ s[7] \in {2, None}
                  \/ s[2] = None /\ s[4] = None /\ s[6] = None /\ s[7] = None
               /\ \/ s[3] # None /\ s[5] \in {1, 2}
                  \/ s[2] # None /\ s[3] = None /\ s[5] = None}
=============================================================================

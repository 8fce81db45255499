------------------------- MODULE MCDocumentScanner --------------------------
(* Two files, in one root or in a root each, for TLC. *)
EXTENDS DocumentScanner, TLC

CONSTANTS pA, pB, r1, r2

\* The root without files is scanned before the other one.
MCScans == {{r2}, {r1, r2}}
MCOneRoot == pA :> r2 @@ pB :> r2
MCTwoRoots == pA :> r1 @@ pB :> r2

Symmetry == Permutations(Content) \cup Permutations(Doc)
=============================================================================

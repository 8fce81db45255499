---------------------------- MODULE MCOcrResume -----------------------------
(* A document of two pages and one of a page, for TLC. *)
EXTENDS OcrResume, TLC

CONSTANTS fA, fB

MCPages == fA :> {1, 2} @@ fB :> {1}
Symmetry == Permutations(Thread)
=============================================================================

------------------------ MODULE MCDocumentProcessor ------------------------
(***************************************************************************)
(* Instances of DocumentProcessor for TLC.  Documents, workers and callers *)
(* are interchangeable where every document may be cancelled and deleted.  *)
(***************************************************************************)
EXTENDS DocumentProcessor, TLC

Symmetry == Permutations(Doc) \cup Permutations(Worker) \cup Permutations(Caller)
=============================================================================

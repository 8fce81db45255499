---------------------------- MODULE MCFileTools -----------------------------
(* Two roots, r and s, with one directory each to move, rename and nest. *)
EXTENDS FileTools, TLC

MCRoots == {<<"r">>, <<"s">>}
MCDir == MCRoots \cup {<<"r", "a">>, <<"r", "b">>, <<"r", "b", "a">>, <<"s", "a">>}
MCSource == {<<"r", "a">>, <<"s", "a">>, <<"s">>}
MCPath == {Append(d, "x") : d \in MCDir \ MCRoots}

\* A listing holds two of the points there are: some of a document or none.
MCPoints == [d \in Doc |-> 2]

Symmetry == Permutations(Doc) \cup Permutations(Call)
=============================================================================

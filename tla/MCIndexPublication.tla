------------------------ MODULE MCIndexPublication -------------------------
(***************************************************************************)
(* Instances of IndexPublication for TLC.  The first version has one       *)
(* passage and the second two; a tag shares a term with a passage, and the *)
(* second list of tags brings a term that the second version has too.      *)
(***************************************************************************)
EXTENDS IndexPublication

MCSize == <<1, 2>>
MCSlotTerms == << <<{"a"}, {}>>, <<{"b"}, {"a"}>> >>
MCMetaTerms == <<{"a"}, {"b"}>>
=============================================================================

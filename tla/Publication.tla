---------------------------- MODULE Publication ----------------------------
(***************************************************************************)
(* What the document index promises of a document: its points are absent,  *)
(* under repair, or marked complete.  What is marked is one whole body,    *)
(* and one body takes the place of another only through an open repair.    *)
(***************************************************************************)
CONSTANTS Doc,    \* documents
          Bodies, \* the bodies a document may have
          Nothing \* no body

VARIABLE shown    \* of each document: its state, and the body when complete

Absent == [state |-> "absent", body |-> Nothing]
Open == [state |-> "open", body |-> Nothing]
Complete(b) == [state |-> "complete", body |-> b]

Init == shown = [d \in Doc |-> Absent]

\* Points appear, or the marker goes.
Unmark(d) == /\ shown[d] # Open
             /\ shown' = [shown EXCEPT ![d] = Open]

\* A repair ends.  Only a document without passages has no repair to end.
Mark(d, b) == /\ shown[d].state # "complete"
              /\ shown' = [shown EXCEPT ![d] = Complete(b)]

Remove(d) == /\ shown[d] # Absent
             /\ shown' = [shown EXCEPT ![d] = Absent]

Next == \E d \in Doc : \/ Unmark(d)
                       \/ \E b \in Bodies : Mark(d, b)
                       \/ Remove(d)

Spec == Init /\ [][Next]_shown
=============================================================================

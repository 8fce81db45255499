------------------------ MODULE DocumentScannerProofs ------------------------
(***************************************************************************)
(* Proofs about DocumentScanner: type correctness, one row for a content,  *)
(* that a scan deletes nothing of its root that it did not look for, that  *)
(* it covers what it found, and that documents which are settled have      *)
(* points, with the content registered.                                    *)
(***************************************************************************)
EXTENDS DocumentScanner, TLAPS

\* Between scans there is no baseline and nothing to visit, and only paths of
\* the baseline are to be deleted.
Phases ==
  /\ pc = "idle" => baseline = [p \in Path |-> None] /\ todo = {}
  /\ pc \in {"sweep", "purge"} => \A p \in todo : baseline[p] # None

TypeInv == TypeOK /\ Phases

LEMMA InitType == Init => TypeInv
  BY NoneAssumption DEF Init, TypeInv, TypeOK, Phases

\* Every action preserves the types: the rows, points and tasks it stores are
\* built from typed parts, and a row is removed only while no scan has a baseline.
LEMMA StepType == TypeInv /\ [Next]_vars => TypeInv'
<1> SUFFICES ASSUME TypeInv, [Next]_vars PROVE TypeInv'
  OBVIOUS
<1> USE NoneAssumption, RootAssumption
<1> USE DEF TypeInv, TypeOK, Phases, Row, Points, Task, HasRow, Present, Event, NoEvent,
            scan, processing, history
<1>1. ASSUME NEW p \in Path, NEW c \in Content \cup {None}, Write(p, c) PROVE TypeInv'
  BY <1>1 DEF Write, Edit
<1>2. ASSUME NEW p \in Path, NEW q \in Path, Rename(p, q) PROVE TypeInv'
  BY <1>2 DEF Rename, Edit
<1>3. ASSUME NEW p \in Path, Pass(p) PROVE TypeInv'
  BY <1>3 DEF Pass, Step
<1>4. ASSUME NEW p \in Path, WalkError(p) PROVE TypeInv'
  BY <1>4 DEF WalkError, Step
<1>5. ASSUME NEW p \in Path, Modified(p) PROVE TypeInv'
  BY <1>5 DEF Modified, Visit, Step, StoredHash, Submit
<1>6. ASSUME NEW p \in Path, Restored(p) PROVE TypeInv'
  <2>1. baseline[p] \in Doc /\ row[baseline[p]] \in Row
    BY <1>6 DEF Restored, Visit, Step
  <2>2. row' = [row EXCEPT ![baseline[p]] = [@ EXCEPT !.status = "active", !.ext = "queued"]]
    BY <1>6 DEF Restored, Reset
  <2>3. /\ row' \in [Doc -> Row \cup {None}]
        /\ \A q \in Path : baseline[q] # None => row'[baseline[q]] # None
    BY <2>1, <2>2
  <2> QED
    BY <1>6, <2>3 DEF Restored, Visit, Step, Submit
<1>7. ASSUME NEW p \in Path, Unchanged(p) PROVE TypeInv'
  BY <1>7 DEF Unchanged, Visit, Step, Reactivate
<1>8. ASSUME NEW p \in Path, Adopt(p) PROVE TypeInv'
  <2>1. PICK d \in Owners(file[p]) :
          /\ row' = [row EXCEPT ![d].path = p, ![d].root = root, ![d].status = "active"]
          /\ seen' = seen \cup {row[d].path, p}
          /\ pc' \in {pc, "relocate"}
          /\ bare' \in {bare, bare \cup {d}}
    BY <1>8 DEF Adopt, BothSeen
  <2> DEFINE moved == [row[d] EXCEPT !.path = p, !.root = root, !.status = "active"]
  <2>2. d \in Doc /\ row[d] \in Row
    BY DEF Owners
  <2>3. moved \in Row
    BY <2>2
  <2>4. row' = [row EXCEPT ![d] = moved]
    BY <2>1, <2>2
  <2> HIDE DEF moved
  <2>5. /\ row' \in [Doc -> Row \cup {None}]
        /\ \A q \in Path : baseline[q] # None => row'[baseline[q]] # None
    BY <2>2, <2>3, <2>4
  <2> QED
    BY <1>8, <2>1, <2>2, <2>5 DEF Adopt, Visit, Step
<1>9. ASSUME NEW p \in Path, RegisterNew(p) PROVE TypeInv'
  BY <1>9 DEF RegisterNew, Visit, Step, Free, NewRow, Submit
<1>10. ASSUME NEW p \in Path, Sweep(p) PROVE TypeInv'
  <2>1. baseline[p] \in Doc /\ row[baseline[p]] \in Row
    BY <1>10 DEF Sweep
  <2>2. /\ row' \in [Doc -> Row \cup {None}]
        /\ \A q \in Path : baseline[q] # None => row'[baseline[q]] # None
    BY <1>10, <2>1 DEF Sweep
  <2> QED
    BY <1>10, <2>1, <2>2 DEF Sweep
<1>11. ASSUME NEW p \in Path, RegisterDocument(p) PROVE TypeInv'
  BY <1>11 DEF RegisterDocument, Owners, Free, NewRow
<1>12. ASSUME NEW roots \in SUBSET Root, StartScan(roots) PROVE TypeInv'
  BY <1>12 DEF StartScan, First, BeginRoot, RowsAt
<1>13. CASE Relocated
  BY <1>13 DEF Relocated
<1>14. CASE FinishWalk
  BY <1>14 DEF FinishWalk, Missing
<1>15. CASE Purge
  BY <1>15 DEF Purge
<1>16. CASE FinishRoot
  <2>1. CASE due = {} /\ EndScan(TRUE)
    BY <1>16, <2>1 DEF FinishRoot, EndScan
  <2>2. ASSUME NEW r \in due, BeginRoot(r), due' = due \ {r}, UNCHANGED <<found, cur, pending>>
        PROVE  TypeInv'
    BY <1>16, <2>2 DEF FinishRoot, BeginRoot, RowsAt
  <2> QED
    BY <1>16, <2>1, <2>2 DEF FinishRoot, First
<1>17. ASSUME NEW t \in pending, Enqueue(t) PROVE TypeInv'
  BY <1>17 DEF Enqueue
<1>18. ASSUME NEW t \in task, Extract(t) PROVE TypeInv'
  BY <1>18 DEF Extract
<1>19. ASSUME NEW f \in flight, Publish(f) PROVE TypeInv'
  BY <1>19 DEF Publish
<1>20. ASSUME NEW f \in flight, Fail(f) PROVE TypeInv'
  BY <1>20 DEF Fail
<1>21. CASE IndexAll
  <2>1. PICK D \in SUBSET {d \in Doc : HasRow(d) /\ Present(row[d].path)} :
          /\ points' = [d \in Doc |-> IF d \in D
                THEN [body |-> file[row[d].path], mark |-> row[d].hash] ELSE points[d]]
          /\ row' = [d \in Doc |-> IF d \in D THEN [row[d] EXCEPT !.ext = "indexed"] ELSE row[d]]
          /\ astray' = astray \cup {d \in D : file[row[d].path] # row[d].hash}
          /\ bare' = bare \ D
    BY <1>21 DEF IndexAll
  <2>2. row' \in [Doc -> Row \cup {None}] /\ points' \in [Doc -> Points \cup {None}]
    BY <2>1
  <2>3. ASSUME NEW q \in Path, baseline[q] # None PROVE row'[baseline[q]] # None
    <3>1. baseline[q] \in Doc /\ row[baseline[q]] \in Row
      BY <2>3
    <3>2. [row[baseline[q]] EXCEPT !.ext = "indexed"] \in Row
      BY <3>1
    <3> QED
      BY <2>1, <3>1, <3>2
  <2> QED
    BY <1>21, <2>1, <2>2, <2>3 DEF IndexAll
<1>22. ASSUME NEW d \in Doc, DeleteDocument(d) PROVE TypeInv'
  BY <1>22 DEF DeleteDocument, Unlocked
<1>23. CASE Abandon
  BY <1>23 DEF Abandon, EndScan
<1>24. CASE Restart
  BY <1>24 DEF Restart, EndScan, Forgotten
<1>25. CASE UNCHANGED vars
  BY <1>25 DEF vars
<1> HIDE DEF TypeInv, TypeOK, Phases, Row, Points, Task, HasRow, Present, Event, NoEvent,
             scan, processing, history
<1> QED
  BY <1>1, <1>2, <1>3, <1>4, <1>5, <1>6, <1>7, <1>8, <1>9, <1>10, <1>11, <1>12, <1>13,
     <1>14, <1>15, <1>16, <1>17, <1>18, <1>19, <1>20, <1>21, <1>22, <1>23, <1>24, <1>25, ScansAssumption
  DEF Next

\* Type correctness of the files, rows, points and the running scan.
THEOREM TypeCorrect == Spec => []TypeOK
<1>1. Spec => []TypeInv
  BY InitType, StepType, PTL DEF Spec
<1> QED
  BY <1>1, PTL DEF TypeInv

-----------------------------------------------------------------------------
\* No document loses its content hash, or its life, other than with its row.
Kept == \A d \in Doc : HasRow(d)' =>
          HasRow(d) /\ row'[d].hash = row[d].hash /\ (Live(d) => Live(d)')

\* Steps that only restore or move rows, change their extraction status or
\* remove them keep what Kept says.
LEMMA MostStepsKeep ==
  ASSUME TypeInv,
         \/ \E p \in Path : \/ \E c \in Content \cup {None} : Write(p, c)
                            \/ \E q \in Path \ {p} : Rename(p, q)
                            \/ Pass(p) \/ WalkError(p) \/ Restored(p) \/ Unchanged(p) \/ Adopt(p)
         \/ \E roots \in Scans : StartScan(roots)
         \/ Relocated \/ FinishWalk \/ Purge \/ FinishRoot
         \/ \E t \in pending : Enqueue(t)
         \/ \E t \in task : Extract(t)
         \/ \E f \in flight : Publish(f) \/ Fail(f)
         \/ IndexAll
         \/ \E d \in Doc : DeleteDocument(d)
         \/ Abandon \/ Restart
         \/ UNCHANGED vars
  PROVE  Kept
<1> USE NoneAssumption
<1> USE DEF Kept, Live, HasRow, TypeInv, TypeOK, Row
<1>1. CASE UNCHANGED row
  BY <1>1
<1>2. ASSUME NEW p \in Path, Restored(p) PROVE Kept
  <2>1. baseline[p] \in Doc /\ row[baseline[p]] \in Row
    BY <1>2 DEF Restored, Visit, Step
  <2>2. row' = [row EXCEPT ![baseline[p]] = [@ EXCEPT !.status = "active", !.ext = "queued"]]
    BY <1>2 DEF Restored, Reset
  <2> QED
    BY <2>1, <2>2
<1>3. ASSUME NEW p \in Path, Unchanged(p) PROVE Kept
  BY <1>3 DEF Unchanged, Reactivate
<1>4. ASSUME NEW p \in Path, Adopt(p) PROVE Kept
  <2>1. PICK d \in Owners(file[p]) :
          row' = [row EXCEPT ![d].path = p, ![d].root = root, ![d].status = "active"]
    BY <1>4 DEF Adopt
  <2>2. d \in Doc /\ row[d] \in Row
    BY DEF Owners
  <2>3. /\ row'[d].hash = row[d].hash /\ row'[d].status = "active"
        /\ \A e \in Doc \ {d} : row'[e] = row[e]
    BY <2>1, <2>2
  <2> QED
    BY <2>2, <2>3
<1>5. ASSUME NEW t \in pending, Enqueue(t) PROVE Kept
  BY <1>5 DEF Enqueue, Task
<1>6. ASSUME NEW t \in task, Extract(t) PROVE Kept
  BY <1>6 DEF Extract, Task
<1>7. ASSUME NEW f \in flight, Publish(f) PROVE Kept
  BY <1>7 DEF Publish
<1>8. ASSUME NEW f \in flight, Fail(f) PROVE Kept
  BY <1>8 DEF Fail
<1>9. CASE IndexAll
  <2>1. PICK D \in SUBSET {d \in Doc : HasRow(d)} :
          row' = [d \in Doc |-> IF d \in D THEN [row[d] EXCEPT !.ext = "indexed"] ELSE row[d]]
    <3> HIDE DEF HasRow, Live, Row
    <3> QED
      BY <1>9 DEF IndexAll
  <2> QED
    BY <2>1
<1>10. ASSUME NEW d \in Doc, DeleteDocument(d) PROVE Kept
  BY <1>10 DEF DeleteDocument
<1>11. CASE Restart
  <2>1. PICK D \in SUBSET {d \in Doc : HasRow(d)} :
          row' = [d \in Doc |-> IF d \in D THEN [row[d] EXCEPT !.ext = "queued"] ELSE row[d]]
    BY <1>11 DEF Restart
  <2> QED
    BY <2>1
<1> HIDE DEF Kept, Live, HasRow, TypeInv, TypeOK, Row
<1>12. ASSUME NEW p \in Path,
              \/ \E c \in Content \cup {None} : Write(p, c)
              \/ \E q \in Path \ {p} : Rename(p, q)
              \/ Pass(p) \/ WalkError(p)
       PROVE  UNCHANGED row
  BY <1>12 DEF Write, Rename, Edit, Pass, WalkError
<1>13. ASSUME NEW roots, StartScan(roots) PROVE UNCHANGED row
  BY <1>13 DEF StartScan
<1>14. CASE Relocated \/ FinishWalk \/ Purge \/ FinishRoot \/ Abandon \/ UNCHANGED vars
  BY <1>1, <1>14 DEF Relocated, FinishWalk, Purge, FinishRoot, Abandon, vars
<1> QED
  BY <1>1, <1>2, <1>3, <1>4, <1>5, <1>6, <1>7, <1>8, <1>9, <1>10, <1>11, <1>12, <1>13, <1>14

\* The other steps: a new content for a known row, and new rows.
LEMMA ModifiedKeepsUnique ==
  ASSUME TypeInv, HashUnique, NEW p \in Path, Modified(p)
  PROVE  HashUnique' /\ \A d \in Doc : HasRow(d)' /\ Live(d) => Live(d)'
  BY NoneAssumption
  DEF TypeInv, TypeOK, Row, HashUnique, HasRow, Live, Modified, Visit, Step, Present,
      StoredHash, Owners

LEMMA NewRowKeepsUnique ==
  ASSUME TypeInv, HashUnique, NEW p \in Path, NEW r, NEW d \in Free,
         Owners(file[p]) = {}, row' = [row EXCEPT ![d] = NewRow(p, r)]
  PROVE  HashUnique' /\ \A e \in Doc : HasRow(e)' /\ Live(e) => Live(e)'
  BY DEF TypeInv, TypeOK, Free, HashUnique, HasRow, Live, NewRow, Owners

LEMMA KeptKeepsUnique ==
  ASSUME HashUnique, Kept PROVE HashUnique'
  BY DEF HashUnique, Kept, HasRow

\* Every step of Next is one of those above.
LEMMA StepKeepsUnique == TypeInv /\ HashUnique /\ [Next]_vars => HashUnique'
<1> SUFFICES ASSUME TypeInv, HashUnique, [Next]_vars PROVE HashUnique'
  OBVIOUS
<1>1. ASSUME NEW p \in Path, Modified(p) PROVE HashUnique'
  BY <1>1, ModifiedKeepsUnique
<1>2. ASSUME NEW p \in Path, RegisterNew(p) PROVE HashUnique'
  BY <1>2, NewRowKeepsUnique DEF RegisterNew
<1>3. ASSUME NEW p \in Path, Sweep(p) PROVE HashUnique'
  BY <1>3 DEF Sweep, HashUnique, HasRow, TypeInv, TypeOK, Phases, Row
<1>4. ASSUME NEW p \in Path, RegisterDocument(p) PROVE HashUnique'
  <2>1. CASE \E d \in Owners(file[p]) : row' = [row EXCEPT ![d].path = p]
    BY <2>1 DEF HashUnique, HasRow, Owners, TypeInv, TypeOK, Row
  <2>2. CASE Owners(file[p]) = {} /\ \E d \in Free : row' = [row EXCEPT ![d] = NewRow(p, None)]
    BY <2>2, NewRowKeepsUnique
  <2> QED
    BY <1>4, <2>1, <2>2 DEF RegisterDocument
<1> QED
  BY <1>1, <1>2, <1>3, <1>4, MostStepsKeep, KeptKeepsUnique DEF Next

\* No two documents have the same content hash, whatever files are edited,
\* adopted and registered.
THEOREM ContentsUnique == Spec => []HashUnique
<1>1. Init => HashUnique
  BY DEF Init, HashUnique, HasRow
<1>2. Spec => [](TypeInv /\ HashUnique)
  BY <1>1, InitType, StepType, StepKeepsUnique, PTL DEF Spec
<1> QED
  BY <1>2, PTL

-----------------------------------------------------------------------------
\* What a scan knows while it runs.  A document of the baseline at a path not
\* yet seen is still there.  A walk that is complete so far has seen the files
\* that were there all along, or will visit them.  Deletion is for missing
\* paths after a complete walk.
Held == \A p \in Path : baseline[p] # None /\ p \notin seen =>
          row[baseline[p]].path = p /\ row[baseline[p]].root = root
Visited ==
  pc # "idle" /\ complete =>
    \A p \in Path : RootOf[p] = root /\ p \in steady /\ Present(p) =>
      p \in seen \/ (pc \in {"walk", "relocate"} /\ p \in todo)
Swept == pc \in {"sweep", "purge"} /\ todo # {} => complete /\ todo \subseteq Missing
WalkInv == Held /\ Visited /\ Swept

\* Steps of others: files change only with the record of steady ones, and rows
\* move only between scans.
LEMMA OthersKeepWalk ==
  ASSUME TypeInv, WalkInv, UNCHANGED scan, steady' \subseteq steady,
         \A p \in steady' : file'[p] = file[p],
         pc # "idle" => \A d \in Doc : HasRow(d) =>
                          row'[d].path = row[d].path /\ row'[d].root = row[d].root
  PROVE  WalkInv'
<1> USE DEF TypeInv, TypeOK, Phases, WalkInv, HasRow, scan
<1>1. Held'
  BY DEF Held
<1>2. Visited'
  BY DEF Visited, Present
<1>3. Swept'
  BY DEF Swept, Missing
<1> QED
  BY <1>1, <1>2, <1>3

\* A visit of a path that is there.
LEMMA VisitKeepsWalk ==
  ASSUME TypeInv, WalkInv, NEW p \in Path, Visit(p), p \in seen', seen \subseteq seen',
         pc' \in {"walk", "relocate"},
         \A d \in Doc : HasRow(d) /\ row[d].path \notin seen' =>
           row'[d].path = row[d].path /\ row'[d].root = row[d].root
  PROVE  WalkInv'
<1> USE DEF TypeInv, TypeOK, Phases, WalkInv, HasRow, Visit, Step
<1>1. Held'
  BY DEF Held
<1>2. Visited'
  BY DEF Visited, Present
<1>3. Swept'
  BY DEF Swept
<1> QED
  BY <1>1, <1>2, <1>3

\* A scan that ends knows nothing.
LEMMA EndKeepsWalk ==
  ASSUME TypeInv', NEW keep, EndScan(keep) PROVE WalkInv'
  BY DEF TypeInv, Phases, WalkInv, Held, Visited, Swept, EndScan

LEMMA BeginKeepsWalk ==
  ASSUME TypeInv, NEW r \in Root, BeginRoot(r), UNCHANGED <<row, file>>
  PROVE  WalkInv'
<1> USE NoneAssumption DEF BeginRoot, RowsAt
<1>1. Held'
  BY DEF Held
<1>2. Visited'
  BY DEF Visited
<1>3. Swept'
  BY DEF Swept
<1> QED
  BY <1>1, <1>2, <1>3 DEF WalkInv

\* Each action keeps what a scan knows.
LEMMA StepKeepsWalk == TypeInv /\ TypeInv' /\ WalkInv /\ [Next]_vars => WalkInv'
<1> SUFFICES ASSUME TypeInv, TypeInv', WalkInv, [Next]_vars PROVE WalkInv'
  OBVIOUS
<1> USE NoneAssumption
<1> DEFINE InPlace(e) == row'[e].path = row[e].path /\ row'[e].root = row[e].root
<1>1. ASSUME NEW p \in Path, NEW c \in Content \cup {None}, Write(p, c) PROVE WalkInv'
  BY <1>1, OthersKeepWalk DEF Write, Edit, TypeInv, TypeOK
<1>2. ASSUME NEW p \in Path, NEW q \in Path, Rename(p, q) PROVE WalkInv'
  BY <1>2, OthersKeepWalk DEF Rename, Edit, TypeInv, TypeOK
<1>3. ASSUME NEW p \in Path, Pass(p) PROVE WalkInv'
  BY <1>3 DEF Pass, Step, WalkInv, Held, Visited, Swept, Present, TypeInv, TypeOK, Phases
<1>4. ASSUME NEW p \in Path, WalkError(p) PROVE WalkInv'
  BY <1>4 DEF WalkError, Step, WalkInv, Held, Visited, Swept
<1>5. ASSUME NEW p \in Path, Modified(p) PROVE WalkInv'
  <2>1. \A e \in Doc : HasRow(e) => InPlace(e)
    BY <1>5 DEF Modified, TypeInv, TypeOK, HasRow, Row
  <2> QED
    BY <1>5, <2>1, VisitKeepsWalk DEF Modified, Visit, Step
<1>6. ASSUME NEW p \in Path, Restored(p) PROVE WalkInv'
  <2>1. \A e \in Doc : HasRow(e) => InPlace(e)
    BY <1>6 DEF Restored, Reset, TypeInv, TypeOK, HasRow, Row
  <2> QED
    BY <1>6, <2>1, VisitKeepsWalk DEF Restored, Visit, Step
<1>7. ASSUME NEW p \in Path, Unchanged(p) PROVE WalkInv'
  <2>1. \A e \in Doc : HasRow(e) => InPlace(e)
    BY <1>7 DEF Unchanged, Reactivate, TypeInv, TypeOK, HasRow, Row
  <2> QED
    BY <1>7, <2>1, VisitKeepsWalk DEF Unchanged, Visit, Step
<1>8. ASSUME NEW p \in Path, Adopt(p) PROVE WalkInv'
  <2>1. PICK d \in Owners(file[p]) :
          /\ row' = [row EXCEPT ![d].path = p, ![d].root = root, ![d].status = "active"]
          /\ seen' = seen \cup {row[d].path, p}
          /\ pc' \in {pc, "relocate"}
    BY <1>8 DEF Adopt, BothSeen
  <2>2. \A e \in Doc : HasRow(e) /\ row[e].path \notin seen' => InPlace(e)
    BY <2>1 DEF TypeInv, TypeOK, Owners
  <2> QED
    BY <1>8, <2>1, <2>2, VisitKeepsWalk DEF Adopt, Visit, Step
<1>9. ASSUME NEW p \in Path, RegisterNew(p) PROVE WalkInv'
  <2>1. \A e \in Doc : HasRow(e) => InPlace(e)
    BY <1>9 DEF RegisterNew, Free
  <2> QED
    BY <1>9, <2>1, VisitKeepsWalk DEF RegisterNew, Visit, Step
<1>10. ASSUME NEW p \in Path, Sweep(p) PROVE WalkInv'
  <2>1. \A e \in Doc : HasRow(e) => InPlace(e)
    BY <1>10 DEF Sweep, TypeInv, TypeOK, HasRow, Row
  <2>2. Held'
    BY <1>10, <2>1 DEF Sweep, WalkInv, Held, TypeInv, TypeOK
  <2>3. Visited'
    BY <1>10 DEF Sweep, WalkInv, Visited, Present, history
  <2>4. Swept'
    BY <1>10 DEF Sweep, WalkInv, Swept, Missing
  <2> QED
    BY <2>2, <2>3, <2>4 DEF WalkInv
<1>11. ASSUME NEW p \in Path, RegisterDocument(p) PROVE WalkInv'
  <2>1. pc # "idle" => \E d \in Free : row' = [row EXCEPT ![d] = NewRow(p, None)]
    BY <1>11 DEF RegisterDocument, Unlocked
  <2>2. pc # "idle" => \A e \in Doc : HasRow(e) => row'[e] = row[e]
    BY <2>1 DEF Free, TypeInv, TypeOK
  <2> QED
    BY <1>11, <2>2, OthersKeepWalk DEF RegisterDocument, history
<1>12. ASSUME NEW roots \in SUBSET Root, StartScan(roots) PROVE WalkInv'
  BY <1>12, BeginKeepsWalk DEF StartScan, First
<1>13. CASE Relocated \/ Purge
  BY <1>13 DEF Relocated, Purge, WalkInv, Held, Visited, Swept, Missing, Present, history
<1>14. CASE FinishWalk
  BY <1>14 DEF FinishWalk, WalkInv, Held, Visited, Swept, Missing, Present, history
<1>15. CASE FinishRoot
  BY <1>15, BeginKeepsWalk, EndKeepsWalk DEF FinishRoot, First, TypeInv, TypeOK
<1>16. ASSUME NEW t \in pending, Enqueue(t) PROVE WalkInv'
  <2>1. \A e \in Doc : HasRow(e) => InPlace(e)
    BY <1>16 DEF Enqueue, TypeInv, TypeOK, HasRow, Row
  <2> QED
    BY <1>16, <2>1, OthersKeepWalk DEF Enqueue
<1>17. ASSUME NEW t \in task, Extract(t) PROVE WalkInv'
  <2>1. \A e \in Doc : HasRow(e) => InPlace(e)
    BY <1>17 DEF Extract, TypeInv, TypeOK, HasRow, Row
  <2> QED
    BY <1>17, <2>1, OthersKeepWalk DEF Extract
<1>18. ASSUME NEW f \in flight, Publish(f) PROVE WalkInv'
  BY <1>18, OthersKeepWalk DEF Publish, Unlocked, history
<1>19. ASSUME NEW f \in flight, Fail(f) PROVE WalkInv'
  <2>1. \A e \in Doc : HasRow(e) => InPlace(e)
    BY <1>19 DEF Fail, TypeInv, TypeOK, HasRow, Row
  <2> QED
    BY <1>19, <2>1, OthersKeepWalk DEF Fail, history
<1>20. CASE IndexAll
  BY <1>20, OthersKeepWalk DEF IndexAll, Unlocked
<1>21. ASSUME NEW d \in Doc, DeleteDocument(d) PROVE WalkInv'
  BY <1>21, OthersKeepWalk DEF DeleteDocument, Unlocked
<1>22. CASE Abandon \/ Restart
  BY <1>22, EndKeepsWalk DEF Abandon, Restart
<1>23. CASE UNCHANGED vars
  BY <1>23, OthersKeepWalk DEF vars, history
<1> QED
  BY <1>1, <1>2, <1>3, <1>4, <1>5, <1>6, <1>7, <1>8, <1>9, <1>10, <1>11, <1>12, <1>13,
     <1>14, <1>15, <1>16, <1>17, <1>18, <1>19, <1>20, <1>21, <1>22, <1>23, ScansAssumption
  DEF Next

\* The body of DeletesOnlyMissing.
DeletionIsDue ==
  \A d \in Doc : Deleted(d) /\ RootOf[row[d].path] = row[d].root =>
    ~(Present(row[d].path) /\ row[d].path \in steady)

\* Only the deletion pass takes a document's life, and what it deletes is where
\* the baseline has it and was not seen in a complete walk.
LEMMA SweepDeletes ==
  ASSUME TypeInv, WalkInv, HashUnique, [Next]_vars, NEW d \in Doc, Deleted(d)
  PROVE  \E p \in Path : /\ pc = "sweep" /\ complete /\ p \notin seen
                         /\ row[d].path = p /\ row[d].root = root
<1>1. ~Kept
  BY DEF Kept, Deleted
<1>2. ASSUME NEW p \in Path, Modified(p) PROVE FALSE
  BY <1>2, ModifiedKeepsUnique DEF Deleted
<1>3. ASSUME NEW p \in Path, RegisterNew(p) PROVE FALSE
  BY <1>3, NewRowKeepsUnique DEF RegisterNew, Deleted
<1>4. ASSUME NEW p \in Path, RegisterDocument(p) PROVE FALSE
  <2>1. CASE \E e \in Owners(file[p]) : row' = [row EXCEPT ![e].path = p]
    BY <2>1 DEF Deleted, Live, HasRow, Owners, TypeInv, TypeOK, Row
  <2>2. CASE Owners(file[p]) = {} /\ \E e \in Free : row' = [row EXCEPT ![e] = NewRow(p, None)]
    BY <2>2, NewRowKeepsUnique DEF Deleted
  <2> QED
    BY <1>4, <2>1, <2>2 DEF RegisterDocument
<1>5. PICK p \in Path : Sweep(p)
  BY <1>1, <1>2, <1>3, <1>4, MostStepsKeep DEF Next
<1>6. d = baseline[p]
  BY <1>5 DEF Sweep, Deleted, Live, HasRow, TypeInv, TypeOK, Row
<1>7. p \notin seen /\ baseline[p] # None /\ complete
  BY <1>5 DEF Sweep, WalkInv, Swept, Missing
<1>8. row[d].path = p /\ row[d].root = root
  BY <1>6, <1>7 DEF WalkInv, Held
<1> QED
  BY <1>5, <1>7, <1>8 DEF Sweep

LEMMA StepDeletesMissing == TypeInv /\ WalkInv /\ HashUnique /\ [Next]_vars => DeletionIsDue
<1> SUFFICES ASSUME TypeInv, WalkInv, HashUnique, [Next]_vars, NEW d \in Doc,
                    Deleted(d), RootOf[row[d].path] = row[d].root
             PROVE  ~(Present(row[d].path) /\ row[d].path \in steady)
  BY DEF DeletionIsDue
<1>1. \E p \in Path : /\ pc = "sweep" /\ complete /\ p \notin seen
                      /\ row[d].path = p /\ row[d].root = root
  BY SweepDeletes
<1> QED
  BY <1>1 DEF WalkInv, Visited

LEMMA WalkHolds == Spec => [](TypeInv /\ HashUnique /\ WalkInv)
<1>1. Init => WalkInv /\ HashUnique
  BY DEF Init, WalkInv, Held, Visited, Swept, HashUnique, HasRow
<1>2. Spec => [](TypeInv /\ HashUnique)
  BY <1>1, InitType, StepType, StepKeepsUnique, PTL DEF Spec
<1> QED
  BY <1>1, <1>2, StepKeepsWalk, PTL DEF Spec

\* A scan deletes no document of its root whose file is there and has been
\* while it walked: whatever else edits, moves, registers or deletes meanwhile.
THEOREM DeletionsAreDue == Spec => DeletesOnlyMissing
<1>1. TypeInv /\ HashUnique /\ WalkInv /\ [Next]_vars => [DeletionIsDue]_vars
  BY StepDeletesMissing
<1>2. Spec => [][DeletionIsDue]_vars
  BY <1>1, WalkHolds, PTL DEF Spec
<1> QED
  BY <1>2 DEF DeletesOnlyMissing, DeletionIsDue

-----------------------------------------------------------------------------
(* Where all files are in one root, a row has the root its path is in.      *)

OneRoot == \A p, q \in Path : RootOf[p] = RootOf[q]
Walking == pc \in {"walk", "relocate"}
PlacedInv ==
  /\ \A d \in Doc : HasRow(d) /\ row[d].root # None => RootOf[row[d].path] = row[d].root
  /\ Walking => \A p \in todo : RootOf[p] = root
  /\ pc # "idle" => root \in Root

LEMMA PlacedKept ==
  ASSUME PlacedInv, Walking' => Walking /\ todo' \subseteq todo,
         pc' # "idle" => pc # "idle" /\ root' = root,
         \A d \in Doc : HasRow(d)' =>
           HasRow(d) /\ row'[d].path = row[d].path /\ row'[d].root = row[d].root
  PROVE  PlacedInv'
  BY DEF PlacedInv, Walking

\* A new row is placed where it was found, or nowhere.
LEMMA NewRowKeepsPlaced ==
  ASSUME TypeInv, PlacedInv, Walking' => Walking /\ todo' \subseteq todo,
         pc' # "idle" => pc # "idle" /\ root' = root,
         NEW p \in Path, NEW r, r = None \/ RootOf[p] = r,
         NEW d \in Free, row' = [row EXCEPT ![d] = NewRow(p, r)]
  PROVE  PlacedInv'
  BY DEF PlacedInv, Walking, TypeInv, TypeOK, NewRow, Free, HasRow

\* The steps that take rows elsewhere are an adoption, to the root that is being
\* walked, and a registration, which leaves the root of the row alone.
LEMMA StepKeepsPlaced == OneRoot /\ TypeInv /\ PlacedInv /\ [Next]_vars => PlacedInv'
<1> SUFFICES ASSUME OneRoot, TypeInv, PlacedInv, [Next]_vars PROVE PlacedInv'
  OBVIOUS
<1> USE NoneAssumption
<1> DEFINE InPlace == \A d \in Doc : HasRow(d)' =>
             HasRow(d) /\ row'[d].path = row[d].path /\ row'[d].root = row[d].root
<1>1. ASSUME NEW p \in Path,
             \/ \E c \in Content \cup {None} : Write(p, c)
             \/ \E q \in Path \ {p} : Rename(p, q)
             \/ Pass(p) \/ WalkError(p)
      PROVE  PlacedInv'
  BY <1>1 DEF Write, Rename, Edit, Pass, WalkError, Step, scan, PlacedInv, Walking, HasRow
<1>2. ASSUME NEW p \in Path, Modified(p) PROVE PlacedInv'
  <2>1. InPlace
    BY <1>2 DEF Modified, TypeInv, TypeOK, HasRow, Row
  <2> QED
    BY <1>2, <2>1, PlacedKept DEF Modified, Visit, Step, Walking
<1>3. ASSUME NEW p \in Path, Restored(p) PROVE PlacedInv'
  <2>1. InPlace
    BY <1>3 DEF Restored, Reset, TypeInv, TypeOK, HasRow, Row
  <2> QED
    BY <1>3, <2>1, PlacedKept DEF Restored, Visit, Step, Walking
<1>4. ASSUME NEW p \in Path, Unchanged(p) PROVE PlacedInv'
  <2>1. InPlace
    BY <1>4 DEF Unchanged, Reactivate, TypeInv, TypeOK, HasRow, Row
  <2> QED
    BY <1>4, <2>1, PlacedKept DEF Unchanged, Visit, Step, Walking
<1>5. ASSUME NEW p \in Path, Adopt(p) PROVE PlacedInv'
  <2>1. PICK d \in Owners(file[p]) :
          row' = [row EXCEPT ![d].path = p, ![d].root = root, ![d].status = "active"]
    BY <1>5 DEF Adopt
  <2>2. d \in Doc /\ row[d] \in Row
    BY DEF Owners, HasRow, TypeInv, TypeOK
  <2>3. row'[d].path = p /\ row'[d].root = root /\ \A e \in Doc \ {d} : row'[e] = row[e]
    BY <2>1, <2>2 DEF Row, TypeInv, TypeOK
  <2>4. RootOf[p] = root /\ UNCHANGED root /\ todo' \subseteq todo /\ Walking
    BY <1>5 DEF Adopt, Visit, Step, PlacedInv, Walking
  <2> QED
    BY <2>3, <2>4 DEF PlacedInv, HasRow, Walking
<1>6. ASSUME NEW p \in Path, RegisterNew(p) PROVE PlacedInv'
  <2>1. RootOf[p] = root /\ UNCHANGED root /\ todo' \subseteq todo /\ Walking
    BY <1>6 DEF RegisterNew, Visit, Step, PlacedInv, Walking
  <2> QED
    BY <1>6, <2>1, NewRowKeepsPlaced DEF RegisterNew
<1>7. ASSUME NEW p \in Path, Sweep(p) PROVE PlacedInv'
  <2>1. InPlace
    BY <1>7 DEF Sweep, TypeInv, TypeOK, Phases, HasRow, Row
  <2> QED
    BY <1>7, <2>1, PlacedKept DEF Sweep, Walking
<1>8. ASSUME NEW p \in Path, RegisterDocument(p) PROVE PlacedInv'
  <2>1. UNCHANGED <<todo, root, pc>>
    BY <1>8 DEF RegisterDocument, scan
  <2>2. ASSUME NEW d \in Owners(file[p]), row' = [row EXCEPT ![d].path = p] PROVE PlacedInv'
    <3>1. d \in Doc /\ row[d] \in Row
      BY DEF Owners, HasRow, TypeInv, TypeOK
    <3>2. /\ row'[d].path = p /\ row'[d].root = row[d].root
          /\ \A e \in Doc \ {d} : row'[e] = row[e]
      BY <2>2, <3>1 DEF Row, TypeInv, TypeOK
    <3>3. RootOf[p] = RootOf[row[d].path] /\ HasRow(d)
      BY <3>1 DEF OneRoot, Row, HasRow
    <3> QED
      BY <2>1, <3>1, <3>2, <3>3 DEF PlacedInv, HasRow, Walking
  <2>3. ASSUME NEW d \in Free, row' = [row EXCEPT ![d] = NewRow(p, None)] PROVE PlacedInv'
    BY <2>1, <2>3, NewRowKeepsPlaced DEF Walking
  <2> QED
    BY <1>8, <2>2, <2>3 DEF RegisterDocument
<1>9. ASSUME NEW r \in Root, BeginRoot(r), UNCHANGED row PROVE PlacedInv'
  BY <1>9 DEF BeginRoot, PlacedInv, HasRow
<1>10. ASSUME NEW roots \in SUBSET Root, StartScan(roots) PROVE PlacedInv'
  BY <1>9, <1>10 DEF StartScan, First
<1>11. CASE Relocated \/ FinishWalk \/ Purge
  BY <1>11 DEF Relocated, FinishWalk, Purge, PlacedInv, HasRow, Walking
<1>12. ASSUME NEW keep, EndScan(keep), InPlace PROVE PlacedInv'
  BY <1>12, PlacedKept DEF EndScan, Walking
<1>13. CASE FinishRoot
  <2>1. InPlace /\ UNCHANGED row /\ due \subseteq Root
    BY <1>13 DEF FinishRoot, TypeInv, TypeOK, HasRow
  <2>2. EndScan(TRUE) \/ \E r \in due : BeginRoot(r)
    BY <1>13 DEF FinishRoot, First
  <2> QED
    BY <1>9, <1>12, <2>1, <2>2
<1>14. ASSUME NEW t \in pending, Enqueue(t) PROVE PlacedInv'
  <2>1. InPlace
    BY <1>14 DEF Enqueue, TypeInv, TypeOK, HasRow, Row
  <2> QED
    BY <1>14, <2>1, PlacedKept DEF Enqueue, scan, Walking
<1>15. ASSUME NEW t \in task, Extract(t) PROVE PlacedInv'
  <2>1. InPlace
    BY <1>15 DEF Extract, TypeInv, TypeOK, HasRow, Row
  <2> QED
    BY <1>15, <2>1, PlacedKept DEF Extract, scan, Walking
<1>16. ASSUME NEW f \in flight, Publish(f) PROVE PlacedInv'
  <2>1. InPlace
    BY <1>16 DEF Publish, TypeInv, TypeOK, HasRow, Row
  <2> QED
    BY <1>16, <2>1, PlacedKept DEF Publish, scan, Walking
<1>17. ASSUME NEW f \in flight, Fail(f) PROVE PlacedInv'
  <2>1. InPlace
    BY <1>17 DEF Fail, TypeInv, TypeOK, HasRow, Row
  <2> QED
    BY <1>17, <2>1, PlacedKept DEF Fail, scan, Walking
<1>18. ASSUME NEW D \in SUBSET {d \in Doc : HasRow(d)}, NEW e \in {"indexed", "queued"},
              row' = [d \in Doc |-> IF d \in D THEN [row[d] EXCEPT !.ext = e] ELSE row[d]]
       PROVE  InPlace
  BY <1>18 DEF TypeInv, TypeOK, HasRow, Row
<1>19. CASE IndexAll
  <2>1. PICK D \in SUBSET {d \in Doc : HasRow(d)} :
          row' = [d \in Doc |-> IF d \in D THEN [row[d] EXCEPT !.ext = "indexed"] ELSE row[d]]
    BY <1>19 DEF IndexAll
  <2>2. InPlace
    BY <1>18, <2>1
  <2> QED
    BY <1>19, <2>2, PlacedKept DEF IndexAll, scan, Walking
<1>20. ASSUME NEW d \in Doc, DeleteDocument(d) PROVE PlacedInv'
  <2>1. InPlace
    BY <1>20 DEF DeleteDocument, TypeInv, TypeOK, HasRow
  <2> QED
    BY <1>20, <2>1, PlacedKept DEF DeleteDocument, scan, Walking
<1>21. CASE Abandon
  BY <1>12, <1>21 DEF Abandon, HasRow
<1>22. CASE Restart
  <2>1. PICK D \in SUBSET {d \in Doc : HasRow(d)} :
          row' = [d \in Doc |-> IF d \in D THEN [row[d] EXCEPT !.ext = "queued"] ELSE row[d]]
    BY <1>22 DEF Restart
  <2>2. InPlace
    BY <1>18, <2>1
  <2> QED
    BY <1>12, <1>22, <2>2 DEF Restart
<1>23. CASE UNCHANGED vars
  BY <1>23 DEF vars, scan, PlacedInv, HasRow, Walking
<1> QED
  BY <1>1, <1>2, <1>3, <1>4, <1>5, <1>6, <1>7, <1>8, <1>10, <1>11, <1>13, <1>14, <1>15,
     <1>16, <1>17, <1>19, <1>20, <1>21, <1>22, <1>23, ScansAssumption DEF Next

\* The body of UnvisitedIsKept.
VisitedOrKept ==
  \A d \in Doc : Deleted(d) => ~(Present(row[d].path) /\ row[d].path \in steady)

\* Where all files are in one root, what scanner.py:61 says holds without the
\* exception of rows that name another root than the one they are in: a scan
\* deletes no document whose file is there and has been while it walked.
THEOREM OneRootKeepsUnvisited ==
  ASSUME OneRoot
  PROVE  Spec => UnvisitedIsKept
<1>1. Init => PlacedInv
  BY DEF Init, PlacedInv, HasRow, Walking
<1>2. TypeInv /\ PlacedInv /\ [Next]_vars => PlacedInv'
  BY StepKeepsPlaced
<1>3. Spec => []PlacedInv
  BY <1>1, <1>2, InitType, StepType, PTL DEF Spec
<1>4. ASSUME TypeInv, HashUnique, WalkInv, PlacedInv, [Next]_vars PROVE VisitedOrKept
  <2> SUFFICES ASSUME NEW d \in Doc, Deleted(d)
               PROVE  ~(Present(row[d].path) /\ row[d].path \in steady)
    BY DEF VisitedOrKept
  <2>1. row[d].root = root /\ pc = "sweep" /\ HasRow(d)
    BY <1>4, SweepDeletes DEF Deleted, Live
  <2>2. root # None
    BY <1>4, <2>1, NoneAssumption DEF PlacedInv
  <2>3. DeletionIsDue /\ RootOf[row[d].path] = row[d].root
    BY <1>4, <2>1, <2>2, StepDeletesMissing DEF PlacedInv
  <2> QED
    BY <2>3 DEF DeletionIsDue
<1>5. TypeInv /\ HashUnique /\ WalkInv /\ PlacedInv /\ [Next]_vars => [VisitedOrKept]_vars
  BY <1>4
<1>6. Spec => [][VisitedOrKept]_vars
  BY <1>3, <1>5, WalkHolds, PTL DEF Spec
<1> QED
  BY <1>6 DEF UnvisitedIsKept, VisitedOrKept

-----------------------------------------------------------------------------
\* A document being purged is deleted, so its points may go.
Purged == pc = "purge" => HasRow(cur) /\ ~Live(cur)
HollowInv == Purged /\ LiveHasPoints

\* Only submissions, extractions and registrations come between the deletion of
\* a row and that of its points.
LEMMA StepKeepsPurged == TypeInv /\ Purged /\ [Next]_vars => Purged'
<1> SUFFICES ASSUME TypeInv, Purged, [Next]_vars, pc' = "purge"
             PROVE  HasRow(cur)' /\ ~Live(cur)'
  BY DEF Purged
<1> USE NoneAssumption DEF TypeInv, TypeOK, HasRow, Live
<1> DEFINE Same == /\ pc = "purge" /\ cur' = cur
                   /\ row'[cur] # None /\ row'[cur].status = row[cur].status
<1>1. ASSUME Same PROVE HasRow(cur)' /\ ~Live(cur)'
  BY <1>1 DEF Purged
<1>2. ASSUME row' = row, pc' = pc, cur' = cur PROVE HasRow(cur)' /\ ~Live(cur)'
  BY <1>1, <1>2 DEF Purged
<1>3. ASSUME NEW p \in Path, \/ \E c \in Content \cup {None} : Write(p, c)
                             \/ \E q \in Path \ {p} : Rename(p, q)
      PROVE  HasRow(cur)' /\ ~Live(cur)'
  BY <1>2, <1>3 DEF Write, Rename, Edit, scan
<1>4. ASSUME NEW p \in Path, Pass(p) \/ WalkError(p) \/ Visit(p)
      PROVE  pc = "walk"
  BY <1>4 DEF Pass, WalkError, Visit, Step
<1>5. ASSUME NEW p \in Path, Pass(p) \/ WalkError(p) \/ Modified(p) \/ Restored(p)
                             \/ Unchanged(p) \/ Adopt(p) \/ RegisterNew(p)
      PROVE  FALSE
  BY <1>4, <1>5 DEF Pass, WalkError, Modified, Restored, Unchanged, Adopt, RegisterNew
<1>6. ASSUME NEW p \in Path, Sweep(p) PROVE HasRow(cur)' /\ ~Live(cur)'
  <2>1. baseline[p] # None /\ row[baseline[p]] \in Row /\ baseline[p] \in Doc
    BY <1>6 DEF Sweep, Phases
  <2>2. cur' = baseline[p] /\ row' = [row EXCEPT ![baseline[p]] = [row[baseline[p]] EXCEPT !.status = "deleted"]]
    BY <1>6 DEF Sweep
  <2> QED
    BY <2>1, <2>2 DEF Row
<1>7. ASSUME NEW p \in Path, RegisterDocument(p) PROVE HasRow(cur)' /\ ~Live(cur)'
  <2>1. pc = "purge" /\ cur' = cur /\ cur \in Doc
    BY <1>7 DEF RegisterDocument, scan
  <2>2. PICK d \in Free : row' = [row EXCEPT ![d] = NewRow(p, None)]
    BY <1>7, <2>1 DEF RegisterDocument, Unlocked
  <2>3. cur # d
    BY <2>1 DEF Purged, Free
  <2> QED
    BY <1>1, <2>1, <2>2, <2>3 DEF Purged
<1>8. ASSUME NEW roots, StartScan(roots) PROVE FALSE
  BY <1>8 DEF StartScan, BeginRoot
<1>9. ASSUME Relocated \/ FinishWalk \/ Purge \/ FinishRoot \/ Abandon \/ Restart PROVE FALSE
  BY <1>9 DEF Relocated, FinishWalk, Purge, FinishRoot, BeginRoot, Abandon, Restart, EndScan
<1>10. ASSUME NEW t \in pending, Enqueue(t) PROVE HasRow(cur)' /\ ~Live(cur)'
  BY <1>1, <1>10 DEF Enqueue, scan, Task, Row, Purged
<1>11. ASSUME NEW t \in task, Extract(t) PROVE HasRow(cur)' /\ ~Live(cur)'
  BY <1>1, <1>11 DEF Extract, scan, Task, Row, Purged
<1>12. ASSUME NEW f \in flight, Publish(f) PROVE FALSE
  BY <1>12 DEF Publish, Unlocked, scan
<1>13. ASSUME NEW f \in flight, Fail(f) PROVE HasRow(cur)' /\ ~Live(cur)'
  BY <1>1, <1>13 DEF Fail, scan, Row, Purged
<1>14. ASSUME IndexAll \/ \E d \in Doc : DeleteDocument(d) PROVE FALSE
  BY <1>14 DEF IndexAll, DeleteDocument, Unlocked, scan
<1>15. CASE UNCHANGED vars
  BY <1>2, <1>15 DEF vars, scan
<1> QED
  BY <1>3, <1>5, <1>6, <1>7, <1>8, <1>9, <1>10, <1>11, <1>12, <1>13, <1>14, <1>15 DEF Next

\* A document becomes live only with a submission or as a bare one, and loses its
\* points only when it is deleted.
LEMMA StepKeepsPoints == TypeInv /\ Purged /\ LiveHasPoints /\ [Next]_vars => LiveHasPoints'
<1> SUFFICES ASSUME TypeInv, Purged, LiveHasPoints, [Next]_vars,
                    NEW d \in Doc, d \notin bare', Hollow(d)'
             PROVE  FALSE
  BY DEF LiveHasPoints
<1> USE NoneAssumption DEF TypeInv, TypeOK, Hollow, HasRow, Live, Row, Points, Task
<1>1. d \in bare \/ ~Hollow(d)
  BY DEF LiveHasPoints
<1>2. ASSUME row' = row, points' = points, bare' = bare PROVE FALSE
  BY <1>1, <1>2
<1>3. ASSUME NEW p \in Path, \/ \E c \in Content \cup {None} : Write(p, c)
                             \/ \E q \in Path \ {p} : Rename(p, q)
                             \/ Pass(p) \/ WalkError(p)
      PROVE  FALSE
  BY <1>2, <1>3 DEF Write, Rename, Edit, Pass, WalkError, history
<1>4. ASSUME NEW p \in Path, Modified(p) PROVE FALSE
  BY <1>1, <1>4 DEF Modified, Visit, Step
<1>5. ASSUME NEW p \in Path, Restored(p) PROVE FALSE
  <2>1. baseline[p] \in Doc /\ row[baseline[p]] \in Row /\ points' = points /\ bare' = bare
    BY <1>5 DEF Restored, Visit, Step
  <2>2. row' = [row EXCEPT ![baseline[p]] = [@ EXCEPT !.status = "active", !.ext = "queued"]]
    BY <1>5 DEF Restored, Reset
  <2> QED
    BY <1>1, <2>1, <2>2
<1>6. ASSUME NEW p \in Path, Unchanged(p) PROVE FALSE
  <2>1. points' = points /\ bare' = bare
    BY <1>6 DEF Unchanged, Visit, Step
  <2>2. CASE row' = row
    BY <1>2, <2>1, <2>2
  <2>3. CASE /\ row[baseline[p]].status # "deleted" /\ baseline[p] # None
             /\ row' = [row EXCEPT ![baseline[p]] = [@ EXCEPT !.status = "active"]]
    BY <1>1, <2>1, <2>3
  <2> QED
    BY <1>6, <2>2, <2>3 DEF Unchanged, Reactivate
<1>7. ASSUME NEW p \in Path, Adopt(p) PROVE FALSE
  <2>1. PICK e \in Owners(file[p]) :
          /\ row' = [row EXCEPT ![e].path = p, ![e].root = root, ![e].status = "active"]
          /\ bare' = IF row[e].status = "deleted" THEN bare \cup {e} ELSE bare
    BY <1>7 DEF Adopt
  <2>2. e \in Doc /\ row[e] \in Row /\ points' = points
    BY <1>7 DEF Owners, Adopt, Visit, Step
  <2>3. row' = [row EXCEPT ![e] = [row[e] EXCEPT !.path = p, !.root = root, !.status = "active"]]
    BY <2>1, <2>2
  <2>4. /\ row'[e].ext = row[e].ext
        /\ \A x \in Doc \ {e} : row'[x] = row[x]
    BY <2>2, <2>3
  <2> QED
    BY <1>1, <2>1, <2>2, <2>4
<1>8. ASSUME NEW p \in Path, NEW r, NEW e \in Free, row' = [row EXCEPT ![e] = NewRow(p, r)],
             points' = points, bare' = bare
      PROVE  FALSE
  BY <1>1, <1>8 DEF Free, NewRow
<1>9. ASSUME NEW p \in Path, RegisterNew(p) PROVE FALSE
  BY <1>8, <1>9 DEF RegisterNew, Visit, Step
<1>10. ASSUME NEW p \in Path, Sweep(p) PROVE FALSE
  BY <1>1, <1>10 DEF Sweep, history, Phases
<1>11. ASSUME NEW p \in Path, RegisterDocument(p) PROVE FALSE
  <2>1. CASE \E e \in Owners(file[p]) : row' = [row EXCEPT ![e].path = p]
    BY <1>1, <1>11, <2>1 DEF RegisterDocument, history, Owners
  <2> QED
    BY <1>8, <1>11, <2>1 DEF RegisterDocument, history
<1>12. ASSUME NEW roots, StartScan(roots) PROVE FALSE
  BY <1>2, <1>12 DEF StartScan
<1>13. ASSUME Relocated \/ FinishWalk \/ FinishRoot \/ Abandon PROVE FALSE
  BY <1>2, <1>13 DEF Relocated, FinishWalk, FinishRoot, Abandon, history
<1>14. CASE Purge
  <2>1. row' = row /\ bare' = bare /\ points' \in {points, [points EXCEPT ![cur] = None]} /\ ~Live(cur)
    BY <1>14 DEF Purge, history, Purged
  <2> QED
    BY <1>1, <2>1
<1>15. ASSUME NEW t \in pending, Enqueue(t) PROVE FALSE
  BY <1>1, <1>15 DEF Enqueue
<1>16. ASSUME NEW t \in task, Extract(t) PROVE FALSE
  BY <1>1, <1>16 DEF Extract
<1>17. ASSUME NEW f \in flight, Publish(f) PROVE FALSE
  BY <1>1, <1>17, PointsAssumption DEF Publish, history
<1>18. ASSUME NEW f \in flight, Fail(f) PROVE FALSE
  BY <1>1, <1>18 DEF Fail, history
<1>19. CASE IndexAll
  <2>1. PICK D \in SUBSET {e \in Doc : HasRow(e)} :
          /\ points' = [e \in Doc |-> IF e \in D
                THEN [body |-> file[row[e].path], mark |-> row[e].hash] ELSE points[e]]
          /\ row' = [e \in Doc |-> IF e \in D THEN [row[e] EXCEPT !.ext = "indexed"] ELSE row[e]]
          /\ bare' = bare \ D
          /\ \A e \in D : Present(row[e].path)
    <3> HIDE DEF HasRow, Live, Row, Points, Task, TypeInv, TypeOK, Hollow
    <3> QED
      BY <1>19 DEF IndexAll
  <2>2. CASE d \in D
    <3>1. file[row[d].path] \in Content /\ row[d].hash \in Content
      BY <2>1, <2>2 DEF Present
    <3>2. points'[d] \in Points
      BY <2>1, <2>2, <3>1
    <3> QED
      BY <3>2, PointsAssumption
  <2>3. CASE d \notin D
    BY <1>1, <2>1, <2>3
  <2> QED
    BY <2>2, <2>3
<1>20. ASSUME NEW e \in Doc, DeleteDocument(e) PROVE FALSE
  BY <1>1, <1>20 DEF DeleteDocument
<1>21. CASE Restart
  <2>1. PICK D \in SUBSET {e \in Doc : HasRow(e)} :
          row' = [e \in Doc |-> IF e \in D THEN [row[e] EXCEPT !.ext = "queued"] ELSE row[e]]
    BY <1>21 DEF Restart
  <2> QED
    BY <1>1, <1>21, <2>1 DEF Restart
<1>22. CASE UNCHANGED vars
  BY <1>2, <1>22 DEF vars, history
<1> QED
  BY <1>3, <1>4, <1>5, <1>6, <1>7, <1>9, <1>10, <1>11, <1>12, <1>13, <1>14, <1>15, <1>16,
     <1>17, <1>18, <1>19, <1>20, <1>21, <1>22 DEF Next

\* A live document that says INDEXED has points, unless it is bare: no purge,
\* late worker or restart leaves it without them.
THEOREM LiveHavePoints == Spec => []LiveHasPoints
<1>1. Init => HollowInv
  BY DEF Init, HollowInv, Purged, LiveHasPoints, Hollow, Live, HasRow
<1>2. TypeInv /\ HollowInv /\ [Next]_vars => HollowInv'
  BY StepKeepsPurged, StepKeepsPoints DEF HollowInv
<1>3. Spec => [](TypeInv /\ HollowInv)
  BY <1>1, <1>2, InitType, StepType, PTL DEF Spec
<1> QED
  BY <1>3, PTL DEF HollowInv

-----------------------------------------------------------------------------
(* What is settled is current: unless it went astray, a registered document *)
(* is still to be submitted or extracted, or its only attempt read the      *)
(* registered content, or it has no attempt and its points hold it.         *)

Requested(d) == \E t \in task \cup pending \cup found : t.doc = d
Current(d) == row[d].ext = "indexed" /\ points[d] # None => points[d].body = row[d].hash
Attempted(d) == /\ row[d].ext = "queued"
                /\ \E f \in flight : f.doc = d
                /\ \A f \in flight : f.doc = d => f = [doc |-> d, content |-> row[d].hash]
Finished(d) == (\A f \in flight : f.doc # d) /\ Current(d)
Handled(d) == HasRow(d) /\ d \notin astray => Requested(d) \/ Attempted(d) \/ Finished(d)
CurrentInv == \A d \in Doc : Handled(d)

\* A step that leaves a document's hash, extraction status and attempts alone,
\* keeps or purges its points and forgets no submission of it.
LEMMA QuietKeepsHandled ==
  ASSUME TypeOK, NEW d \in Doc, Handled(d), flight' = flight,
         HasRow(d)' => HasRow(d) /\ row'[d].hash = row[d].hash /\ row'[d].ext = row[d].ext,
         points'[d] \in {points[d], None},
         d \notin astray' => d \notin astray /\ (Requested(d) => Requested(d)')
  PROVE  Handled(d)'
  BY DEF Handled, Attempted, Finished, Current

\* The extraction status may change when there is no attempt, but to INDEXED
\* only with the registered content.
LEMMA StepKeepsHandled == TypeInv /\ CurrentInv /\ [Next]_vars => CurrentInv'
<1> SUFFICES ASSUME TypeInv, CurrentInv, [Next]_vars, NEW d \in Doc PROVE Handled(d)'
  BY DEF CurrentInv
<1> USE NoneAssumption DEF TypeInv
<1>0. Handled(d) /\ TypeOK
  BY DEF CurrentInv
<1> DEFINE Requests == task \cup pending \cup found
<1>1. ASSUME flight' = flight, points'[d] \in {points[d], None}, astray \subseteq astray',
             HasRow(d)' => HasRow(d) /\ row'[d].hash = row[d].hash /\ row'[d].ext = row[d].ext,
             Requests \subseteq Requests'
      PROVE  Handled(d)'
  <2>1. Requested(d) => Requested(d)'
    BY <1>1 DEF Requested
  <2> QED
    BY <1>0, <1>1, <2>1, QuietKeepsHandled
<1>2. ASSUME NEW t \in Requests', t.doc = d PROVE Handled(d)'
  BY <1>2 DEF Handled, Requested
<1>3. ASSUME NEW p \in Path, \/ \E c \in Content \cup {None} : Write(p, c)
                             \/ \E q \in Path \ {p} : Rename(p, q)
                             \/ Pass(p) \/ WalkError(p)
      PROVE  Handled(d)'
  BY <1>1, <1>3 DEF Write, Rename, Edit, Pass, WalkError, history, processing, scan, HasRow
<1>4. ASSUME NEW p \in Path, NEW e \in Doc, row' = [row EXCEPT ![e] = row'[e]], Visit(p), Submit(e, p)
      PROVE  Handled(d)'
  <2>1. CASE d = e
    <3>1. [doc |-> d, path |-> p] \in Requests'
      BY <1>4, <2>1 DEF Submit
    <3> QED
      BY <1>2, <3>1
  <2>2. CASE d # e
    <3>1. row'[d] = row[d]
      BY <1>0, <1>4, <2>2 DEF TypeOK
    <3> QED
      BY <1>1, <1>4, <3>1 DEF Visit, Submit, processing, HasRow
  <2> QED
    BY <2>1, <2>2
<1>5. ASSUME NEW p \in Path, Modified(p) PROVE Handled(d)'
  BY <1>0, <1>4, <1>5 DEF Modified, TypeOK
<1>6. ASSUME NEW p \in Path, Restored(p) PROVE Handled(d)'
  BY <1>0, <1>4, <1>6 DEF Restored, TypeOK
<1>7. ASSUME NEW p \in Path, Unchanged(p) PROVE Handled(d)'
  <2>1. \/ row' = row
        \/ /\ row' = [row EXCEPT ![baseline[p]] = [@ EXCEPT !.status = "active"]]
           /\ baseline[p] \in Doc /\ row[baseline[p]] \in Row
    BY <1>0, <1>7 DEF Unchanged, Reactivate, TypeOK, HasRow
  <2>2. HasRow(d)' => HasRow(d) /\ row'[d].hash = row[d].hash /\ row'[d].ext = row[d].ext
    BY <1>0, <2>1 DEF TypeOK, Row, HasRow
  <2> QED
    BY <1>1, <1>7, <2>2 DEF Unchanged, Visit, Step, processing
<1>8. ASSUME NEW p \in Path, Adopt(p) PROVE Handled(d)'
  <2>1. PICK e \in Owners(file[p]) :
          row' = [row EXCEPT ![e].path = p, ![e].root = root, ![e].status = "active"]
    BY <1>8 DEF Adopt
  <2>2. e \in Doc /\ row[e] \in Row
    BY <1>0 DEF Owners, HasRow, TypeOK
  <2>3. row' = [row EXCEPT ![e] = [row[e] EXCEPT !.path = p, !.root = root, !.status = "active"]]
    BY <1>0, <2>1, <2>2 DEF TypeOK
  <2>4. HasRow(d)' => HasRow(d) /\ row'[d].hash = row[d].hash /\ row'[d].ext = row[d].ext
    BY <1>0, <2>2, <2>3 DEF TypeOK, Row, HasRow
  <2> QED
    BY <1>1, <1>8, <2>4 DEF Adopt, Visit, Step, processing
<1>9. ASSUME NEW p \in Path, RegisterNew(p) PROVE Handled(d)'
  <2>1. PICK e \in Free : row' = [row EXCEPT ![e] = NewRow(p, root)] /\ Submit(e, p)
    BY <1>9 DEF RegisterNew
  <2> QED
    BY <1>0, <1>4, <1>9, <2>1 DEF RegisterNew, Free, TypeOK
<1>10. ASSUME NEW p \in Path, Sweep(p) PROVE Handled(d)'
  <2>1. HasRow(d)' => HasRow(d) /\ row'[d].hash = row[d].hash /\ row'[d].ext = row[d].ext
    BY <1>0, <1>10 DEF Sweep, TypeOK, Row, HasRow
  <2> QED
    BY <1>1, <1>10, <2>1 DEF Sweep, processing, history
<1>11. ASSUME NEW p \in Path, RegisterDocument(p) PROVE Handled(d)'
  <2>1. ASSUME NEW e \in Owners(file[p]), row' = [row EXCEPT ![e].path = p], UNCHANGED pending
        PROVE  Handled(d)'
    <3>1. HasRow(d)' => HasRow(d) /\ row'[d].hash = row[d].hash /\ row'[d].ext = row[d].ext
      BY <1>0, <2>1 DEF TypeOK, Row, HasRow, Owners
    <3> QED
      BY <1>1, <1>11, <2>1, <3>1 DEF RegisterDocument, scan, history
  <2>2. ASSUME NEW e \in Free, row' = [row EXCEPT ![e] = NewRow(p, None)],
               pending' = pending \cup {[doc |-> e, path |-> p]}
        PROVE  Handled(d)'
    <3>1. CASE d = e
      <4>1. [doc |-> e, path |-> p] \in Requests'
        BY <2>2
      <4> QED
        BY <1>2, <3>1, <4>1
    <3>2. CASE d # e
      BY <1>0, <1>1, <1>11, <2>2, <3>2 DEF RegisterDocument, scan, history, TypeOK, HasRow, Free
    <3> QED
      BY <3>1, <3>2
  <2> QED
    BY <1>11, <2>1, <2>2 DEF RegisterDocument
<1>12. ASSUME NEW roots, StartScan(roots) PROVE Handled(d)'
  BY <1>1, <1>12 DEF StartScan, processing, HasRow
<1>13. ASSUME Relocated \/ FinishWalk PROVE Handled(d)'
  BY <1>1, <1>13 DEF Relocated, FinishWalk, processing, history, HasRow
<1>14. CASE Purge
  BY <1>0, <1>1, <1>14 DEF Purge, processing, history, HasRow, TypeOK
<1>15. CASE FinishRoot
  BY <1>1, <1>15 DEF FinishRoot, EndScan, HasRow
<1>16. ASSUME NEW t \in pending, Enqueue(t) PROVE Handled(d)'
  <2>1. CASE HasRow(t.doc) /\ task' = task \cup {t} /\ t.doc = d
    BY <1>2, <2>1
  <2>2. CASE d \in astray'
    BY <2>2 DEF Handled
  <2>3. CASE d \notin astray' /\ t.doc # d
    <3>1. \A x : x.doc = d /\ x \in Requests => x \in Requests'
      BY <1>16, <2>3 DEF Enqueue, scan
    <3>2. row'[d] = row[d] /\ d \notin astray
      BY <1>0, <1>16, <2>3 DEF Enqueue, TypeOK
    <3>3. Requested(d) => Requested(d)'
      BY <3>1 DEF Requested
    <3> QED
      BY <1>0, <1>16, <3>2, <3>3, QuietKeepsHandled DEF Enqueue, HasRow
  <2>4. CASE t.doc = d /\ ~HasRow(d)
    BY <1>16, <2>4 DEF Enqueue, Handled, HasRow
  <2> QED
    BY <1>0, <1>16, <2>1, <2>2, <2>3, <2>4 DEF Enqueue, TypeOK, Task
<1>17. ASSUME NEW t \in task, Extract(t) PROVE Handled(d)'
  <2>1. t.doc \in Doc
    BY <1>0 DEF TypeOK, Task
  <2>2. CASE ~HasRow(d)
    BY <1>17, <2>1, <2>2, <1>0 DEF Extract, Handled, HasRow, TypeOK
  <2>3. CASE t.doc = d /\ HasRow(d) /\ d \notin astray'
    <3>1. /\ file[t.path] = row[d].hash /\ row'[d].hash = row[d].hash /\ row'[d].ext = "queued"
          /\ \A f \in flight : f.doc # d
          /\ flight' = flight \cup {[doc |-> d, content |-> row[d].hash]}
      BY <1>0, <1>17, <2>3 DEF Extract, TypeOK, Row, HasRow
    <3>2. [doc |-> d, content |-> row[d].hash] \in flight'
      BY <3>1
    <3>3. \A f \in flight' : f.doc = d => f = [doc |-> d, content |-> row[d].hash]
      BY <3>1
    <3>4. Attempted(d)'
      BY <3>1, <3>2, <3>3 DEF Attempted
    <3> QED
      BY <3>4 DEF Handled
  <2>4. CASE t.doc # d /\ HasRow(d) /\ d \notin astray'
    <3>1. /\ row'[d] = row[d] /\ d \notin astray /\ points' = points
          /\ \A f : f.doc = d => (f \in flight <=> f \in flight')
          /\ \A x : x.doc = d /\ x \in Requests => x \in Requests'
      BY <1>0, <1>17, <2>1, <2>4 DEF Extract, TypeOK, scan
    <3>2. Requested(d) => Requested(d)'
      BY <3>1 DEF Requested
    <3>3. Attempted(d) => Attempted(d)'
      BY <3>1 DEF Attempted
    <3>4. Finished(d) => Finished(d)'
      BY <3>1 DEF Finished, Current
    <3> QED
      BY <1>0, <2>4, <3>1, <3>2, <3>3, <3>4 DEF Handled
  <2> QED
    BY <2>2, <2>3, <2>4 DEF Handled
<1>18. ASSUME NEW f \in flight, f.doc # d, flight' = flight \ {f}, row'[d] = row[d],
              points'[d] = points[d], UNCHANGED <<task, pending, scan, history>>
       PROVE  Handled(d)'
  <2>1. Requested(d) => Requested(d)'
    BY <1>18 DEF Requested, scan
  <2>2. Attempted(d) => Attempted(d)'
    BY <1>18 DEF Attempted
  <2>3. Finished(d) => Finished(d)'
    BY <1>18 DEF Finished, Current
  <2> QED
    BY <1>0, <1>18, <2>1, <2>2, <2>3 DEF Handled, HasRow, history
<1>19. ASSUME NEW f \in flight, f.doc = d, flight' = flight \ {f},
              Attempted(d) => Finished(d)', HasRow(d)' => HasRow(d),
              UNCHANGED <<task, pending, scan, history>>
       PROVE  Handled(d)'
  <2>1. Requested(d) => Requested(d)'
    BY <1>19 DEF Requested, scan
  <2>2. ~Finished(d)
    BY <1>19 DEF Finished
  <2> QED
    BY <1>0, <1>19, <2>1, <2>2 DEF Handled, history
<1>20. ASSUME NEW f \in flight, Publish(f) PROVE Handled(d)'
  <2>1. CASE f.doc # d
    BY <1>0, <1>18, <1>20, <2>1 DEF Publish, TypeOK
  <2>2. CASE f.doc = d
    <3>1. ASSUME Attempted(d) PROVE Finished(d)'
      BY <1>0, <1>20, <2>2, <3>1 DEF Publish, Attempted, Finished, Current, TypeOK, Row, HasRow, Points
    <3>2. HasRow(d)' => HasRow(d)
      BY <1>0, <1>20, <2>2 DEF Publish, HasRow
    <3> QED
      BY <1>19, <1>20, <2>2, <3>1, <3>2 DEF Publish
  <2> QED
    BY <2>1, <2>2
<1>21. ASSUME NEW f \in flight, Fail(f) PROVE Handled(d)'
  <2>1. CASE f.doc # d
    BY <1>0, <1>18, <1>21, <2>1 DEF Fail, TypeOK
  <2>2. CASE f.doc = d
    <3>1. ASSUME Attempted(d) PROVE Finished(d)'
      BY <1>0, <1>21, <2>2, <3>1 DEF Fail, Attempted, Finished, Current, TypeOK, Row, HasRow
    <3>2. HasRow(d)' => HasRow(d)
      BY <1>0, <1>21, <2>2 DEF Fail, HasRow
    <3> QED
      BY <1>19, <1>21, <2>2, <3>1, <3>2 DEF Fail
  <2> QED
    BY <2>1, <2>2
<1>22. CASE IndexAll
  <2>1. PICK D \in SUBSET {e \in Doc : HasRow(e) /\ row[e].ext # "queued"} :
          /\ points' = [e \in Doc |-> IF e \in D
                THEN [body |-> file[row[e].path], mark |-> row[e].hash] ELSE points[e]]
          /\ row' = [e \in Doc |-> IF e \in D THEN [row[e] EXCEPT !.ext = "indexed"] ELSE row[e]]
          /\ astray' = astray \cup {e \in D : file[row[e].path] # row[e].hash}
    <3> HIDE DEF HasRow, TypeInv
    <3> QED
      BY <1>22 DEF IndexAll
  <2>2. Requested(d) => Requested(d)'
    BY <1>22 DEF IndexAll, Requested, processing, scan
  <2>3. CASE d \in D /\ d \notin astray'
    <3>1. /\ HasRow(d) /\ ~Attempted(d) /\ d \notin astray
          /\ row'[d].hash = row[d].hash /\ points'[d].body = row[d].hash
      BY <1>0, <2>1, <2>3 DEF Attempted, TypeOK, Row, HasRow
    <3>2. Finished(d) => Finished(d)'
      BY <1>22, <3>1 DEF Finished, Current, IndexAll, processing
    <3> QED
      BY <1>0, <2>2, <3>1, <3>2 DEF Handled
  <2>4. CASE d \notin D /\ d \notin astray'
    BY <1>0, <1>22, <2>1, <2>2, <2>4, QuietKeepsHandled DEF IndexAll, processing, HasRow
  <2> QED
    BY <2>3, <2>4 DEF Handled
<1>23. ASSUME NEW e \in Doc, DeleteDocument(e) PROVE Handled(d)'
  <2>1. CASE d = e
    BY <1>0, <1>23, <2>1 DEF DeleteDocument, TypeOK, Handled, HasRow
  <2>2. CASE d # e
    <3>1. row'[d] = row[d] /\ points'[d] = points[d] /\ (d \in astray <=> d \in astray')
      BY <1>0, <1>23, <2>2 DEF DeleteDocument, TypeOK
    <3>2. Requested(d) => Requested(d)'
      BY <1>23 DEF DeleteDocument, Requested, processing, scan
    <3> QED
      BY <1>0, <1>23, <3>1, <3>2, QuietKeepsHandled DEF DeleteDocument, processing, HasRow
  <2> QED
    BY <2>1, <2>2
<1>24. CASE Abandon
  <2>1. d \notin astray' => d \notin astray /\ (Requested(d) => Requested(d)')
    BY <1>24 DEF Abandon, Requested
  <2> QED
    BY <1>0, <1>24, <2>1, QuietKeepsHandled DEF Abandon, HasRow
<1>25. CASE Restart
  <2>1. PICK D \in SUBSET {e \in Doc : HasRow(e)} :
          /\ \A e \in Doc : HasRow(e) /\ row[e].ext = "queued" => e \in D
          /\ row' = [e \in Doc |-> IF e \in D THEN [row[e] EXCEPT !.ext = "queued"] ELSE row[e]]
          /\ task' = {[doc |-> e, path |-> row[e].path] : e \in D}
          /\ astray' = (astray \cup Forgotten(found \cup pending \cup task)) \ D
    BY <1>25 DEF Restart
  <2>2. CASE d \in D
    <3>1. [doc |-> d, path |-> row[d].path] \in Requests'
      BY <2>1, <2>2
    <3> QED
      BY <1>2, <3>1
  <2>3. CASE d \notin D /\ d \notin astray' /\ HasRow(d)
    <3>1. row'[d] = row[d] /\ row[d].ext # "queued" /\ points' = points /\ d \notin astray
      BY <1>25, <2>1, <2>3 DEF Restart
    <3>2. ~Requested(d)
      BY <2>1, <2>3, <3>1 DEF Forgotten, Requested
    <3>3. Finished(d)
      BY <1>0, <2>3, <3>1, <3>2 DEF Handled, Attempted
    <3>4. Finished(d)'
      BY <1>25, <3>1, <3>3 DEF Restart, Finished, Current
    <3> QED
      BY <3>4 DEF Handled
  <2> QED
    BY <2>1, <2>2, <2>3 DEF Handled, HasRow
<1>26. CASE UNCHANGED vars
  BY <1>1, <1>26 DEF vars, history, processing, scan, HasRow
<1> QED
  BY <1>3, <1>5, <1>6, <1>7, <1>8, <1>9, <1>10, <1>11, <1>12, <1>13, <1>14, <1>15, <1>16,
     <1>17, <1>20, <1>21, <1>22, <1>23, <1>24, <1>25, <1>26 DEF Next

\* A document that is settled and whose file holds the registered content has
\* points made from it, unless its last submission was lost or read another.
THEOREM SettledHasRegistered == Spec => []SettledIsCurrent
<1>1. Init => CurrentInv
  BY DEF Init, CurrentInv, Handled, HasRow
<1>2. CurrentInv => SettledIsCurrent
  BY DEF CurrentInv, SettledIsCurrent, Handled, Requested, Attempted, Finished, Current,
         Outstanding, Live
<1>3. Spec => [](TypeInv /\ CurrentInv)
  BY <1>1, StepKeepsHandled, InitType, StepType, PTL DEF Spec
<1> QED
  BY <1>2, <1>3, PTL

-----------------------------------------------------------------------------
(* What a complete walk over steady files leaves behind.  A path it is done *)
(* with has a content that some row holds, and that row shelters it from    *)
(* the deletion pass or the path is about to be submitted; only a content   *)
(* that could not be read, or that its row gave up, is not covered.         *)

RootSteady == {p \in Path : RootOf[p] = root} \subseteq steady
Undisturbed == pc # "idle" /\ complete /\ RootSteady
Walked(p) == RootOf[p] = root /\ Present(p) /\ ~(pc \in {"walk", "relocate"} /\ p \in todo)
Safe(d) == /\ Live(d)
           /\ \A q \in Path : baseline[q] = d => q \in seen \/ (Present(q) /\ RootOf[q] = root)
Shelters(d) == Misplaced(d) \/ Safe(d)
Covered(p) ==
  \/ file[p] \in missed
  \/ /\ Owners(file[p]) # {}
     /\ \/ \E d \in Owners(file[p]) : Shelters(d)
        \/ \E t \in found : t.path = p
BaselineIsExact == \A p, q \in Path : baseline[p] = baseline[q] /\ baseline[p] # None => p = q
CoverInv == /\ BaselineIsExact
            /\ Undisturbed => \A p \in Path : Walked(p) => Covered(p)

\* A row keeps its content, unless the walk knows that it gave it up, and
\* shelters what it sheltered.
Stays(d) == /\ HasRow(d)'
            /\ row'[d].hash = row[d].hash \/ row[d].hash \in missed'
            /\ Shelters(d) => Shelters(d)'

LEMMA CoverKept ==
  ASSUME CoverInv, UNCHANGED <<baseline, root>>,
         Undisturbed' =>
           /\ Undisturbed
           /\ found \subseteq found' /\ missed \subseteq missed'
           /\ \A p \in Path : RootOf[p] = root => file'[p] = file[p]
           /\ \A d \in Doc : HasRow(d) => Stays(d)
           /\ \A p \in Path : Walked(p)' => Walked(p) \/ Covered(p)'
  PROVE  CoverInv'
<1>1. BaselineIsExact'
  BY DEF CoverInv, BaselineIsExact
<1>2. ASSUME Undisturbed', NEW p \in Path, Walked(p)' PROVE Covered(p)'
  <2>1. SUFFICES ASSUME Walked(p) PROVE Covered(p)'
    BY <1>2
  <2>2. Covered(p) /\ file'[p] = file[p]
    BY <1>2, <2>1 DEF CoverInv, Walked
  <2>3. \A d \in Owners(file[p]) : /\ Shelters(d) => Shelters(d)'
                                   /\ d \in Owners(file[p])' \/ file[p] \in missed'
    BY <1>2, <2>2 DEF Owners, Stays
  <2> QED
    BY <1>2, <2>2, <2>3 DEF Covered
<1> QED
  BY <1>1, <1>2 DEF CoverInv

\* A row that keeps its place and its life.
LEMMA InPlaceStays ==
  ASSUME NEW d \in Doc, HasRow(d)', Live(d) => Live(d)',
         row'[d].hash = row[d].hash \/ row[d].hash \in missed',
         row'[d].path = row[d].path, row'[d].root = row[d].root,
         UNCHANGED <<baseline, root>>, seen \subseteq seen',
         \A q \in Path : RootOf[q] = root => file'[q] = file[q]
  PROVE  Stays(d)
  BY DEF Stays, Shelters, Safe, Misplaced, Present

\* A visit of p, if it leaves rows in place and p covered.
LEMMA VisitKeepsCover ==
  ASSUME TypeInv, CoverInv, NEW p \in Path, Visit(p), pc' \in {"walk", "relocate"},
         found \subseteq found', missed \subseteq missed', RootOf[p] = root => Covered(p)',
         \A d \in Doc : HasRow(d) => Stays(d)
  PROVE  CoverInv'
<1>1. Undisturbed' => Undisturbed
  BY DEF Visit, Step, Undisturbed, RootSteady
<1>2. \A q \in Path : Walked(q)' => Walked(q) \/ Covered(q)'
  BY DEF Visit, Step, Walked, Present
<1> QED
  BY <1>1, <1>2, CoverKept DEF Visit

\* A step beside the walk or after it.
LEMMA OthersKeepCover ==
  ASSUME CoverInv, UNCHANGED <<baseline, root, seen, complete, found, missed>>,
         steady' \subseteq steady, \A q \in steady' : file'[q] = file[q],
         pc' # "idle" =>
           /\ pc # "idle"
           /\ pc \in {"walk", "relocate"} /\ pc' \in {"walk", "relocate"} => todo' = todo
           /\ pc \in {"walk", "relocate"} /\ pc' \notin {"walk", "relocate"} => todo = {}
           /\ \A d \in Doc : HasRow(d) =>
                /\ HasRow(d)' /\ (Live(d) => Live(d)')
                /\ row'[d].hash = row[d].hash
                /\ row'[d].path = row[d].path /\ row'[d].root = row[d].root,
         pc \notin {"walk", "relocate"} => pc' \notin {"walk", "relocate"}
  PROVE  CoverInv'
<1>1. Undisturbed' => Undisturbed
  BY DEF Undisturbed, RootSteady
<1>2. Undisturbed' => \A q \in Path : RootOf[q] = root => file'[q] = file[q]
  BY DEF Undisturbed, RootSteady
<1>3. Undisturbed' => \A d \in Doc : HasRow(d) => Stays(d)
  BY <1>2, InPlaceStays DEF Undisturbed
<1>4. Undisturbed' => \A q \in Path : Walked(q)' => Walked(q)
  BY <1>2 DEF Undisturbed, Walked, Present
<1> QED
  BY <1>1, <1>2, <1>3, <1>4, CoverKept

LEMMA EndKeepsCover ==
  ASSUME NEW keep, EndScan(keep) PROVE CoverInv'
  BY DEF EndScan, CoverInv, BaselineIsExact, Undisturbed

LEMMA BeginKeepsCover ==
  ASSUME TypeInv, NEW r \in Root, BeginRoot(r), UNCHANGED row
  PROVE  CoverInv'
<1>1. BaselineIsExact'
  BY DEF BeginRoot, RowsAt, BaselineIsExact
<1>2. \A p \in Path : ~Walked(p)'
  BY DEF BeginRoot, Walked
<1> QED
  BY <1>1, <1>2 DEF CoverInv

LEMMA StepKeepsCover == TypeInv /\ WalkInv /\ CoverInv /\ [Next]_vars => CoverInv'
<1> SUFFICES ASSUME TypeInv, WalkInv, CoverInv, [Next]_vars PROVE CoverInv'
  OBVIOUS
<1> USE NoneAssumption
<1>0. TypeOK
  BY DEF TypeInv
<1> DEFINE Same(e) == /\ HasRow(e)' /\ (Live(e) => Live(e)')
                      /\ row'[e].hash = row[e].hash
                      /\ row'[e].path = row[e].path /\ row'[e].root = row[e].root
<1>1. ASSUME NEW p \in Path, \/ \E c \in Content \cup {None} : Write(p, c)
                             \/ \E q \in Path \ {p} : Rename(p, q)
      PROVE  CoverInv'
  BY <1>0, <1>1, OthersKeepCover DEF Write, Rename, Edit, scan, TypeOK, HasRow, Live
<1>2. ASSUME NEW p \in Path, Pass(p) PROVE CoverInv'
  <2>1. \A d \in Doc : HasRow(d) => Stays(d)
    BY <1>2, InPlaceStays DEF Pass, HasRow, Live
  <2>2. \A q \in Path : Walked(q)' => Walked(q) \/ Covered(q)'
    BY <1>2 DEF Pass, Step, Walked, Covered, Present
  <2>3. Undisturbed' => Undisturbed
    BY <1>2 DEF Pass, Step, Undisturbed, RootSteady
  <2> QED
    BY <1>2, <2>1, <2>2, <2>3, CoverKept DEF Pass
<1>3. ASSUME NEW p \in Path, WalkError(p) PROVE CoverInv'
  BY <1>3 DEF WalkError, CoverInv, BaselineIsExact, Undisturbed
<1>4. ASSUME NEW p \in Path, Modified(p) PROVE CoverInv'
  <2> DEFINE e == baseline[p]
  <2>1. /\ e \in Doc /\ row[e] \in Row /\ row[e].hash # file[p] /\ p \in seen'
        /\ row' = [row EXCEPT ![e] = [row[e] EXCEPT !.hash = StoredHash(e, file[p]), !.status = "modified"]]
        /\ missed' = IF StoredHash(e, file[p]) = file[p] THEN missed \cup {row[e].hash} ELSE missed
        /\ StoredHash(e, file[p]) = IF Owners(file[p]) = {} THEN file[p] ELSE row[e].hash
        /\ found' = found \cup {[doc |-> e, path |-> p]} /\ seen \subseteq seen'
        /\ UNCHANGED <<file, baseline, root>>
        /\ pc' = "walk"
    BY <1>0, <1>4 DEF Modified, Visit, Step, StoredHash, Submit, TypeOK, HasRow
  <2> HIDE DEF e
  <2> DEFINE h == StoredHash(e, file[p])
             new == [row[e] EXCEPT !.hash = h, !.status = "modified"]
  <2>a. /\ new # None /\ new.hash = h /\ new.status = "modified"
        /\ new.path = row[e].path /\ new.root = row[e].root
    <3>1. h \in Content
      BY <1>0, <1>4, <2>1 DEF TypeOK, Row, Modified, Visit, Present
    <3> HIDE DEF h
    <3>2. new \in Row
      BY <2>1, <3>1 DEF Row
    <3> QED
      BY <2>1, <3>2 DEF Row
  <2>b. row'[e] = new /\ \A d \in Doc \ {e} : row'[d] = row[d]
    BY <1>0, <2>1 DEF TypeOK
  <2>c. h = file[p] \/ h = row[e].hash
    BY <2>1
  <2>d. missed' = IF h = file[p] THEN missed \cup {row[e].hash} ELSE missed
    BY <2>1
  <2>e. Owners(file[p]) = {} => h = file[p]
    BY <2>1
  <2> HIDE DEF h, new
  <2>2. \A d \in Doc : HasRow(d) =>
          /\ HasRow(d)' /\ (Live(d) => Live(d)')
          /\ row'[d].hash = row[d].hash \/ row[d].hash \in missed'
          /\ row'[d].path = row[d].path /\ row'[d].root = row[d].root
    BY <2>a, <2>b, <2>c, <2>d DEF HasRow, Live
  <2>3. \A d \in Doc : HasRow(d) => Stays(d)
    BY <2>1, <2>2, InPlaceStays
  <2>4. Owners(file[p])' # {}
    <3>1. CASE Owners(file[p]) = {}
      <4>1. row'[e].hash = file[p] /\ row'[e] # None
        BY <2>a, <2>b, <2>e, <3>1
      <4> QED
        BY <2>1, <4>1 DEF Owners, HasRow
    <3>2. ASSUME NEW o \in Owners(file[p]) PROVE Owners(file[p])' # {}
      <4>1. o \in Doc /\ o # e /\ row'[o] = row[o]
        BY <1>0, <2>1, <3>2 DEF TypeOK, Owners
      <4> QED
        BY <2>1, <3>2, <4>1 DEF Owners, HasRow
    <3> QED
      BY <3>1, <3>2
  <2>5. Covered(p)'
    <3>1. [doc |-> e, path |-> p] \in found'
      BY <2>1
    <3>2. \E t \in found' : t.path = p
      BY <3>1
    <3> QED
      BY <2>4, <3>2 DEF Covered
  <2> QED
    BY <1>4, <2>1, <2>3, <2>5, VisitKeepsCover DEF Modified
<1>5. ASSUME NEW p \in Path, Restored(p) PROVE CoverInv'
  <2> DEFINE e == baseline[p]
  <2>1. /\ e \in Doc /\ row[e] \in Row /\ row[e].hash = file[p]
        /\ row' = [row EXCEPT ![e] = [row[e] EXCEPT !.status = "active", !.ext = "queued"]]
        /\ found' = found \cup {[doc |-> e, path |-> p]} /\ seen \subseteq seen'
        /\ UNCHANGED <<file, baseline, root, missed>>
        /\ pc' = "walk"
    BY <1>0, <1>5 DEF Restored, Reset, Visit, Step, Submit, TypeOK, HasRow
  <2> HIDE DEF e
  <2>2. \A d \in Doc : HasRow(d) => Same(d)
    BY <1>0, <2>1 DEF TypeOK, Row, HasRow, Live
  <2>3. \A d \in Doc : HasRow(d) => Stays(d)
    BY <2>1, <2>2, InPlaceStays
  <2>4. e \in Owners(file[p])'
    BY <2>1, <2>2 DEF Owners, HasRow
  <2>5. Covered(p)'
    <3>1. [doc |-> e, path |-> p] \in found'
      BY <2>1
    <3>2. \E t \in found' : t.path = p
      BY <3>1
    <3> QED
      BY <2>4, <3>2 DEF Covered
  <2> QED
    BY <1>5, <2>1, <2>3, <2>5, VisitKeepsCover DEF Restored
<1>6. ASSUME NEW p \in Path, Unchanged(p) PROVE CoverInv'
  <2>0. PICK e \in Doc : e = baseline[p] /\ row[e] \in Row /\ e # None
    BY <1>0, <1>6 DEF Unchanged, TypeOK, HasRow
  <2>1. /\ \/ OwnedElsewhere(e, file[p]) /\ row' = row
           \/ /\ row[e].hash = file[p] /\ Live(e)
              /\ row' = [row EXCEPT ![e] = [row[e] EXCEPT !.status = "active"]]
        /\ seen' = seen \cup {p} /\ pc' = "walk"
        /\ UNCHANGED <<file, baseline, root, found, missed>>
    BY <1>0, <1>6, <2>0 DEF Unchanged, Reactivate, Visit, Step, TypeOK, HasRow, Live
  <2>3. \A d \in Doc : HasRow(d) => Same(d)
    BY <1>0, <2>1, <2>0 DEF TypeOK, Row, HasRow, Live
  <2>4. \A d \in Doc : HasRow(d) => Stays(d)
    BY <2>1, <2>3, InPlaceStays
  <2>5. ASSUME RootOf[p] = root PROVE Covered(p)'
    <3>1. ASSUME NEW o \in Owners(file[p]), Shelters(o)' PROVE Covered(p)'
      BY <2>1, <2>3, <3>1 DEF Covered, Owners, HasRow
    <3>2. CASE OwnedElsewhere(e, file[p]) /\ row' = row
      <4>1. PICK o \in Owners(file[p]) \ {e} : row[o].status # "deleted" /\ Present(row[o].path)
        BY <3>2 DEF OwnedElsewhere
      <4>2. o \in Doc /\ row[o] \in Row /\ Live(o)
        BY <1>0, <4>1 DEF Owners, TypeOK, HasRow, Live
      <4>3. \A q \in Path : baseline[q] = o /\ q \notin seen => row[o].path = q /\ row[o].root = root
        BY <4>2 DEF WalkInv, Held
      <4>4. ASSUME ~Misplaced(o) PROVE Safe(o)
        <5>1. ASSUME NEW q \in Path, baseline[q] = o, q \notin seen
              PROVE  Present(q) /\ RootOf[q] = root
          <6>1. root # None
            BY <2>5, RootAssumption
          <6> QED
            BY <4>1, <4>3, <4>4, <5>1, <6>1 DEF Misplaced
        <5> QED
          BY <4>2, <5>1 DEF Safe
      <4>5. Shelters(o)'
        BY <2>4, <4>2, <4>4 DEF Shelters, Stays, Live
      <4> QED
        BY <3>1, <4>1, <4>5
    <3>3. CASE row[e].hash = file[p] /\ Live(e)
      <4>1. Live(e)' /\ e \in Owners(file[p])
        BY <2>0, <2>3, <3>3 DEF Live, Owners
      <4>2. \A q \in Path : baseline[q] = e => q = p
        BY <2>0 DEF CoverInv, BaselineIsExact
      <4>3. Shelters(e)'
        BY <2>1, <4>1, <4>2 DEF Shelters, Safe
      <4> QED
        BY <3>1, <4>1, <4>3
    <3> QED
      BY <2>1, <3>2, <3>3
  <2> QED
    BY <1>6, <2>1, <2>4, <2>5, VisitKeepsCover DEF Unchanged
<1>7. ASSUME NEW p \in Path, Adopt(p) PROVE CoverInv'
  <2>1. PICK e \in Owners(file[p]) :
          /\ row' = [row EXCEPT ![e].path = p, ![e].root = root, ![e].status = "active"]
          /\ seen' = seen \cup {row[e].path, p}
          /\ pc' \in {pc, "relocate"}
    BY <1>7 DEF Adopt, BothSeen
  <2>2. /\ e \in Doc /\ row[e] \in Row /\ row[e].hash = file[p] /\ pc = "walk"
        /\ UNCHANGED <<file, baseline, root, found, missed>>
    BY <1>0, <1>7 DEF Owners, TypeOK, HasRow, Adopt, Visit, Step
  <2>3. row' = [row EXCEPT ![e] = [row[e] EXCEPT !.path = p, !.root = root, !.status = "active"]]
    BY <1>0, <2>1, <2>2 DEF TypeOK
  <2>4. row'[e].hash = row[e].hash /\ HasRow(e)' /\ Live(e)'
    BY <1>0, <2>2, <2>3, <1>7 DEF TypeOK, Row, HasRow, Live
  <2>5. \A q \in Path : baseline[q] = e => q \in seen'
    BY <2>1, <2>2 DEF WalkInv, Held
  <2>6. Safe(e)'
    BY <2>2, <2>4, <2>5 DEF Safe
  <2>7. \A d \in Doc : HasRow(d) => Stays(d)
    <3>1. \A d \in Doc \ {e} : HasRow(d) => Same(d)
      BY <1>0, <2>3 DEF TypeOK, HasRow, Live
    <3>2. \A d \in Doc \ {e} : HasRow(d) => Stays(d)
      BY <2>1, <2>2, <3>1, InPlaceStays
    <3> QED
      BY <2>4, <2>6, <3>2 DEF Stays, Shelters
  <2>8. Covered(p)'
    BY <2>2, <2>4, <2>6 DEF Covered, Shelters, Owners
  <2> QED
    BY <1>7, <2>1, <2>2, <2>7, <2>8, VisitKeepsCover DEF Adopt
<1>8. ASSUME NEW p \in Path, RegisterNew(p) PROVE CoverInv'
  <2>1. PICK e \in Free : row' = [row EXCEPT ![e] = NewRow(p, root)] /\ Submit(e, p)
    BY <1>8 DEF RegisterNew
  <2>2. e \in Doc /\ ~HasRow(e) /\ row'[e] = NewRow(p, root) /\ pc = "walk"
        /\ seen \subseteq seen' /\ found' = found \cup {[doc |-> e, path |-> p]}
        /\ UNCHANGED <<file, baseline, root, missed, pc>>
    BY <1>0, <1>8, <2>1 DEF Free, TypeOK, RegisterNew, Visit, Step, Submit
  <2>3. \A d \in Doc : HasRow(d) => Same(d)
    BY <1>0, <2>1, <2>2 DEF TypeOK, HasRow, Live
  <2>4. \A d \in Doc : HasRow(d) => Stays(d)
    BY <2>2, <2>3, InPlaceStays
  <2>5. row'[e].hash = file[p] /\ row'[e] # None
    <3>1. NewRow(p, root) \in Row
      BY <1>0, <1>8 DEF RegisterNew, Visit, TypeOK, Present, NewRow, Row
    <3> QED
      BY <2>2, <3>1 DEF NewRow
  <2>6. Covered(p)'
    <3>1. [doc |-> e, path |-> p] \in found'
      BY <2>2
    <3>2. \E t \in found' : t.path = p
      BY <3>1
    <3>3. e \in Owners(file[p])'
      BY <2>2, <2>5 DEF Owners, HasRow
    <3> QED
      BY <3>2, <3>3 DEF Covered
  <2> QED
    BY <1>8, <2>2, <2>4, <2>6, VisitKeepsCover DEF RegisterNew
<1>9. ASSUME NEW p \in Path, Sweep(p) PROVE CoverInv'
  <2> DEFINE e == baseline[p]
  <2>1. /\ e \in Doc /\ row[e] \in Row
        /\ row' = [row EXCEPT ![e] = [row[e] EXCEPT !.status = "deleted"]]
    BY <1>0, <1>9 DEF Sweep, TypeInv, TypeOK, Phases, HasRow
  <2>2. UNCHANGED <<file, baseline, root, seen, complete, found, missed, steady>>
    BY <1>9 DEF Sweep, history
  <2>3. p \notin seen
    BY <1>9 DEF Sweep, WalkInv, Swept, Missing
  <2>4. ASSUME Undisturbed, NEW d \in Doc, HasRow(d) PROVE Stays(d)
    <3>1. CASE d # e
      <4>1. row'[d] = row[d]
        BY <1>0, <2>1, <3>1 DEF TypeOK
      <4> QED
        BY <2>2, <2>4, <4>1, InPlaceStays DEF HasRow, Live
    <3>2. CASE d = e
      <4>1. ~Safe(d)
        BY <1>9, <2>3, <2>4, <3>2 DEF Safe, Sweep, Undisturbed, RootSteady, WalkInv, Visited
      <4>2. /\ HasRow(d)' /\ row'[d].hash = row[d].hash
            /\ row'[d].path = row[d].path /\ row'[d].root = row[d].root
        BY <1>0, <2>1, <3>2 DEF TypeOK, Row, HasRow
      <4> QED
        BY <4>1, <4>2 DEF Stays, Shelters, Misplaced
    <3> QED
      BY <3>1, <3>2
  <2>5. Undisturbed' => Undisturbed
    BY <1>9, <2>2 DEF Undisturbed, RootSteady, Sweep
  <2>6. \A q \in Path : Walked(q)' => Walked(q)
    BY <1>9, <2>2 DEF Walked, Present, Sweep
  <2> QED
    BY <2>2, <2>4, <2>5, <2>6, CoverKept
<1>10. ASSUME NEW p \in Path, RegisterDocument(p) PROVE CoverInv'
  <2>1. pc # "idle" => \E d \in Free : row' = [row EXCEPT ![d] = NewRow(p, None)]
    BY <1>10 DEF RegisterDocument, Unlocked
  <2>2. pc # "idle" => \A d \in Doc : HasRow(d) => Same(d)
    BY <1>0, <2>1 DEF Free, TypeOK, HasRow, Live
  <2> QED
    BY <1>10, <2>2, OthersKeepCover DEF RegisterDocument, scan, history
<1>11. ASSUME NEW roots \in SUBSET Root, StartScan(roots) PROVE CoverInv'
  BY <1>11, BeginKeepsCover DEF StartScan, First
<1>12. ASSUME Relocated \/ FinishWalk \/ Purge PROVE CoverInv'
  BY <1>12, OthersKeepCover DEF Relocated, FinishWalk, Purge, history, HasRow, Live
<1>13. CASE FinishRoot
  BY <1>0, <1>13, BeginKeepsCover, EndKeepsCover DEF FinishRoot, First, TypeOK
<1>14. ASSUME NEW t \in pending, Enqueue(t) PROVE CoverInv'
  <2>1. \A d \in Doc : HasRow(d) => Same(d)
    BY <1>0, <1>14 DEF Enqueue, TypeOK, HasRow, Row, Live
  <2> QED
    BY <1>14, <2>1, OthersKeepCover DEF Enqueue, scan
<1>15. ASSUME NEW t \in task, Extract(t) PROVE CoverInv'
  <2>1. \A d \in Doc : HasRow(d) => Same(d)
    BY <1>0, <1>15 DEF Extract, TypeOK, HasRow, Row, Live
  <2> QED
    BY <1>15, <2>1, OthersKeepCover DEF Extract, scan
<1>16. ASSUME NEW f \in flight, Fail(f) PROVE CoverInv'
  <2>1. \A d \in Doc : HasRow(d) => Same(d)
    BY <1>0, <1>16 DEF Fail, TypeOK, HasRow, Row, Live
  <2> QED
    BY <1>16, <2>1, OthersKeepCover DEF Fail, scan, history
<1>17. ASSUME \/ \E f \in flight : Publish(f)
              \/ IndexAll
              \/ \E d \in Doc : DeleteDocument(d)
       PROVE  CoverInv'
  <2>1. pc' = "idle" /\ UNCHANGED <<scan, steady, missed>>
    BY <1>17 DEF Publish, IndexAll, DeleteDocument, Unlocked, scan, history
  <2> QED
    BY <2>1 DEF CoverInv, BaselineIsExact, Undisturbed, scan
<1>18. CASE Abandon \/ Restart
  BY <1>18, EndKeepsCover DEF Abandon, Restart
<1>19. CASE UNCHANGED vars
  BY <1>19, OthersKeepCover DEF vars, scan, history, HasRow, Live
<1> QED
  BY <1>1, <1>2, <1>3, <1>4, <1>5, <1>6, <1>7, <1>8, <1>9, <1>10, <1>11, <1>12, <1>13, <1>14,
     <1>15, <1>16, <1>17, <1>18, <1>19, ScansAssumption DEF Next

LEMMA CoverHolds == Spec => [](TypeInv /\ CoverInv)
<1>1. Init => WalkInv /\ CoverInv
  BY NoneAssumption DEF Init, WalkInv, Held, Visited, Swept, CoverInv, BaselineIsExact, Undisturbed
<1>2. Spec => [](TypeInv /\ WalkInv)
  BY <1>1, InitType, StepType, StepKeepsWalk, PTL DEF Spec
<1> QED
  BY <1>1, <1>2, StepKeepsCover, PTL DEF Spec

\* After a complete walk over steady files and its deletions every file found
\* has a live row, or is about to be submitted, or is an exception named above.
THEOREM ScansCover == Spec => []ScanCovers
<1>1. CoverInv => ScanCovers
  BY DEF CoverInv, ScanCovers, Settled, Found, Undisturbed, RootSteady, Walked, Covered,
         Shelters, Safe
<1> QED
  BY <1>1, CoverHolds, PTL

\* And another walk would find nothing to submit, with the exceptions named above.
THEOREM ScansAreIdempotent == Spec => []ScanIsIdempotent
<1>1. ASSUME CoverInv, Settled, NEW p \in Path, Found(p), file[p] \notin missed,
             ~\E d \in Owners(file[p]) : ~Live(d) \/ ~Present(row[d].path),
             NEW d \in Doc, HasRow(d)
      PROVE  (row[d].hash = file[p] /\ Live(d)) \/ OwnedElsewhere(d, file[p])
  <2>1. PICK o \in Owners(file[p]) : TRUE
    BY <1>1 DEF CoverInv, Settled, Found, Undisturbed, RootSteady, Walked, Covered
  <2>2. CASE row[d].hash = file[p]
    BY <1>1, <2>2 DEF Owners
  <2>3. CASE row[d].hash # file[p]
    BY <1>1, <2>1, <2>3 DEF Owners, OwnedElsewhere, Live
  <2> QED
    BY <2>2, <2>3
<1>2. CoverInv => ScanIsIdempotent
  BY <1>1 DEF ScanIsIdempotent
<1> QED
  BY <1>2, CoverHolds, PTL
=============================================================================

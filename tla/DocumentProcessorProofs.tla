---------------------- MODULE DocumentProcessorProofs ----------------------
(***************************************************************************)
(* What DocumentProcessor guarantees for every number of documents,        *)
(* workers, callers, submissions and crashes, and that it implements       *)
(* WaitService and DocumentLifecycle.                                      *)
(***************************************************************************)
EXTENDS DocumentProcessor, LeastElement, FiniteSetTheorems, TLAPS

-----------------------------------------------------------------------------
(* Typing. *)

\* Caching a result keeps the cache and the event table well typed.
LEMMA PublishType ==
  ASSUME TypeOK, NEW d \in Doc, NEW result \in Result, Publish(d, result)
  PROVE  /\ completed' \in [Doc -> Result \cup {None}]
         /\ older' \subseteq Doc \X Doc
         /\ waiting' \in [Doc -> Caller \cup {None}]
         /\ waiterCount' \in [Doc -> Nat]
         /\ signalled' \subseteq Caller
         /\ call' = call
<1>1. Cached \subseteq Doc
  BY DEF Cached
<1>2. QED
  BY <1>1 DEF TypeOK, Publish, CacheResult, Signal

\* The end of a task keeps the types, given what the step writes to the row.
LEMMA FinishType ==
  ASSUME TypeOK, NEW w \in Worker, job[w] \in Doc, NEW result \in Result,
         Finish(w, result), row' \in [Doc -> RowStatus]
  PROVE  TypeOK'
<1>1. /\ completed' \in [Doc -> Result \cup {None}]
      /\ older' \subseteq Doc \X Doc
      /\ waiting' \in [Doc -> Caller \cup {None}]
      /\ waiterCount' \in [Doc -> Nat]
      /\ signalled' \subseteq Caller
      /\ call' = call
  BY PublishType DEF Finish
<1>2. QED
  BY <1>1 DEF TypeOK, Finish, DropEntry, queues, bounds, Parked

\* A document restarted by recovery has a typed row and a typed queue.
LEMMA RecoverType ==
  ASSUME TypeOK, NEW taken, NEW rejected, NEW migrated, Recover(taken, rejected, migrated)
  PROVE  row' \in [Doc -> RowStatus] /\ queue' \in [Task -> Nat]
BY DEF TypeOK, Recover, RowStatus, Terminal, NoRow

LEMMA InitType == Init => TypeOK
BY BoundAssumption DEF Init, TypeOK, RowStatus, NoRow, Terminal, Failed, NoCall, Parked

LEMMA StepType == TypeOK /\ [Next]_vars => TypeOK'
<1> SUFFICES ASSUME TypeOK, [Next]_vars PROVE TypeOK'
  OBVIOUS
<1> USE DEF registry, queues, workers, cache, waiters, bounds
<1>1. ASSUME NEW d \in Doc, Register(d) \/ Rescan(d) PROVE TypeOK'
  BY <1>1 DEF TypeOK, Register, Rescan, RowStatus, Parked
<1>2. ASSUME NEW d \in Doc, Enqueue(d) PROVE TypeOK'
  BY <1>2 DEF TypeOK, Enqueue, ForgetOrder, RowStatus, Parked, Task
<1>3. ASSUME NEW d \in Doc, EnqueueMissing(d) PROVE TypeOK'
  BY <1>3 DEF TypeOK, EnqueueMissing, Parked
<1>4. ASSUME NEW d \in Doc, PutUnblocks(d) PROVE TypeOK'
  BY <1>4 DEF TypeOK, PutUnblocks, Parked, Task
<1>5. ASSUME NEW d \in Doc, PutRejected(d) PROVE TypeOK'
  BY <1>5 DEF TypeOK, PutRejected, Parked, RowStatus, Terminal, Failed
<1>6. ASSUME NEW d \in Doc, Cancel(d) PROVE TypeOK'
  <2>1. /\ completed' \in [Doc -> Result \cup {None}]
        /\ older' \subseteq Doc \X Doc
        /\ waiting' \in [Doc -> Caller \cup {None}]
        /\ waiterCount' \in [Doc -> Nat]
        /\ signalled' \subseteq Caller
        /\ call' = call
    BY <1>6, PublishType DEF Cancel, Result
  <2>2. QED
    BY <1>6, <2>1 DEF TypeOK, Cancel, Parked, RowStatus, Terminal
<1>7. ASSUME NEW d \in Doc, Delete(d) PROVE TypeOK'
  BY <1>7 DEF TypeOK, Delete, Parked, RowStatus, NoRow
<1>8. ASSUME NEW w \in Worker, NEW t \in Task,
             SkipCancelled(w, t) \/ RowVanished(w, t)
      PROVE  TypeOK'
  BY <1>8 DEF TypeOK, SkipCancelled, RowVanished, Take, Ready, DropEntry, Parked
<1>9. ASSUME NEW w \in Worker, NEW t \in Task, BeginAttempt(w, t) PROVE TypeOK'
  <2>1. t[1] \in Doc /\ t[1] # None
    BY NoneAssumption DEF Task
  <2>2. QED
    BY <1>9, <2>1 DEF TypeOK, BeginAttempt, Take, Ready, StoreToken, Parked, RowStatus
<1>10. ASSUME NEW w \in Worker, ExtractionDone(w) PROVE TypeOK'
  BY <1>10 DEF TypeOK, ExtractionDone, Parked
<1>11. ASSUME NEW w \in Worker, EnterLock(w) PROVE TypeOK'
  BY <1>11 DEF TypeOK, EnterLock, Parked, RowStatus, Terminal
<1>12. ASSUME NEW w \in Worker, LeaveLock(w) PROVE TypeOK'
  BY <1>12 DEF TypeOK, LeaveLock, Parked, RowStatus, Terminal
<1>13. ASSUME NEW w \in Worker, Succeed(w) PROVE TypeOK'
  <2>1. job[w] \in Doc /\ row' \in [Doc -> RowStatus]
    BY <1>13 DEF TypeOK, Succeed
  <2>2. QED
    BY <1>13, <2>1, FinishType DEF Succeed, Result
<1>14. ASSUME NEW w \in Worker, Fail(w) PROVE TypeOK'
  <2>1. job[w] \in Doc /\ row' \in [Doc -> RowStatus]
    BY <1>14 DEF TypeOK, Fail, RowStatus, Terminal, Failed
  <2>2. QED
    BY <1>14, <2>1, FinishType DEF Fail, Result
<1>15. ASSUME NEW c \in Caller, NEW d \in Doc, WaitReturnsAtOnce(c, d) PROVE TypeOK'
  <2>1. (IF d \in Cached THEN completed[d] ELSE ResultOf(row[d])) \in Result \cup {None}
    BY <1>15 DEF TypeOK, WaitReturnsAtOnce, ResultOf, Result, Terminal, Failed
  <2>2. QED
    BY <1>15, <2>1 DEF TypeOK, WaitReturnsAtOnce, Returned, NoCall, Parked
<1>16. ASSUME NEW c \in Caller, NEW d \in Doc, WaitParks(c, d) PROVE TypeOK'
  <2>1. EventFor(c, d) \in Caller
    BY DEF TypeOK, EventFor
  <2>2. QED
    BY <1>16, <2>1 DEF TypeOK, WaitParks, Parked
<1>17. ASSUME NEW c \in Caller, WaitWakes(c) \/ WaitTimesOut(c) PROVE TypeOK'
  <2>1. Leave(c) /\ call[c].doc \in Doc
    BY <1>17 DEF TypeOK, WaitWakes, WaitTimesOut, Parked
  <2>2. waiterCount' \in [Doc -> Nat] /\ waiting' \in [Doc -> Caller \cup {None}]
    BY <2>1 DEF TypeOK, Leave, LastToLeave
  <2>3. call'[c].pc = "returned"
    BY <2>1 DEF TypeOK, Leave, Returned, NoCall
  <2>4. completed[call[c].doc] \in Result \cup {None}
    BY <2>1 DEF TypeOK
  <2>5. QED
    BY <2>1, <2>2, <2>3, <2>4 DEF TypeOK, Leave, Returned, NoCall, Parked
<1>18. CASE Start
  <2>1. row' \in [Doc -> RowStatus] /\ queue' \in [Task -> Nat]
    BY <1>18, RecoverType DEF Start
  <2>2. QED
    BY <1>18, <2>1 DEF TypeOK, Start, Parked
<1>19. CASE StartupLock
  BY <1>19 DEF TypeOK, StartupLock, Parked
<1>20. ASSUME NEW d \in Doc, StartupIndex(d) PROVE TypeOK'
  BY <1>20 DEF TypeOK, StartupIndex, Parked, RowStatus, Terminal
<1>21. CASE StartupDone \/ Stop
  BY <1>21 DEF TypeOK, StartupDone, Stop, Parked
<1>22. CASE Crash
  BY <1>22 DEF TypeOK, Crash, NoCall, Parked
<1>23. CASE UNCHANGED vars
  BY <1>23 DEF TypeOK, vars, Parked
<1>24. QED
  BY <1>1, <1>2, <1>3, <1>4, <1>5, <1>6, <1>7, <1>8, <1>9, <1>10, <1>11, <1>12,
     <1>13, <1>14, <1>15, <1>16, <1>17, <1>18, <1>19, <1>20, <1>21, <1>22, <1>23
     DEF Next

\* Type correctness of the processor's memory and of the registry.
THEOREM TypeCorrect == Spec => []TypeOK
BY InitType, StepType, PTL DEF Spec

-----------------------------------------------------------------------------
(* Workers and rows. *)

\* What the workers' properties need of every other step: it leaves the
\* workers alone, keeps every row, and makes no row PROCESSING.
WorkersKept ==
  /\ UNCHANGED workers
  /\ \A d \in Doc : HasRow(d) => HasRow(d)'
  /\ \A d \in Doc : row'[d] = "processing" => row[d] = "processing" /\ attempt'[d] = attempt[d]
  /\ phase' # "off" => phase # "off"

\* The steps of clients, callers and the startup index_all.
ClientStep ==
  \/ \E d \in Doc : \/ Register(d) \/ Rescan(d) \/ Enqueue(d) \/ EnqueueMissing(d)
                    \/ PutUnblocks(d) \/ PutRejected(d) \/ Cancel(d) \/ StartupIndex(d)
  \/ \E w \in Worker, t \in Task : SkipCancelled(w, t)
  \/ \E c \in Caller, d \in Doc : WaitReturnsAtOnce(c, d) \/ WaitParks(c, d)
  \/ \E c \in Caller : WaitWakes(c) \/ WaitTimesOut(c)
  \/ StartupLock \/ StartupDone \/ Stop \/ UNCHANGED vars

LEMMA ClientsKeepWorkers == TypeOK /\ ClientStep => WorkersKept
<1> SUFFICES ASSUME TypeOK, ClientStep PROVE WorkersKept
  OBVIOUS
<1> USE DEF registry, queues, workers, cache, waiters, bounds, WorkersKept, HasRow, NoRow
<1>1. ASSUME NEW d \in Doc, \/ Register(d) \/ Rescan(d) \/ Enqueue(d) \/ EnqueueMissing(d)
                            \/ PutUnblocks(d) \/ PutRejected(d)
      PROVE  WorkersKept
  BY <1>1 DEF TypeOK, Register, Rescan, Enqueue, EnqueueMissing, PutUnblocks, PutRejected
<1>2. ASSUME NEW d \in Doc, Cancel(d) \/ StartupIndex(d) PROVE WorkersKept
  BY <1>2 DEF TypeOK, Cancel, StartupIndex
<1>3. ASSUME NEW w \in Worker, NEW t \in Task, SkipCancelled(w, t) PROVE WorkersKept
  BY <1>3 DEF SkipCancelled
<1>4. ASSUME NEW c \in Caller, NEW d \in Doc, WaitReturnsAtOnce(c, d) \/ WaitParks(c, d)
      PROVE  WorkersKept
  BY <1>4 DEF WaitReturnsAtOnce, WaitParks
<1>5. ASSUME NEW c \in Caller, WaitWakes(c) \/ WaitTimesOut(c) PROVE WorkersKept
  BY <1>5 DEF WaitWakes, WaitTimesOut, Leave
<1>6. CASE StartupLock \/ StartupDone \/ Stop
  BY <1>6 DEF StartupLock, StartupDone, Stop
<1>7. CASE UNCHANGED vars
  BY <1>7 DEF vars
<1>8. QED
  BY <1>1, <1>2, <1>3, <1>4, <1>5, <1>6, <1>7 DEF ClientStep

\* The remaining steps are the workers', deletion and the life of the process.
LEMMA StepCases ==
  ASSUME [Next]_vars
  PROVE  \/ ClientStep
         \/ \E d \in Doc : Delete(d)
         \/ \E w \in Worker, t \in Task : BeginAttempt(w, t) \/ RowVanished(w, t)
         \/ \E w \in Worker : \/ ExtractionDone(w) \/ EnterLock(w) \/ LeaveLock(w)
                              \/ Succeed(w) \/ Fail(w)
         \/ Start \/ Crash
BY Zenon DEF Next, ClientStep

\* When the queue holds every document, a restart leaves no row PROCESSING.
LEMMA RecoverTakesAll ==
  ASSUME TypeOK, MaxQueue >= Cardinality(Doc),
         NEW taken, NEW rejected, NEW migrated, Recover(taken, rejected, migrated)
  PROVE  \A d \in Doc : row'[d] # "processing" /\ (HasRow(d) => HasRow(d)')
<1>1. Unread \subseteq Doc
  BY DEF Unread, Orphan
<1>2. Cardinality(Unread) <= Cardinality(Doc) /\ Cardinality(Unread) \in Nat
  BY <1>1, DocAssumption, FS_Subset, FS_CardinalityType
<1>3. Cardinality(Doc) \in Nat
  BY DocAssumption, FS_CardinalityType
<1>4. Cardinality(Unread) <= MaxQueue
  BY <1>2, <1>3, LimitAssumption
<1>5. QED
  BY <1>4 DEF Recover, Orphan, HasRow, NoRow

\* In a restart every row stays, whatever fits the queue.
LEMMA RecoverKeepsRows ==
  ASSUME NEW taken, NEW rejected, NEW migrated, Recover(taken, rejected, migrated)
  PROVE  \A d \in Doc : HasRow(d) => HasRow(d)'
BY DEF Recover, HasRow, NoRow

LEMMA ProcessingOwnedStep ==
  ASSUME MaxQueue >= Cardinality(Doc), TypeOK, ProcessingOwned, [Next]_vars
  PROVE  ProcessingOwned'
<1> USE DEF registry, queues, workers, cache, waiters, bounds
<1>1. CASE ClientStep
  BY <1>1, ClientsKeepWorkers DEF WorkersKept, ProcessingOwned
<1>2. ASSUME NEW d \in Doc, Delete(d) PROVE ProcessingOwned'
  BY <1>2 DEF TypeOK, Delete, ProcessingOwned
<1>3. ASSUME NEW w \in Worker, NEW t \in Task, BeginAttempt(w, t) PROVE ProcessingOwned'
  <2>1. t[1] \in Doc /\ t[1] # None
    BY NoneAssumption DEF Task
  <2>2. /\ pc[w] = "idle" /\ job[w] = None
        /\ phase # "off"
    BY <1>3 DEF TypeOK, BeginAttempt, Take
  <2>3. attempt'[t[1]] = w /\ job'[w] = t[1] /\ pc'[w] = "extracting"
    BY <1>3, <2>1 DEF TypeOK, BeginAttempt, StoreToken
  <2>4. ASSUME NEW d \in Doc, d # t[1], row'[d] = "processing"
        PROVE  \E v \in Worker : /\ attempt'[d] = v /\ job'[v] = d
                                 /\ pc'[v] \in {"extracting", "locking"}
    <3>1. row[d] = "processing" /\ attempt'[d] = attempt[d]
      BY <1>3, <2>4 DEF TypeOK, BeginAttempt, StoreToken
    <3>2. PICK v \in Worker : /\ attempt[d] = v /\ job[v] = d
                              /\ pc[v] \in {"extracting", "locking"}
      BY <2>2, <3>1 DEF ProcessingOwned
    <3>3. v # w
      BY <2>2, <3>2
    <3>4. QED
      BY <1>3, <3>1, <3>2, <3>3 DEF TypeOK, BeginAttempt
  <2>5. QED
    BY <2>3, <2>4 DEF ProcessingOwned
<1>4. ASSUME NEW w \in Worker, NEW t \in Task, RowVanished(w, t) PROVE ProcessingOwned'
  BY <1>4 DEF RowVanished, ProcessingOwned
<1>5. ASSUME NEW w \in Worker, ExtractionDone(w) \/ LeaveLock(w) PROVE ProcessingOwned'
  BY <1>5 DEF TypeOK, ExtractionDone, LeaveLock, ProcessingOwned
<1>6. ASSUME NEW w \in Worker, EnterLock(w) PROVE ProcessingOwned'
  <2>1. job[w] \in Doc /\ row'[job[w]] # "processing"
    BY <1>6 DEF TypeOK, EnterLock, HasRow, NoRow
  <2>2. QED
    BY <1>6, <2>1 DEF TypeOK, EnterLock, ProcessingOwned
<1>7. ASSUME NEW w \in Worker, Succeed(w) PROVE ProcessingOwned'
  BY <1>7 DEF TypeOK, Succeed, Finish, ProcessingOwned
<1>8. ASSUME NEW w \in Worker, Fail(w) PROVE ProcessingOwned'
  <2>1. job[w] \in Doc /\ (OwnsRow(w) => row'[job[w]] # "processing")
    BY <1>8 DEF TypeOK, Fail
  <2>2. \A d \in Doc : d # job[w] => row'[d] = row[d]
    BY <1>8 DEF TypeOK, Fail
  <2>3. row'[job[w]] = "processing" => row[job[w]] = "processing" /\ attempt[job[w]] # w
    BY <1>8, <2>1 DEF TypeOK, Fail, OwnsRow
  <2>4. QED
    BY <1>8, <2>1, <2>2, <2>3 DEF TypeOK, Fail, Finish, ProcessingOwned
<1>9. CASE Start
  BY <1>9, RecoverTakesAll DEF Start, ProcessingOwned
<1>10. CASE Crash
  BY <1>10 DEF Crash, ProcessingOwned
<1>11. QED
  BY <1>1, <1>2, <1>3, <1>4, <1>5, <1>6, <1>7, <1>8, <1>9, <1>10, StepCases

\* When the queue can hold every document, a row that says PROCESSING always
\* has the worker whose token it holds: no failure, deletion, duplicate task
\* or restart strands it.
THEOREM ProcessingIsOwned ==
  ASSUME MaxQueue >= Cardinality(Doc)
  PROVE  Spec => []ProcessingOwned
<1>1. Init => ProcessingOwned
  BY DEF Init, ProcessingOwned
<1>2. TypeOK /\ ProcessingOwned /\ [Next]_vars => ProcessingOwned'
  BY ProcessingOwnedStep
<1>3. QED
  BY <1>1, <1>2, TypeCorrect, PTL DEF Spec

LEMMA InProgressBackedStep ==
  ASSUME TypeOK, InProgressBacked, [Next]_vars
  PROVE  InProgressBacked'
<1> USE DEF registry, queues, workers, cache, waiters, bounds
<1>1. CASE ClientStep
  BY <1>1, ClientsKeepWorkers DEF WorkersKept, InProgressBacked
<1>2. ASSUME NEW d \in Doc, Delete(d) PROVE InProgressBacked'
  BY <1>2 DEF Delete, InProgressBacked
<1>3. ASSUME NEW w \in Worker, NEW t \in Task, BeginAttempt(w, t) PROVE InProgressBacked'
  <2>1. t[1] \in Doc
    BY DEF Task
  <2>2. job[w] = None /\ \A d \in inProgress : d # None
    BY <1>3, NoneAssumption DEF TypeOK, BeginAttempt, Take
  <2>3. job' = [job EXCEPT ![w] = t[1]] /\ inProgress' = inProgress \cup {t[1]}
    BY <1>3 DEF BeginAttempt
  <2>4. ASSUME NEW d \in inProgress' PROVE \E v \in Worker : job'[v] = d
    <3>1. CASE d = t[1]
      BY <2>3, <3>1 DEF TypeOK
    <3>2. CASE d # t[1]
      <4>1. PICK v \in Worker : job[v] = d
        BY <2>3, <2>4, <3>2 DEF InProgressBacked
      <4>2. v # w
        BY <2>2, <2>3, <2>4, <3>2, <4>1
      <4>3. QED
        BY <2>3, <4>1, <4>2 DEF TypeOK
    <3>3. QED
      BY <3>1, <3>2
  <2>5. QED
    BY <2>4 DEF InProgressBacked
<1>4. ASSUME NEW w \in Worker, NEW t \in Task, RowVanished(w, t) PROVE InProgressBacked'
  BY <1>4 DEF RowVanished, DropEntry, InProgressBacked
<1>5. ASSUME NEW w \in Worker, ExtractionDone(w) \/ EnterLock(w) \/ LeaveLock(w)
      PROVE  InProgressBacked'
  BY <1>5 DEF ExtractionDone, EnterLock, LeaveLock, InProgressBacked
<1>6. ASSUME NEW w \in Worker, Succeed(w) \/ Fail(w) PROVE InProgressBacked'
  <2>1. job' = [job EXCEPT ![w] = None] /\ inProgress' = inProgress \ {job[w]}
    BY <1>6 DEF Succeed, Fail, Finish, DropEntry
  <2>2. QED
    BY <2>1 DEF TypeOK, InProgressBacked
<1>7. CASE Start \/ Crash
  BY <1>7 DEF Start, Crash, InProgressBacked
<1>8. QED
  BY <1>1, <1>2, <1>3, <1>4, <1>5, <1>6, <1>7, StepCases

\* Whatever tasks overlap on one document, no in_progress entry is left behind
\* by the workers, so neither cancel nor wait_for is misled for good.
THEOREM InProgressIsBacked == Spec => []InProgressBacked
<1>1. Init => InProgressBacked
  BY DEF Init, InProgressBacked
<1>2. TypeOK /\ InProgressBacked /\ [Next]_vars => InProgressBacked'
  BY InProgressBackedStep
<1>3. QED
  BY <1>1, <1>2, TypeCorrect, PTL DEF Spec

LEMMA IndexingHasRowStep ==
  ASSUME TypeOK, IndexingHasRow, [Next]_vars
  PROVE  IndexingHasRow'
<1> USE DEF registry, queues, workers, cache, waiters, bounds
<1>0. \A w \in Worker : pc[w] # "idle" => job[w] \in Doc
  BY DEF TypeOK
<1>1. CASE ClientStep
  BY <1>0, <1>1, ClientsKeepWorkers DEF WorkersKept, IndexingHasRow
<1>2. ASSUME NEW d \in Doc, Delete(d) PROVE IndexingHasRow'
  BY <1>2 DEF Delete, LockFree, IndexingHasRow
<1>3. ASSUME NEW w \in Worker, NEW t \in Task, BeginAttempt(w, t) PROVE IndexingHasRow'
  BY <1>0, <1>3 DEF TypeOK, BeginAttempt, IndexingHasRow, HasRow, NoRow
<1>4. ASSUME NEW w \in Worker, NEW t \in Task, RowVanished(w, t) PROVE IndexingHasRow'
  BY <1>4 DEF RowVanished, IndexingHasRow, HasRow
<1>5. ASSUME NEW w \in Worker, ExtractionDone(w) PROVE IndexingHasRow'
  BY <1>5 DEF TypeOK, ExtractionDone, IndexingHasRow, HasRow
<1>6. ASSUME NEW w \in Worker, EnterLock(w) PROVE IndexingHasRow'
  BY <1>0, <1>6 DEF TypeOK, EnterLock, IndexingHasRow, HasRow, NoRow
<1>7. ASSUME NEW w \in Worker, LeaveLock(w) PROVE IndexingHasRow'
  BY <1>0, <1>7 DEF TypeOK, LeaveLock, IndexingHasRow, HasRow, NoRow
<1>8. ASSUME NEW w \in Worker, Succeed(w) PROVE IndexingHasRow'
  BY <1>8 DEF TypeOK, Succeed, Finish, IndexingHasRow, HasRow
<1>9. ASSUME NEW w \in Worker, Fail(w) PROVE IndexingHasRow'
  <2>1. \A d \in Doc : HasRow(d) => HasRow(d)'
    BY <1>0, <1>9 DEF TypeOK, Fail, HasRow, NoRow
  <2>2. \A v \in Worker : pc'[v] = "indexing" => pc[v] = "indexing" /\ job'[v] = job[v]
    BY <1>9 DEF TypeOK, Fail, Finish
  <2>3. QED
    BY <1>0, <2>1, <2>2 DEF IndexingHasRow, HasRow
<1>10. CASE Start
  BY <1>0, <1>10, RecoverKeepsRows DEF Start, IndexingHasRow
<1>11. CASE Crash
  BY <1>11 DEF Crash, IndexingHasRow
<1>12. QED
  BY <1>1, <1>2, <1>3, <1>4, <1>5, <1>6, <1>7, <1>8, <1>9, <1>10, <1>11, StepCases

\* The collection lock does its work: a document is never deleted while a
\* worker indexes it, so the index gets no points of a deleted document.
THEOREM IndexedDocumentsExist == Spec => []IndexingHasRow
<1>1. Init => IndexingHasRow
  BY DEF Init, IndexingHasRow
<1>2. TypeOK /\ IndexingHasRow /\ [Next]_vars => IndexingHasRow'
  BY IndexingHasRowStep
<1>3. QED
  BY <1>1, <1>2, TypeCorrect, PTL DEF Spec

LEMMA FailsOwnAttemptStep ==
  ASSUME TypeOK, [Next]_vars
  PROVE  FailsOwnAttempt
<1> USE DEF registry, queues, workers, cache, waiters, bounds, Failed, FailsOwnAttempt
<1>1. ASSUME NEW d \in Doc, \/ Register(d) \/ Rescan(d) \/ Enqueue(d) \/ EnqueueMissing(d)
                            \/ PutUnblocks(d) \/ Cancel(d) \/ StartupIndex(d)
      PROVE  FailsOwnAttempt
  BY <1>1 DEF TypeOK, Register, Rescan, Enqueue, EnqueueMissing, PutUnblocks, Cancel, StartupIndex
<1>2. ASSUME NEW d \in Doc, PutRejected(d) PROVE FailsOwnAttempt
  BY <1>2 DEF TypeOK, PutRejected
<1>3. ASSUME NEW d \in Doc, Delete(d) PROVE FailsOwnAttempt
  BY <1>3 DEF TypeOK, Delete
<1>4. ASSUME NEW w \in Worker, NEW t \in Task, SkipCancelled(w, t) \/ RowVanished(w, t)
      PROVE  FailsOwnAttempt
  BY <1>4 DEF SkipCancelled, RowVanished
<1>5. ASSUME NEW w \in Worker, NEW t \in Task, BeginAttempt(w, t) PROVE FailsOwnAttempt
  BY <1>5 DEF TypeOK, BeginAttempt
<1>6. ASSUME NEW w \in Worker, ExtractionDone(w) \/ EnterLock(w) \/ LeaveLock(w) \/ Succeed(w)
      PROVE  FailsOwnAttempt
  BY <1>6 DEF TypeOK, ExtractionDone, EnterLock, LeaveLock, Succeed
<1>7. ASSUME NEW w \in Worker, Fail(w) PROVE FailsOwnAttempt
  <2>1. job'[w] = None
    BY <1>7 DEF TypeOK, Fail, Finish
  <2>2. \A d \in Doc : row'[d] # row[d] => d = job[w] /\ OwnsRow(w)
    BY <1>7 DEF TypeOK, Fail
  <2>3. QED
    BY <2>1, <2>2 DEF OwnsRow
<1>8. ASSUME NEW c \in Caller, NEW d \in Doc, WaitReturnsAtOnce(c, d) \/ WaitParks(c, d)
      PROVE  FailsOwnAttempt
  BY <1>8 DEF WaitReturnsAtOnce, WaitParks
<1>9. ASSUME NEW c \in Caller, WaitWakes(c) \/ WaitTimesOut(c) PROVE FailsOwnAttempt
  BY <1>9 DEF WaitWakes, WaitTimesOut, Leave
<1>10. CASE Start
  BY <1>10 DEF Start, Recover
<1>11. CASE StartupLock \/ StartupDone \/ Stop \/ Crash \/ UNCHANGED vars
  BY <1>11 DEF StartupLock, StartupDone, Stop, Crash, vars
<1>12. QED
  BY <1>1, <1>2, <1>3, <1>4, <1>5, <1>6, <1>7, <1>8, <1>9, <1>10, <1>11 DEF Next

\* The failure of a superseded attempt never overwrites the outcome of a later
\* one: only the attempt named in the registry, or a rejected put, fails a row.
THEOREM StaleAttemptsAreHarmless == Spec => StaleAttemptsCannotFail
<1>1. TypeOK /\ [Next]_vars => [FailsOwnAttempt]_vars
  BY FailsOwnAttemptStep
<1>2. QED
  BY <1>1, TypeCorrect, PTL DEF Spec, StaleAttemptsCannotFail

-----------------------------------------------------------------------------
(* Callers of wait_for, while the result cache holds every document. *)

\* What the waiters' properties need of the steps that touch no wait event: at
\* most results are dropped from the cache.
WaitersKept ==
  /\ UNCHANGED waiters
  /\ \A d \in Doc : completed'[d] \in {completed[d], None}

LEMMA PublishKeepsEvents ==
  ASSUME TypeOK, MaxCompleted >= Cardinality(Doc),
         NEW d \in Doc, NEW result \in Result, Publish(d, result)
  PROVE  /\ waiting' = waiting /\ waiterCount' = waiterCount /\ call' = call
         /\ signalled' = signalled \cup ({waiting[d]} \ {None})
         /\ \A e \in Doc : e # d => completed'[e] = completed[e]
<1> DEFINE full == d \notin Cached /\ Cardinality(Cached) >= MaxCompleted
<1>1. ~full
  <2> SUFFICES ASSUME d \notin Cached PROVE ~(Cardinality(Cached) >= MaxCompleted)
    OBVIOUS
  <2>1. Cached \subseteq Doc \ {d}
    BY DEF Cached
  <2>2. IsFiniteSet(Doc \ {d}) /\ Cardinality(Doc \ {d}) = Cardinality(Doc) - 1
    BY DocAssumption, FS_RemoveElement
  <2>3. Cardinality(Cached) <= Cardinality(Doc \ {d}) /\ Cardinality(Cached) \in Nat
    BY <2>1, <2>2, FS_Subset, FS_CardinalityType
  <2>4. Cardinality(Doc) \in Nat
    BY DocAssumption, FS_CardinalityType
  <2>5. QED
    BY <2>2, <2>3, <2>4, LimitAssumption
<1>2. waiting' = [e \in Doc |-> waiting[e]] /\ waiterCount' = [e \in Doc |-> waiterCount[e]]
  BY <1>1 DEF Publish, CacheResult
<1>3. \A e \in Doc : e # d => completed'[e] = completed[e]
  BY <1>1 DEF Publish, CacheResult
<1>4. QED
  BY <1>2, <1>3 DEF TypeOK, Publish, Signal

WaitInv == CallersAttached /\ NoMissedSignal

LEMMA KeptWaitInv == ASSUME TypeOK, WaitInv, WaitersKept PROVE WaitInv'
<1>1. CallersAttached'
  BY DEF WaitersKept, waiters, WaitInv, CallersAttached, ParkedOn, Parked
<1>2. \A c \in Caller : Parked(c)' => Parked(c) /\ call'[c] = call[c] /\ call[c].doc \in Doc
  BY DEF WaitersKept, waiters, TypeOK, Parked
<1>3. NoMissedSignal'
  BY <1>2 DEF WaitersKept, waiters, WaitInv, NoMissedSignal, Cached
<1>4. QED
  BY <1>1, <1>3 DEF WaitInv

LEMMA PublishWaitInv ==
  ASSUME TypeOK, WaitInv, MaxCompleted >= Cardinality(Doc),
         NEW d \in Doc, NEW result \in Result, Publish(d, result)
  PROVE  WaitInv'
<1>1. /\ waiting' = waiting /\ waiterCount' = waiterCount /\ call' = call
      /\ signalled' = signalled \cup ({waiting[d]} \ {None})
      /\ \A e \in Doc : e # d => completed'[e] = completed[e]
  BY PublishKeepsEvents
<1>2. CallersAttached'
  BY <1>1 DEF WaitInv, CallersAttached, ParkedOn, Parked
<1>3. ASSUME NEW c \in Caller, Parked(c)', call'[c].doc \in Cached'
      PROVE  call'[c].event \in signalled'
  <2>1. Parked(c) /\ call'[c] = call[c] /\ call[c].doc \in Doc /\ call[c].event \in Caller
    BY <1>1, <1>3 DEF TypeOK, Parked
  <2>2. CASE call[c].doc = d
    BY <1>1, <2>1, <2>2, NoneAssumption DEF WaitInv, CallersAttached
  <2>3. CASE call[c].doc # d
    BY <1>1, <1>3, <2>1, <2>3 DEF WaitInv, NoMissedSignal, Cached
  <2>4. QED
    BY <2>2, <2>3
<1>4. QED
  BY <1>2, <1>3 DEF WaitInv, NoMissedSignal

LEMMA WaitParksWaitInv ==
  ASSUME TypeOK, WaitInv, NEW c \in Caller, NEW d \in Doc, WaitParks(c, d)
  PROVE  WaitInv'
<1> USE DEF cache, WaitInv, CallersAttached, NoMissedSignal
<1> DEFINE event == EventFor(c, d)
<1>1. /\ ~Parked(c)
      /\ d \notin Cached
      /\ waiting' = [waiting EXCEPT ![d] = event]
      /\ waiterCount' = [waiterCount EXCEPT ![d] = @ + 1]
      /\ call' = [call EXCEPT ![c] =
                    [pc |-> "parked", doc |-> d, event |-> event, result |-> None]]
      /\ UNCHANGED <<completed, signalled>>
  BY DEF WaitParks, Parked
<1>2. \A b \in Caller : b # c => call'[b] = call[b] /\ (Parked(b)' <=> Parked(b))
  BY <1>1 DEF TypeOK, Parked
<1>3. call'[c].doc = d /\ call'[c].event = event /\ Parked(c)'
  BY <1>1 DEF TypeOK, Parked
<1>4. \A b \in Caller : Parked(b)' => waiting'[call'[b].doc] = call'[b].event
  <2>1. CallersAttached /\ \A b \in Caller : Parked(b) => call[b].doc \in Doc /\ call[b].event \in Caller
    BY DEF TypeOK
  <2>2. \A b \in Caller : Parked(b) /\ call[b].doc = d => event = call[b].event
    BY <2>1, NoneAssumption DEF EventFor
  <2>3. QED
    BY <1>1, <1>2, <1>3, <2>1, <2>2 DEF TypeOK
<1>5. \A e \in Doc : waiterCount'[e] = Cardinality(ParkedOn(e)')
  <2>1. \A e \in Doc : e # d => ParkedOn(e)' = ParkedOn(e)
    BY <1>1, <1>2, <1>3 DEF ParkedOn
  <2>2. ParkedOn(d)' = ParkedOn(d) \cup {c} /\ c \notin ParkedOn(d)
    BY <1>1, <1>2, <1>3 DEF ParkedOn
  <2>3. IsFiniteSet(ParkedOn(d))
    BY CallerAssumption, FS_Subset DEF ParkedOn
  <2>4. Cardinality(ParkedOn(d)') = Cardinality(ParkedOn(d)) + 1
    BY <2>2, <2>3, FS_AddElement
  <2>5. QED
    BY <1>1, <2>1, <2>4 DEF TypeOK
<1>6. NoMissedSignal'
  BY <1>1, <1>2, <1>3 DEF Cached
<1>7. QED
  BY <1>4, <1>5, <1>6

LEMMA LeaveWaitInv ==
  ASSUME TypeOK, WaitInv, NEW c \in Caller, Parked(c), Leave(c)
  PROVE  WaitInv'
<1> USE DEF cache, WaitInv, CallersAttached, NoMissedSignal
<1>0. PICK d \in Doc : d = call[c].doc
  BY DEF TypeOK
<1> DEFINE last == LastToLeave(d)
<1>1. /\ call[c].doc = d
      /\ waiting' = [waiting EXCEPT ![d] = IF last THEN None ELSE @]
      /\ waiterCount' = [waiterCount EXCEPT ![d] = IF last THEN 0 ELSE @ - 1]
      /\ call' = [call EXCEPT ![c] = Returned(completed[d])]
      /\ UNCHANGED <<completed, signalled>>
  BY <1>0 DEF Leave
<1>2. \A b \in Caller : b # c => call'[b] = call[b] /\ (Parked(b)' <=> Parked(b))
  BY <1>1 DEF TypeOK, Parked
<1>3. ~Parked(c)'
  BY <1>1 DEF TypeOK, Parked, Returned, NoCall
<1>4. /\ \A e \in Doc : e # d => ParkedOn(e)' = ParkedOn(e)
      /\ ParkedOn(d)' = ParkedOn(d) \ {c} /\ c \in ParkedOn(d)
  BY <1>1, <1>2, <1>3 DEF ParkedOn
<1>5. IsFiniteSet(ParkedOn(d))
  BY CallerAssumption, FS_Subset DEF ParkedOn
<1>6. /\ waiterCount[d] = Cardinality(ParkedOn(d)) /\ waiterCount[d] \in Nat
      /\ Cardinality(ParkedOn(d)') = waiterCount[d] - 1
      /\ Cardinality(ParkedOn(d)') \in Nat
  <2>1. IsFiniteSet(ParkedOn(d)') /\ Cardinality(ParkedOn(d)') = Cardinality(ParkedOn(d)) - 1
    BY <1>4, <1>5, FS_RemoveElement
  <2>2. QED
    BY <1>1, <2>1, FS_CardinalityType DEF TypeOK
<1>7. last => waiterCount[d] = 1 /\ ParkedOn(d)' = {}
  <2>1. ASSUME last PROVE waiterCount[d] = 1
    BY <1>6, <2>1 DEF LastToLeave
  <2>2. IsFiniteSet(ParkedOn(d)')
    BY <1>4, <1>5, FS_RemoveElement
  <2>3. ASSUME last PROVE ParkedOn(d)' = {}
    BY <1>6, <2>1, <2>2, <2>3, FS_EmptySet
  <2>4. QED
    BY <2>1, <2>3
<1>8. \A e \in Doc : waiterCount'[e] = Cardinality(ParkedOn(e)')
  <2>1. waiterCount'[d] = Cardinality(ParkedOn(d)')
    BY <1>1, <1>6, <1>7 DEF TypeOK
  <2>2. QED
    BY <1>1, <1>4, <2>1 DEF TypeOK
<1>9. \A b \in Caller : Parked(b)' => waiting'[call'[b].doc] = call'[b].event
  <2>1. SUFFICES ASSUME NEW b \in Caller, Parked(b)'
                 PROVE  waiting'[call'[b].doc] = call'[b].event
    OBVIOUS
  <2>2. Parked(b) /\ call'[b] = call[b] /\ call[b].doc \in Doc
    BY <1>2, <1>3, <2>1 DEF TypeOK
  <2>3. call[b].doc = d => b \in ParkedOn(d)'
    BY <2>1, <2>2 DEF ParkedOn
  <2>4. call[b].doc = d => ~last
    BY <1>7, <2>3
  <2>5. QED
    BY <1>1, <2>2, <2>4 DEF TypeOK
<1>10. NoMissedSignal'
  BY <1>1, <1>2, <1>3 DEF Cached
<1>11. QED
  BY <1>8, <1>9, <1>10

LEMMA WaitInvStep ==
  ASSUME MaxCompleted >= Cardinality(Doc), TypeOK, WaitInv, [Next]_vars
  PROVE  WaitInv'
<1> USE DEF registry, queues, workers, cache, bounds
<1>1. ASSUME NEW d \in Doc, \/ Register(d) \/ Rescan(d) \/ EnqueueMissing(d) \/ Delete(d)
                            \/ PutUnblocks(d) \/ PutRejected(d) \/ StartupIndex(d)
      PROVE  WaitersKept
  BY <1>1 DEF WaitersKept, Register, Rescan, EnqueueMissing, Delete, PutUnblocks, PutRejected,
              StartupIndex
<1>2. ASSUME NEW d \in Doc, Enqueue(d) PROVE WaitersKept
  BY <1>2 DEF TypeOK, WaitersKept, Enqueue
<1>3. ASSUME NEW d \in Doc, Cancel(d) PROVE WaitInv'
  BY <1>3, PublishWaitInv DEF Cancel, Result
<1>4. ASSUME NEW w \in Worker, NEW t \in Task,
             SkipCancelled(w, t) \/ BeginAttempt(w, t) \/ RowVanished(w, t)
      PROVE  WaitersKept
  BY <1>4 DEF WaitersKept, SkipCancelled, BeginAttempt, RowVanished
<1>5. ASSUME NEW w \in Worker, ExtractionDone(w) \/ EnterLock(w) \/ LeaveLock(w)
      PROVE  WaitersKept
  BY <1>5 DEF WaitersKept, ExtractionDone, EnterLock, LeaveLock
<1>6. ASSUME NEW w \in Worker, Succeed(w) \/ Fail(w) PROVE WaitInv'
  <2>1. job[w] \in Doc
    BY <1>6 DEF TypeOK, Succeed, Fail
  <2>2. Publish(job[w], "completed") \/ Publish(job[w], "failed")
    BY <1>6 DEF Succeed, Fail, Finish
  <2>3. QED
    BY <2>1, <2>2, PublishWaitInv DEF Result
<1>7. ASSUME NEW c \in Caller, NEW d \in Doc, WaitReturnsAtOnce(c, d) PROVE WaitInv'
  <2>1. ~Parked(c) /\ UNCHANGED <<waiting, waiterCount, signalled, completed>>
    BY <1>7 DEF WaitReturnsAtOnce, Parked
  <2>2. \A b \in Caller : b # c => call'[b] = call[b] /\ (Parked(b)' <=> Parked(b))
    BY <1>7 DEF TypeOK, WaitReturnsAtOnce, Parked
  <2>3. ~Parked(c)'
    BY <1>7 DEF TypeOK, WaitReturnsAtOnce, Parked, Returned, NoCall
  <2>4. \A e \in Doc : ParkedOn(e)' = ParkedOn(e)
    BY <2>1, <2>2, <2>3 DEF ParkedOn
  <2>5. QED
    BY <2>1, <2>2, <2>3, <2>4 DEF WaitInv, CallersAttached, NoMissedSignal, Cached
<1>8. ASSUME NEW c \in Caller, NEW d \in Doc, WaitParks(c, d) PROVE WaitInv'
  BY <1>8, WaitParksWaitInv
<1>9. ASSUME NEW c \in Caller, WaitWakes(c) \/ WaitTimesOut(c) PROVE WaitInv'
  BY <1>9, LeaveWaitInv DEF WaitWakes, WaitTimesOut, Parked
<1>10. CASE Start \/ StartupLock \/ StartupDone \/ Stop \/ UNCHANGED vars
  <2>1. WaitersKept
    BY <1>10 DEF WaitersKept, Start, StartupLock, StartupDone, Stop, vars
  <2>2. QED
    BY <2>1, KeptWaitInv
<1>11. CASE Crash
  <2>1. \A e \in Doc : ParkedOn(e)' = {}
    BY <1>11 DEF Crash, ParkedOn, Parked, NoCall
  <2>2. QED
    BY <1>11, <2>1, FS_EmptySet
       DEF Crash, WaitInv, CallersAttached, NoMissedSignal, Parked, NoCall
<1>12. QED
  BY <1>1, <1>2, <1>3, <1>4, <1>5, <1>6, <1>7, <1>8, <1>9, <1>10, <1>11, KeptWaitInv DEF Next

LEMMA WaitInvInit == Init => WaitInv
<1> SUFFICES ASSUME Init PROVE WaitInv
  OBVIOUS
<1>1. \A d \in Doc : ParkedOn(d) = {}
  BY DEF Init, ParkedOn, Parked, NoCall
<1>2. QED
  BY <1>1, FS_EmptySet DEF Init, WaitInv, CallersAttached, NoMissedSignal, Parked, NoCall

\* While the result cache holds every document, every parked caller holds the
\* event a worker will set, the reference count is the number of parked
\* callers, and a cached result leaves no caller asleep.
THEOREM WaitersAreServed ==
  ASSUME MaxCompleted >= Cardinality(Doc)
  PROVE  Spec => [](CallersAttached /\ NoMissedSignal)
<1>1. TypeOK /\ WaitInv /\ [Next]_vars => WaitInv'
  BY WaitInvStep
<1>2. Spec => []WaitInv
  BY <1>1, WaitInvInit, TypeCorrect, PTL DEF Spec
<1>3. QED
  BY <1>2, PTL DEF WaitInv

-----------------------------------------------------------------------------
(* Eviction, whatever the size of the result cache.  The cached documents   *)
(* are in a strict total order, so that there is an oldest, and the event   *)
(* of a cached document has been set.                                       *)

OrderInv ==
  /\ older \subseteq Cached \X Cached
  /\ \A d \in Cached : <<d, d>> \notin older
  /\ \A d, e \in Cached : d # e => <<d, e>> \in older \/ <<e, d>> \in older
  /\ \A d, e, f \in Cached : <<d, e>> \in older /\ <<e, f>> \in older => <<d, f>> \in older
CachedIsSignalled == \A d \in Cached : waiting[d] \in signalled \cup {None}
CacheInv == OrderInv /\ CachedIsSignalled

LEMMA OldestIsCached == ASSUME OrderInv, Cached # {} PROVE Oldest \in Cached
<1>1. IsFiniteSet(Cached)
  BY DocAssumption, FS_Subset DEF Cached
<1>2. \E d \in Cached : \A e \in Cached \ {d} : <<d, e>> \in older
  <2> HIDE DEF Cached
  <2> QED
    BY <1>1, FirstExists DEF OrderInv
<1> QED
  BY <1>2 DEF Oldest

\* What a new result evicts.
Evicted(d) ==
  IF d \notin Cached /\ Cardinality(Cached) >= MaxCompleted THEN {Oldest} ELSE {}

LEMMA EvictedIsCached == ASSUME OrderInv, NEW d \in Doc PROVE Evicted(d) \subseteq Cached
<1>1. Cardinality({}) = 0
  BY FS_EmptySet
<1>2. Cardinality(Cached) >= MaxCompleted => Cached # {}
  BY <1>1, LimitAssumption
<1> QED
  BY <1>2, OldestIsCached DEF Evicted

LEMMA PublishKeepsCache ==
  ASSUME TypeOK, CacheInv, NEW d \in Doc, NEW result \in Result, Publish(d, result)
  PROVE  /\ CacheInv'
         /\ \A e \in Doc : waiting[e] # None /\ waiting[e] \notin signalled => waiting'[e] # None
<1> DEFINE gone == Evicted(d)
<1>1. gone \subseteq Cached /\ d \notin gone
  BY EvictedIsCached DEF CacheInv, Evicted
<1>2. /\ completed' = [e \in Doc |-> IF e = d THEN result
                                     ELSE IF e \in gone THEN None ELSE completed[e]]
      /\ older' = {p \in older : p[1] \notin gone /\ p[2] \notin gone}
                    \cup (IF d \in Cached THEN {} ELSE (Cached \ gone) \X {d})
      /\ waiting' = [e \in Doc |-> IF e \in gone THEN None ELSE waiting[e]]
      /\ signalled' = signalled \cup ({waiting'[d]} \ {None})
  BY DEF Publish, CacheResult, Signal, Evicted
<1> HIDE DEF gone
<1>3. Cached' = (Cached \ gone) \cup {d}
  BY <1>1, <1>2, ResultAssumption DEF Cached
<1>4. Cached \subseteq Doc
  BY DEF Cached
<1>5. OrderInv'
  <2>1. PICK C : C = Cached
    OBVIOUS
  <2>2. PICK D : D = Cached'
    OBVIOUS
  <2>3. D = (C \ gone) \cup {d}
    BY <1>3, <2>1, <2>2
  <2>4. \A x, y : <<x, y>> \in older' <=>
          \/ <<x, y>> \in older /\ x \notin gone /\ y \notin gone
          \/ d \notin C /\ x \in C \ gone /\ y = d
    BY <1>2, <2>1
  <2>5. /\ older \subseteq C \X C
        /\ \A x \in C : <<x, x>> \notin older
        /\ \A x, y \in C : x # y => <<x, y>> \in older \/ <<y, x>> \in older
        /\ \A x, y, z \in C : <<x, y>> \in older /\ <<y, z>> \in older => <<x, z>> \in older
    BY <2>1 DEF CacheInv, OrderInv
  <2>6. older' \subseteq D \X D
    BY <1>1, <1>2, <2>1, <2>3, <2>5
  <2>a. \A x, y : <<x, y>> \in older => x \in C /\ y \in C
    BY <2>5
  <2>7. \A x \in D : <<x, x>> \notin older'
    BY <2>4, <2>5, <2>a
  <2>8. ASSUME NEW x \in D, NEW y \in D, x # y PROVE <<x, y>> \in older' \/ <<y, x>> \in older'
    <3>1. x \notin gone /\ y \notin gone
      BY <1>1, <2>3
    <3>2. CASE x \in C /\ y \in C
      BY <2>4, <2>5, <2>8, <3>1, <3>2
    <3>3. CASE x \notin C
      <4>1. x = d /\ y \in C
        BY <2>3, <2>8, <3>3
      <4> QED
        BY <2>4, <3>1, <3>3, <4>1
    <3>4. CASE y \notin C
      <4>1. y = d /\ x \in C
        BY <2>3, <2>8, <3>4
      <4> QED
        BY <2>4, <3>1, <3>4, <4>1
    <3> QED
      BY <3>2, <3>3, <3>4
  <2>9. \A x, y, z \in D : <<x, y>> \in older' /\ <<y, z>> \in older' => <<x, z>> \in older'
    BY <2>3, <2>4, <2>5, <2>a
  <2> QED
    BY <2>2, <2>6, <2>7, <2>8, <2>9 DEF OrderInv
<1>6. CachedIsSignalled'
  BY <1>1, <1>2, <1>3, <1>4 DEF TypeOK, CacheInv, CachedIsSignalled
<1>7. \A e \in Doc : waiting[e] # None /\ waiting[e] \notin signalled => waiting'[e] # None
  BY <1>1, <1>2 DEF CacheInv, CachedIsSignalled
<1> QED
  BY <1>5, <1>6, <1>7 DEF CacheInv

\* The steps that neither cache nor forget a result, and touch no event.
CacheKept == UNCHANGED <<cache, waiting, signalled>>

LEMMA CacheStep ==
  ASSUME TypeOK, CacheInv, [Next]_vars
  PROVE  CacheInv' /\ EventsOutliveEviction
<1> USE DEF registry, queues, workers, cache, bounds
<1>1. ASSUME CacheKept PROVE CacheInv' /\ EventsOutliveEviction
  <2>1. Cached' = Cached
    BY <1>1 DEF CacheKept, Cached
  <2> QED
    BY <1>1, <2>1 DEF CacheKept, CacheInv, OrderInv, CachedIsSignalled, EventsOutliveEviction
<1>2. ASSUME NEW d \in Doc, NEW result \in Result, Publish(d, result)
      PROVE  CacheInv' /\ EventsOutliveEviction
  BY <1>2, PublishKeepsCache DEF EventsOutliveEviction
<1>3. ASSUME NEW d \in Doc, \/ Register(d) \/ Rescan(d) \/ EnqueueMissing(d) \/ Delete(d)
                            \/ PutUnblocks(d) \/ PutRejected(d) \/ StartupIndex(d)
      PROVE  CacheKept
  BY <1>3 DEF CacheKept, Register, Rescan, EnqueueMissing, Delete, PutUnblocks, PutRejected,
              StartupIndex, waiters
<1>4. ASSUME NEW d \in Doc, Enqueue(d) PROVE CacheInv' /\ EventsOutliveEviction
  <2>1. /\ older' = {p \in older : p[1] # d /\ p[2] # d}
        /\ UNCHANGED <<waiting, signalled>>
        /\ Cached' = Cached \ {d}
    BY <1>4 DEF Enqueue, ForgetOrder, waiters, TypeOK, Cached
  <2>2. PICK C, D : C = Cached /\ D = Cached'
    OBVIOUS
  <2>3. /\ older \subseteq C \X C
        /\ \A x \in C : <<x, x>> \notin older
        /\ \A x, y \in C : x # y => <<x, y>> \in older \/ <<y, x>> \in older
        /\ \A x, y, z \in C : <<x, y>> \in older /\ <<y, z>> \in older => <<x, z>> \in older
    BY <2>2 DEF CacheInv, OrderInv
  <2>4. D = C \ {d} /\ \A x, y : <<x, y>> \in older' <=> <<x, y>> \in older /\ x # d /\ y # d
    BY <2>1, <2>2
  <2>5. older' \subseteq D \X D
    BY <2>1, <2>3, <2>4
  <2>6. /\ \A x \in D : <<x, x>> \notin older'
        /\ \A x, y \in D : x # y => <<x, y>> \in older' \/ <<y, x>> \in older'
        /\ \A x, y, z \in D : <<x, y>> \in older' /\ <<y, z>> \in older' => <<x, z>> \in older'
    BY <2>3, <2>4
  <2>7. OrderInv'
    BY <2>2, <2>5, <2>6 DEF OrderInv
  <2> QED
    BY <2>1, <2>7 DEF CacheInv, CachedIsSignalled, EventsOutliveEviction
<1>5. ASSUME NEW d \in Doc, Cancel(d) PROVE CacheInv' /\ EventsOutliveEviction
  BY <1>2, <1>5 DEF Cancel, Result
<1>6. ASSUME NEW w \in Worker, NEW t \in Task,
             SkipCancelled(w, t) \/ BeginAttempt(w, t) \/ RowVanished(w, t)
      PROVE  CacheKept
  BY <1>6 DEF CacheKept, SkipCancelled, BeginAttempt, RowVanished, waiters
<1>7. ASSUME NEW w \in Worker, ExtractionDone(w) \/ EnterLock(w) \/ LeaveLock(w)
      PROVE  CacheKept
  BY <1>7 DEF CacheKept, ExtractionDone, EnterLock, LeaveLock, waiters
<1>8. ASSUME NEW w \in Worker, Succeed(w) \/ Fail(w) PROVE CacheInv' /\ EventsOutliveEviction
  <2>1. job[w] \in Doc
    BY <1>8 DEF TypeOK, Succeed, Fail
  <2>2. Publish(job[w], "completed") \/ Publish(job[w], "failed")
    BY <1>8 DEF Succeed, Fail, Finish
  <2> QED
    BY <1>2, <2>1, <2>2 DEF Result
<1>9. ASSUME NEW c \in Caller, NEW d \in Doc, WaitReturnsAtOnce(c, d) PROVE CacheKept
  BY <1>9 DEF CacheKept, WaitReturnsAtOnce
<1>10. ASSUME NEW c \in Caller, NEW d \in Doc, WaitParks(c, d)
       PROVE  CacheInv' /\ EventsOutliveEviction
  <2>1. /\ d \notin Cached /\ EventFor(c, d) # None
        /\ waiting' = [waiting EXCEPT ![d] = EventFor(c, d)]
        /\ UNCHANGED <<completed, older, signalled>>
    BY <1>10, NoneAssumption DEF WaitParks, EventFor
  <2>2. Cached' = Cached
    BY <2>1 DEF Cached
  <2>3. OrderInv'
    BY <2>1, <2>2 DEF CacheInv, OrderInv
  <2>4. CachedIsSignalled'
    BY <2>1, <2>2 DEF CacheInv, CachedIsSignalled, TypeOK, Cached
  <2>5. EventsOutliveEviction
    BY <2>1 DEF EventsOutliveEviction, TypeOK
  <2> QED
    BY <2>3, <2>4, <2>5 DEF CacheInv
<1>11. ASSUME NEW c \in Caller, WaitWakes(c) \/ WaitTimesOut(c)
       PROVE  CacheInv' /\ EventsOutliveEviction
  <2>1. Parked(c) /\ Leave(c) /\ call[c].doc \in Doc
    BY <1>11 DEF WaitWakes, WaitTimesOut, TypeOK, Parked
  <2>2. /\ \A e \in Doc : e # call[c].doc => waiting'[e] = waiting[e]
        /\ \A e \in Doc : waiting'[e] \in {waiting[e], None}
        /\ ~Parked(c)'
        /\ UNCHANGED <<completed, older, signalled>>
    BY <2>1 DEF Leave, TypeOK, Parked, Returned, NoCall
  <2>3. Cached' = Cached
    BY <2>2 DEF Cached
  <2>4. OrderInv'
    BY <2>2, <2>3 DEF CacheInv, OrderInv
  <2>5. CachedIsSignalled'
    BY <2>2, <2>3 DEF CacheInv, CachedIsSignalled, Cached
  <2>6. EventsOutliveEviction
    BY <2>1, <2>2 DEF EventsOutliveEviction
  <2> QED
    BY <2>4, <2>5, <2>6 DEF CacheInv
<1>12. CASE Start \/ StartupLock \/ StartupDone \/ Stop \/ UNCHANGED vars
  <2>1. CacheKept
    BY <1>12 DEF CacheKept, Start, StartupLock, StartupDone, Stop, vars, waiters
  <2> QED
    BY <1>1, <2>1
<1>13. CASE Crash
  <2>1. Cached' = {} /\ older' = {} /\ phase' = "off"
    BY <1>13 DEF Crash, Cached
  <2> QED
    BY <2>1 DEF CacheInv, OrderInv, CachedIsSignalled, EventsOutliveEviction
<1> QED
  BY <1>1, <1>3, <1>4, <1>5, <1>6, <1>7, <1>8, <1>9, <1>10, <1>11, <1>12, <1>13 DEF Next

\* No eviction from the result cache, whatever its size, takes an event that a
\* caller still sleeps on: for any number of documents, workers and callers.
THEOREM EvictionIsHarmless == Spec => EvictionSparesSleepers
<1>1. Init => CacheInv
  BY DEF Init, CacheInv, OrderInv, CachedIsSignalled, Cached
<1>2. TypeOK /\ CacheInv /\ [Next]_vars => CacheInv'
  BY CacheStep
<1>3. Spec => [](TypeOK /\ CacheInv)
  BY <1>1, <1>2, InitType, StepType, PTL DEF Spec
<1>4. TypeOK /\ CacheInv /\ [Next]_vars => [EventsOutliveEviction]_vars
  BY CacheStep
<1> QED
  BY <1>3, <1>4, PTL DEF Spec, EvictionSparesSleepers

-----------------------------------------------------------------------------
(* Rows and the pipeline, when no document is cancelled. *)

Submitted(d) == \/ pending[d] > 0 \/ blocked[d] > 0
                \/ \E t \in Task : t[1] = d /\ queue[t] > 0
QueuedInv == /\ cancelled = {}
             /\ phase # "off" => \A d \in Doc : row[d] = "queued" => Submitted(d)

\* A step that leaves the submissions alone queues no row.
SubmissionsKept ==
  /\ UNCHANGED <<queues, cancelled>>
  /\ \A d \in Doc : row'[d] = "queued" => row[d] = "queued"
  /\ phase' # "off" => phase # "off"

LEMMA QueuedStep ==
  ASSUME MaxQueue >= Cardinality(Doc), Cancellable = {}, TypeOK, QueuedInv, [Next]_vars
  PROVE  QueuedInv'
<1> USE DEF registry, workers, cache, bounds
<1>1. ASSUME SubmissionsKept PROVE QueuedInv'
  BY <1>1 DEF SubmissionsKept, QueuedInv, Submitted, queues
<1>2. ASSUME NEW d \in Doc, row'[d] = "queued" => Submitted(d)', UNCHANGED cancelled,
             \A e \in Doc \ {d} : /\ row'[e] = row[e]
                                  /\ Submitted(e) => Submitted(e)',
             phase' # "off" => phase # "off"
      PROVE  QueuedInv'
  BY <1>2 DEF QueuedInv
<1>3. ASSUME NEW d \in Doc, Register(d) \/ Rescan(d) PROVE QueuedInv'
  <2>1. /\ pending' = [pending EXCEPT ![d] = @ + 1] /\ UNCHANGED <<blocked, queue, cancelled>>
        /\ \A e \in Doc \ {d} : row'[e] = row[e]
        /\ UNCHANGED phase
    BY <1>3 DEF Register, Rescan, TypeOK
  <2>2. pending'[d] > 0 /\ \A e \in Doc \ {d} : pending'[e] = pending[e]
    BY <2>1 DEF TypeOK
  <2>3. Submitted(d)' /\ \A e \in Doc \ {d} : Submitted(e) => Submitted(e)'
    BY <2>1, <2>2 DEF Submitted
  <2> QED
    BY <1>2, <2>1, <2>3
<1>4. ASSUME NEW d \in Doc, Enqueue(d) PROVE QueuedInv'
  <2>1. <<d, 0>> \in Task /\ <<d, 0>>[1] = d
    BY DEF Task
  <2>2. \/ queue' = [queue EXCEPT ![<<d, 0>>] = @ + 1] /\ UNCHANGED blocked
        \/ blocked' = [blocked EXCEPT ![d] = @ + 1] /\ UNCHANGED queue
    BY <1>4 DEF Enqueue
  <2>3. Submitted(d)'
    BY <2>1, <2>2 DEF Submitted, TypeOK
  <2>4. /\ \A e \in Doc \ {d} : row'[e] = row[e] /\ pending'[e] = pending[e]
        /\ UNCHANGED <<cancelled, phase>>
    BY <1>4 DEF Enqueue, TypeOK
  <2>5. \A e \in Doc \ {d} : blocked'[e] = blocked[e]
    BY <2>2 DEF TypeOK
  <2>6. \A t \in Task : queue[t] > 0 => queue'[t] > 0
    BY <2>1, <2>2 DEF TypeOK
  <2>7. \A e \in Doc \ {d} : Submitted(e) => Submitted(e)'
    BY <2>4, <2>5, <2>6 DEF Submitted
  <2> QED
    BY <1>2, <2>3, <2>4, <2>7
<1>5. ASSUME NEW d \in Doc, EnqueueMissing(d) PROVE QueuedInv'
  <2>1. /\ row' = row /\ row[d] # "queued" /\ UNCHANGED <<blocked, queue, cancelled, phase>>
        /\ \A e \in Doc \ {d} : pending'[e] = pending[e]
    BY <1>5 DEF EnqueueMissing, HasRow, NoRow, TypeOK
  <2> QED
    BY <1>2, <2>1 DEF Submitted
<1>6. ASSUME NEW d \in Doc, PutUnblocks(d) PROVE QueuedInv'
  <2>1. <<d, 0>> \in Task /\ <<d, 0>>[1] = d
    BY DEF Task
  <2>2. /\ row' = row /\ queue'[<<d, 0>>] > 0 /\ UNCHANGED <<pending, cancelled, phase>>
        /\ \A e \in Doc \ {d} : blocked'[e] = blocked[e]
        /\ \A t \in Task : queue[t] > 0 => queue'[t] > 0
    BY <1>6, <2>1 DEF PutUnblocks, TypeOK
  <2> QED
    BY <1>2, <2>1, <2>2 DEF Submitted
<1>7. ASSUME NEW d \in Doc, PutRejected(d) PROVE QueuedInv'
  <2>1. /\ row'[d] # "queued" /\ UNCHANGED <<pending, queue, cancelled, phase>>
        /\ \A e \in Doc \ {d} : row'[e] = row[e] /\ blocked'[e] = blocked[e]
    BY <1>7 DEF PutRejected, TypeOK, HasRow, NoRow
  <2> QED
    BY <1>2, <2>1 DEF Submitted
<1>8. ASSUME NEW d \in Doc, Delete(d) \/ StartupIndex(d) PROVE SubmissionsKept
  BY <1>8 DEF Delete, StartupIndex, SubmissionsKept, TypeOK
<1>9. ASSUME NEW w \in Worker, NEW t \in Task, BeginAttempt(w, t) \/ RowVanished(w, t)
      PROVE  QueuedInv'
  <2>1. /\ t[1] \in Doc /\ row'[t[1]] # "queued" /\ UNCHANGED <<pending, blocked, cancelled, phase>>
        /\ \A e \in Doc \ {t[1]} : row'[e] = row[e]
        /\ queue' = [queue EXCEPT ![t] = @ - 1]
    BY <1>9 DEF BeginAttempt, RowVanished, Take, TypeOK, HasRow, NoRow, Task
  <2>2. \A u \in Task : u[1] # t[1] => queue'[u] = queue[u]
    BY <2>1 DEF TypeOK
  <2>3. \A e \in Doc \ {t[1]} : Submitted(e) => Submitted(e)'
    BY <2>1, <2>2 DEF Submitted
  <2> QED
    BY <1>2, <2>1, <2>3
<1>10. ASSUME NEW w \in Worker, NEW t \in Task, SkipCancelled(w, t) PROVE QueuedInv'
  BY <1>10 DEF SkipCancelled, QueuedInv
<1>11. ASSUME NEW w \in Worker, ExtractionDone(w) \/ EnterLock(w) \/ LeaveLock(w)
       PROVE  SubmissionsKept
  BY <1>11 DEF ExtractionDone, EnterLock, LeaveLock, SubmissionsKept, TypeOK
<1>12. ASSUME NEW w \in Worker, Succeed(w) \/ Fail(w) PROVE SubmissionsKept
  <2>1. UNCHANGED <<queues, phase>> /\ cancelled' = {}
    BY <1>12 DEF Succeed, Fail, Finish, QueuedInv
  <2>2. \A d \in Doc : row'[d] = "queued" => row[d] = "queued"
    BY <1>12 DEF Succeed, Fail, TypeOK
  <2> QED
    BY <2>1, <2>2 DEF SubmissionsKept, QueuedInv
<1>13. ASSUME NEW c \in Caller, NEW d \in Doc, WaitReturnsAtOnce(c, d) \/ WaitParks(c, d)
       PROVE  SubmissionsKept
  BY <1>13 DEF WaitReturnsAtOnce, WaitParks, SubmissionsKept
<1>14. ASSUME NEW c \in Caller, WaitWakes(c) \/ WaitTimesOut(c) PROVE SubmissionsKept
  BY <1>14 DEF WaitWakes, WaitTimesOut, Leave, SubmissionsKept
<1>15. CASE StartupLock \/ StartupDone \/ Stop \/ UNCHANGED vars
  BY <1>1, <1>15 DEF StartupLock, StartupDone, Stop, vars, SubmissionsKept
<1>16. CASE Start
  <2>1. PICK taken, rejected, migrated \in SUBSET Doc : Recover(taken, rejected, migrated)
    BY <1>16 DEF Start
  <2>2. Cardinality(Unread) <= MaxQueue
    <3>1. Unread \subseteq Doc
      BY DEF Unread, Orphan
    <3>2. Cardinality(Unread) <= Cardinality(Doc) /\ Cardinality(Unread) \in Nat
      BY <3>1, DocAssumption, FS_Subset, FS_CardinalityType
    <3>3. Cardinality(Doc) \in Nat
      BY DocAssumption, FS_CardinalityType
    <3> QED
      BY <3>2, <3>3, LimitAssumption
  <2>3. /\ taken = Orphan \cup {d \in Doc : row[d] = "failed"} /\ rejected = {}
        /\ queue' = [t \in Task |->
             IF t[1] \in taken /\ t[2] = (IF t[1] \in Orphan THEN 1 ELSE 2) THEN 1 ELSE 0]
        /\ row' = [d \in Doc |-> IF d \in taken \cup rejected THEN "queued"
                                 ELSE IF d \in migrated THEN "cancelled" ELSE row[d]]
    BY <2>1, <2>2 DEF Recover
  <2>4. ASSUME NEW d \in Doc, row'[d] = "queued" PROVE Submitted(d)'
    <3>1. d \in taken
      BY <2>3, <2>4 DEF Orphan
    <3> DEFINE t == <<d, IF d \in Orphan THEN 1 ELSE 2>>
    <3>2. t \in Task /\ t[1] = d /\ t[2] = (IF t[1] \in Orphan THEN 1 ELSE 2)
      BY DEF Task
    <3>3. queue'[t] > 0
      BY <2>3, <3>1, <3>2
    <3> QED
      BY <3>2, <3>3 DEF Submitted
  <2> QED
    BY <1>16, <2>4 DEF Start, QueuedInv
<1>17. CASE Crash
  BY <1>17 DEF Crash, QueuedInv
<1>18. ASSUME NEW d \in Doc, Cancel(d) PROVE FALSE
  BY <1>18 DEF Cancel
<1> QED
  BY <1>1, <1>3, <1>4, <1>5, <1>6, <1>7, <1>8, <1>9, <1>10, <1>11, <1>12, <1>13, <1>14, <1>15,
     <1>16, <1>17, <1>18 DEF Next

\* When the queue can hold every document and none may be cancelled, a row that
\* is to be processed has a submission, a task or a worker that will do so.
THEOREM NothingIsStranded ==
  ASSUME MaxQueue >= Cardinality(Doc), Cancellable = {}
  PROVE  Spec => []NoneStranded
<1>1. Init => QueuedInv
  BY DEF Init, QueuedInv
<1>2. TypeOK /\ QueuedInv /\ [Next]_vars => QueuedInv'
  BY QueuedStep
<1>3. QueuedInv /\ ProcessingOwned => NoneStranded
  BY DEF QueuedInv, ProcessingOwned, NoneStranded, InPipeline, Submitted
<1>4. Spec => []ProcessingOwned
  BY ProcessingIsOwned
<1>5. Spec => [](TypeOK /\ QueuedInv)
  BY <1>1, <1>2, InitType, StepType, PTL DEF Spec
<1> QED
  BY <1>3, <1>4, <1>5, PTL

-----------------------------------------------------------------------------
(* Callers and settled documents, when no put times out, nothing is         *)
(* cancelled and the result cache holds every document.                     *)

Opening == {"off", "starting", "indexing"}
AnswerInv == /\ SettledIsAnswered
             /\ phase \in Opening => \A c \in Caller : ~Parked(c)

\* A step that answers nobody settles no document outside the pipeline, and
\* takes no settled document out of it.
PipelineKept ==
  /\ UNCHANGED <<call, signalled>>
  /\ phase' \in Opening => phase \in Opening
  /\ \A d \in Doc : row'[d] \in Terminal =>
       InPipeline(d)' \/ (row[d] \in Terminal /\ ~InPipeline(d))

LEMMA PipelineKeptAnswers ==
  ASSUME TypeOK, AnswerInv, PipelineKept
  PROVE  AnswerInv'
<1>1. \A c \in Caller : Parked(c)' => Parked(c) /\ call'[c] = call[c] /\ call[c].doc \in Doc
  BY DEF PipelineKept, TypeOK, Parked
<1> QED
  BY <1>1 DEF PipelineKept, AnswerInv, SettledIsAnswered

LEMMA AnswerStep ==
  ASSUME ~PutTimesOut, Cancellable = {}, MaxCompleted >= Cardinality(Doc),
         TypeOK, WaitInv, InProgressBacked, cancelled = {}, AnswerInv, [Next]_vars
  PROVE  AnswerInv'
<1> USE DEF registry, workers, cache, bounds
<1>1. ASSUME NEW d \in Doc, Register(d) \/ Rescan(d) \/ Delete(d) PROVE PipelineKept
  <2>1. /\ UNCHANGED <<call, signalled, blocked, queue, job, phase>>
        /\ \A e \in Doc : row'[e] \in Terminal => row[e] = row'[e]
        /\ \A e \in Doc : pending'[e] = pending[e] \/ pending'[e] > 0
    BY <1>1 DEF Register, Rescan, Delete, waiters, queues, TypeOK, Terminal, Failed
  <2> QED
    BY <2>1 DEF PipelineKept, InPipeline
<1>2. ASSUME NEW d \in Doc, Enqueue(d) \/ EnqueueMissing(d) PROVE PipelineKept
  <2>1. /\ UNCHANGED <<call, signalled, job, phase>>
        /\ row'[d] \notin Terminal
        /\ \A e \in Doc \ {d} : row'[e] = row[e] /\ pending'[e] = pending[e] /\ blocked'[e] = blocked[e]
    BY <1>2 DEF Enqueue, EnqueueMissing, waiters, TypeOK, Terminal, Failed, HasRow, NoRow
  <2>2. \A t \in Task : t[1] # d => queue'[t] = queue[t]
    BY <1>2 DEF Enqueue, EnqueueMissing, TypeOK, Task
  <2> QED
    BY <2>1, <2>2 DEF PipelineKept, InPipeline
<1>3. ASSUME NEW d \in Doc, PutUnblocks(d) PROVE PipelineKept
  <2>1. <<d, 0>> \in Task /\ <<d, 0>>[1] = d
    BY DEF Task
  <2>2. /\ UNCHANGED <<call, signalled, job, phase, row, pending>> /\ queue'[<<d, 0>>] > 0
        /\ \A e \in Doc \ {d} : blocked'[e] = blocked[e]
        /\ \A t \in Task : t[1] # d => queue'[t] = queue[t]
    BY <1>3, <2>1 DEF PutUnblocks, waiters, TypeOK
  <2> QED
    BY <2>1, <2>2 DEF PipelineKept, InPipeline
<1>4. ASSUME NEW d \in Doc, PutRejected(d) \/ Cancel(d) PROVE FALSE
  BY <1>4 DEF PutRejected, Cancel
<1>5. ASSUME NEW d \in Doc, StartupIndex(d) PROVE AnswerInv'
  BY <1>5 DEF StartupIndex, AnswerInv, SettledIsAnswered, waiters, Parked, Opening
<1>6. ASSUME NEW w \in Worker, NEW t \in Task, BeginAttempt(w, t) \/ RowVanished(w, t)
      PROVE  PipelineKept
  <2>1. /\ UNCHANGED <<call, signalled, phase, pending, blocked>>
        /\ row'[t[1]] \notin Terminal
        /\ \A e \in Doc \ {t[1]} : row'[e] = row[e]
        /\ \A v \in Worker : job'[v] = job[v] \/ (job[v] = None /\ job'[v] = t[1])
        /\ \A u \in Task : u[1] # t[1] => queue'[u] = queue[u]
    BY <1>6 DEF BeginAttempt, RowVanished, Take, HasRow, NoRow, waiters, TypeOK, Task, Terminal, Failed
  <2>2. \A e \in Doc : e # None
    BY NoneAssumption
  <2> QED
    BY <2>1, <2>2 DEF PipelineKept, InPipeline
<1>7. ASSUME NEW w \in Worker, NEW t \in Task, SkipCancelled(w, t) PROVE FALSE
  BY <1>7 DEF SkipCancelled
<1>8. ASSUME NEW w \in Worker, ExtractionDone(w) \/ EnterLock(w) \/ LeaveLock(w)
      PROVE  PipelineKept
  <2>1. /\ UNCHANGED <<call, signalled, phase, queues, job>>
        /\ \A e \in Doc : row'[e] = row[e] \/ e = job[w]
    BY <1>8 DEF ExtractionDone, EnterLock, LeaveLock, waiters, TypeOK
  <2> QED
    BY <2>1 DEF PipelineKept, InPipeline, queues
<1>9. ASSUME NEW w \in Worker, Succeed(w) \/ Fail(w) PROVE AnswerInv'
  <2> DEFINE d == job[w]
  <2>1. d \in Doc
    BY <1>9 DEF TypeOK, Succeed, Fail
  <2>2. Publish(d, "completed") \/ Publish(d, "failed")
    BY <1>9 DEF Succeed, Fail, Finish
  <2>3. call' = call /\ signalled' = signalled \cup ({waiting[d]} \ {None})
    BY <2>1, <2>2, PublishKeepsEvents DEF Result
  <2>4. /\ UNCHANGED <<queues, phase>>
        /\ \A e \in Doc \ {d} : row'[e] = row[e]
        /\ \A v \in Worker : job'[v] = job[v] \/ job[v] = d
    BY <1>9 DEF Succeed, Fail, Finish, TypeOK
  <2>5. \A e \in Doc \ {d} : InPipeline(e) => InPipeline(e)'
    BY <2>4 DEF InPipeline, queues
  <2>6. ASSUME NEW c \in Caller, Parked(c)', call'[c].event \notin signalled'
        PROVE  (row[call[c].doc] \notin Terminal \/ InPipeline(call[c].doc))'
    <3>1. Parked(c) /\ call[c].doc \in Doc /\ call[c].event \in Caller /\ call[c].event \notin signalled
      BY <2>3, <2>6 DEF Parked, TypeOK
    <3>2. call[c].doc # d
      BY <2>3, <2>6, <3>1, NoneAssumption DEF WaitInv, CallersAttached
    <3>3. row[call[c].doc] \notin Terminal \/ InPipeline(call[c].doc)
      BY <3>1 DEF AnswerInv, SettledIsAnswered
    <3>4. row'[call[c].doc] = row[call[c].doc]
      BY <2>4, <3>1, <3>2
    <3> QED
      BY <2>3, <2>5, <3>1, <3>2, <3>3, <3>4
  <2>7. phase' = phase /\ \A c \in Caller : Parked(c)' => Parked(c)
    BY <2>3, <2>4 DEF Parked
  <2> QED
    BY <2>6, <2>7 DEF AnswerInv, SettledIsAnswered
<1>10. ASSUME NEW c \in Caller, NEW d \in Doc, WaitParks(c, d) PROVE AnswerInv'
  <2>1. /\ UNCHANGED <<signalled, queues, job, row, phase>> /\ phase = "on"
        /\ \A b \in Caller \ {c} : call'[b] = call[b]
        /\ call'[c].doc = d
    BY <1>10 DEF WaitParks, TypeOK
  <2>2. row[d] \notin Terminal \/ InPipeline(d)
    BY <1>10 DEF WaitParks, InProgressBacked, InPipeline
  <2>3. \A e : InPipeline(e)' <=> InPipeline(e)
    BY <2>1 DEF InPipeline, queues
  <2> QED
    BY <2>1, <2>2, <2>3 DEF AnswerInv, SettledIsAnswered, Parked, Opening
<1>11. ASSUME NEW c \in Caller,
              WaitWakes(c) \/ WaitTimesOut(c) \/ \E d \in Doc : WaitReturnsAtOnce(c, d)
       PROVE  AnswerInv'
  <2>1. /\ UNCHANGED <<signalled, queues, job, row, phase>>
        /\ \A b \in Caller \ {c} : call'[b] = call[b]
        /\ ~Parked(c)'
    <3>1. CASE Leave(c)
      BY <3>1 DEF Leave, Returned, NoCall, TypeOK, Parked
    <3>2. ASSUME NEW d \in Doc, WaitReturnsAtOnce(c, d)
          PROVE  /\ UNCHANGED <<signalled, queues, job, row, phase>>
                 /\ \A b \in Caller \ {c} : call'[b] = call[b]
                 /\ ~Parked(c)'
      BY <3>2 DEF WaitReturnsAtOnce, Returned, NoCall, TypeOK, Parked
    <3> QED
      BY <1>11, <3>1, <3>2 DEF WaitWakes, WaitTimesOut
  <2>2. \A e : InPipeline(e)' <=> InPipeline(e)
    BY <2>1 DEF InPipeline, queues
  <2> QED
    BY <2>1, <2>2 DEF AnswerInv, SettledIsAnswered, Parked
<1>12. CASE StartupLock \/ StartupDone \/ Stop \/ UNCHANGED vars
  <2>1. UNCHANGED <<waiters, queues, workers, registry>>
    BY <1>12 DEF StartupLock, StartupDone, Stop, vars
  <2>2. phase' \in Opening => phase \in Opening
    BY <1>12 DEF StartupLock, StartupDone, Stop, vars, Opening
  <2>3. PipelineKept
    BY <2>1, <2>2 DEF PipelineKept, InPipeline, queues, waiters
  <2> QED
    BY <2>3, PipelineKeptAnswers
<1>13. CASE Start
  BY <1>13 DEF Start, AnswerInv, SettledIsAnswered, Parked, Opening, waiters
<1>14. CASE Crash
  BY <1>14 DEF Crash, AnswerInv, SettledIsAnswered, Parked, NoCall
<1> QED
  BY <1>1, <1>2, <1>3, <1>4, <1>5, <1>6, <1>7, <1>8, <1>9, <1>10, <1>11, <1>12, <1>13, <1>14,
     PipelineKeptAnswers DEF Next

LEMMA AnswerInvariant ==
  ASSUME ~PutTimesOut, Cancellable = {}, MaxCompleted >= Cardinality(Doc)
  PROVE  Spec => []AnswerInv
<1> DEFINE Inv == WaitInv /\ cancelled = {} /\ AnswerInv
<1>1. Init => Inv
  BY WaitInvInit DEF Init, AnswerInv, SettledIsAnswered, Parked, NoCall
<1>2. TypeOK /\ InProgressBacked /\ Inv /\ [Next]_vars => Inv'
  <2> SUFFICES ASSUME TypeOK, InProgressBacked, Inv, [Next]_vars PROVE Inv'
    OBVIOUS
  <2>1. cancelled' = {}
    <3>1. \A w \in Worker : Succeed(w) \/ Fail(w) => cancelled' = {}
      BY DEF Succeed, Fail, Finish
    <3> QED
      BY <3>1 DEF Next, vars, Register, Rescan, Enqueue, EnqueueMissing, PutUnblocks, PutRejected,
                  Cancel, Delete, StartupIndex, SkipCancelled, BeginAttempt, RowVanished,
                  ExtractionDone, EnterLock, LeaveLock, WaitReturnsAtOnce, WaitParks, WaitWakes,
                  WaitTimesOut, Leave, Start, StartupLock, StartupDone, Stop, Crash
  <2> QED
    BY <2>1, WaitInvStep, AnswerStep
<1>3. Spec => [](TypeOK /\ InProgressBacked)
  BY TypeCorrect, InProgressIsBacked, PTL
<1>4. Spec => []Inv
  <2> HIDE DEF Inv
  <2> QED
    BY <1>1, <1>2, <1>3, PTL DEF Spec
<1>5. Inv => AnswerInv
  OBVIOUS
<1> QED
  BY <1>4, <1>5, PTL

\* Without put timeouts and cancellations, and while the result cache holds
\* every document, no caller of wait_for sleeps on a document that is settled
\* and that nobody works on.
THEOREM NobodyWaitsInVain ==
  ASSUME ~PutTimesOut, Cancellable = {}, MaxCompleted >= Cardinality(Doc)
  PROVE  Spec => []SettledIsAnswered
<1>1. AnswerInv => SettledIsAnswered
  BY DEF AnswerInv
<1> QED
  BY <1>1, AnswerInvariant, PTL

\* Who sleeps in wait_for either has a submission, a task or a worker on its way
\* to the document, or sleeps on a document that was deleted meanwhile.
SleepersHaveWork ==
  \A c \in Caller : Parked(c) /\ call[c].event \notin signalled =>
    InPipeline(call[c].doc) \/ ~HasRow(call[c].doc)

\* If moreover the queue can hold every document, the deletion of the document
\* (queue.py:894) is the only way in which a caller comes to sleep until its
\* timeout with nobody left to wake it.
THEOREM OnlyDeletionAbandons ==
  ASSUME ~PutTimesOut, Cancellable = {},
         MaxQueue >= Cardinality(Doc), MaxCompleted >= Cardinality(Doc)
  PROVE  Spec => []SleepersHaveWork
<1>1. TypeOK /\ AnswerInv /\ NoneStranded => SleepersHaveWork
  <2> SUFFICES ASSUME TypeOK, AnswerInv, NoneStranded, NEW c \in Caller, Parked(c),
                      call[c].event \notin signalled, HasRow(call[c].doc)
               PROVE  InPipeline(call[c].doc)
    BY DEF SleepersHaveWork
  <2> DEFINE d == call[c].doc
  <2>1. d \in Doc /\ phase # "off"
    BY DEF TypeOK, AnswerInv, Opening
  <2>2. row[d] \in {"queued", "processing"} \/ row[d] \in Terminal
    BY <2>1 DEF TypeOK, HasRow, RowStatus
  <2> QED
    BY <2>1, <2>2 DEF NoneStranded, AnswerInv, SettledIsAnswered
<1>2. Spec => []AnswerInv
  BY AnswerInvariant
<1>3. Spec => []NoneStranded
  BY NothingIsStranded
<1> QED
  BY <1>1, <1>2, <1>3, TypeCorrect, PTL
-----------------------------------------------------------------------------
(* The callers of wait_for see the abstract service of WaitService, while    *)
(* the result cache holds every document.                                    *)

\* A registered event belongs to one document, was created by a call that has
\* been made, and is held by some caller; only such calls' events are ever set.
EventInv ==
  /\ \A d, e \in Doc : waiting[d] # None /\ waiting[d] = waiting[e] => d = e
  /\ \A d \in Doc : waiting[d] # None => call[waiting[d]].pc # "idle" /\ ParkedOn(d) # {}
  /\ \A c \in signalled : call[c].pc # "idle"

ServiceInv == TypeOK /\ WaitInv /\ EventInv

\* The steps that touch neither the callers nor the cached results.
CallersKept == UNCHANGED waiters /\ completed' = completed

LEMMA KeptEventInv == ASSUME EventInv, UNCHANGED waiters PROVE EventInv'
BY DEF EventInv, waiters, ParkedOn, Parked

\* Publishing sets the event of one document, which its creator has registered.
LEMMA PublishEventInv ==
  ASSUME ServiceInv, MaxCompleted >= Cardinality(Doc),
         NEW d \in Doc, NEW result \in Result, Publish(d, result)
  PROVE  EventInv'
<1>1. /\ waiting' = waiting /\ call' = call
      /\ signalled' = signalled \cup ({waiting[d]} \ {None})
  BY PublishKeepsEvents DEF ServiceInv
<1>2. \A e \in Doc : ParkedOn(e)' = ParkedOn(e)
  BY <1>1 DEF ParkedOn, Parked
<1>3. QED
  BY <1>1, <1>2 DEF ServiceInv, EventInv

\* A caller joins the document's event or registers one of its own, which no
\* other document can have: it has not waited before.
LEMMA WaitParksEventInv ==
  ASSUME ServiceInv, NEW c \in Caller, NEW d \in Doc, WaitParks(c, d)
  PROVE  EventInv'
<1> PICK event : event = EventFor(c, d)
  OBVIOUS
<1>1. /\ call[c].pc = "idle"
      /\ waiting' = [waiting EXCEPT ![d] = event]
      /\ call' = [call EXCEPT ![c] =
                    [pc |-> "parked", doc |-> d, event |-> event, result |-> None]]
      /\ signalled' = signalled
  BY DEF WaitParks
<1>2. /\ call \in [Caller -> [pc : {"idle", "parked", "returned"}, doc : Doc \cup {None},
                               event : Caller \cup {None}, result : Result \cup {None}]]
      /\ waiting \in [Doc -> Caller \cup {None}] /\ signalled \subseteq Caller
  BY DEF ServiceInv, TypeOK
<1>3. /\ call'[c].pc = "parked" /\ call'[c].doc = d
      /\ \A b \in Caller : b # c => call'[b] = call[b]
  BY <1>1, <1>2
<1>4. \A e \in Doc : e # d => waiting'[e] = waiting[e]
  BY <1>1, <1>2
<1>5. waiting'[d] = event
  BY <1>1, <1>2
<1>6. event \in {c, waiting[d]} /\ (waiting[d] # None => event = waiting[d])
  BY DEF EventFor
<1>7. \A e \in Doc : e # d /\ waiting[e] # None => waiting[e] # event
  <2>1. SUFFICES ASSUME NEW e \in Doc, e # d, waiting[e] # None PROVE waiting[e] # event
    OBVIOUS
  <2>2. waiting[e] # c
    BY <1>1, <2>1 DEF ServiceInv, EventInv
  <2>3. waiting[e] # waiting[d]
    BY <2>1 DEF ServiceInv, EventInv
  <2>4. QED
    BY <1>6, <2>2, <2>3
<1>8. \A e, f \in Doc : waiting'[e] # None /\ waiting'[e] = waiting'[f] => e = f
  BY <1>4, <1>5, <1>7 DEF ServiceInv, EventInv
<1>9. ASSUME NEW e \in Doc, waiting'[e] # None
      PROVE  call'[waiting'[e]].pc # "idle" /\ ParkedOn(e)' # {}
  <2>1. CASE e = d
    <3>1. c \in ParkedOn(d)'
      BY <1>3 DEF ParkedOn, Parked
    <3>2. CASE event = c
      BY <1>3, <1>5, <2>1, <3>1, <3>2
    <3>3. CASE event # c
      <4>1. event = waiting[d] /\ waiting[d] # None /\ event \in Caller
        BY <1>2, <1>5, <1>6, <1>9, <2>1, <3>3
      <4>2. call'[event].pc # "idle"
        BY <1>3, <3>3, <4>1 DEF ServiceInv, EventInv
      <4>3. QED
        BY <1>5, <2>1, <3>1, <4>2
    <3>4. QED
      BY <3>2, <3>3
  <2>2. CASE e # d
    <3>1. waiting'[e] = waiting[e] /\ waiting[e] # None /\ waiting[e] \in Caller
      BY <1>2, <1>4, <1>9, <2>2
    <3>2. call[waiting[e]].pc # "idle" /\ ParkedOn(e) # {}
      BY <3>1 DEF ServiceInv, EventInv
    <3>3. waiting[e] # c
      BY <1>1, <3>2
    <3>4. ParkedOn(e) \subseteq ParkedOn(e)'
      BY <1>1, <1>3 DEF ParkedOn, Parked
    <3>5. QED
      BY <1>3, <3>1, <3>2, <3>3, <3>4
  <2>3. QED
    BY <2>1, <2>2
<1>10. \A b \in signalled' : call'[b].pc # "idle"
  BY <1>1, <1>2, <1>3 DEF ServiceInv, EventInv
<1>11. QED
  BY <1>8, <1>9, <1>10 DEF EventInv

\* A caller leaves; the event goes with the last one.
LEMMA LeaveEventInv ==
  ASSUME ServiceInv, NEW c \in Caller, Parked(c), Leave(c)
  PROVE  EventInv'
<1> USE DEF ServiceInv
<1>0. PICK d \in Doc : d = call[c].doc
  BY DEF TypeOK
<1>1. /\ waiting' = [waiting EXCEPT ![d] = IF LastToLeave(d) THEN None ELSE @]
      /\ call' = [call EXCEPT ![c] = Returned(completed[d])]
      /\ signalled' = signalled
  BY <1>0 DEF Leave
<1>2. /\ call'[c].pc = "returned"
      /\ \A b \in Caller : b # c => call'[b] = call[b]
  BY <1>1 DEF TypeOK, Returned, NoCall
<1>3. /\ waiting'[d] = (IF LastToLeave(d) THEN None ELSE waiting[d])
      /\ \A e \in Doc : e # d => waiting'[e] = waiting[e]
  BY <1>1 DEF TypeOK
<1>4. \A e \in Doc : e # d => ParkedOn(e)' = ParkedOn(e)
  BY <1>0, <1>2 DEF ParkedOn, Parked
<1>5. waiting'[d] # None => ParkedOn(d)' # {}
  <2>1. SUFFICES ASSUME ~LastToLeave(d), ParkedOn(d)' = {} PROVE FALSE
    BY <1>3
  <2>2. ParkedOn(d) \subseteq {c}
    BY <1>2, <2>1 DEF ParkedOn, Parked
  <2>3. IsFiniteSet({c}) /\ Cardinality({c}) = 1
    BY FS_Singleton
  <2>4. Cardinality(ParkedOn(d)) <= 1
    BY <2>2, <2>3, FS_Subset
  <2>5. QED
    BY <2>1, <2>4 DEF LastToLeave, WaitInv, CallersAttached
<1>6. \A e \in Doc : waiting'[e] # None => waiting'[e] = waiting[e]
  BY <1>3
<1>7. \A e, f \in Doc : waiting'[e] # None /\ waiting'[e] = waiting'[f] => e = f
  BY <1>6 DEF EventInv
<1>8. ASSUME NEW e \in Doc, waiting'[e] # None
      PROVE  call'[waiting'[e]].pc # "idle" /\ ParkedOn(e)' # {}
  <2>1. waiting'[e] = waiting[e] /\ waiting[e] # None /\ waiting[e] \in Caller
    BY <1>6, <1>8 DEF TypeOK
  <2>2. call'[waiting[e]].pc # "idle"
    BY <1>2, <2>1 DEF EventInv
  <2>3. ParkedOn(e)' # {}
    BY <1>4, <1>5, <1>8, <2>1 DEF EventInv
  <2>4. QED
    BY <2>1, <2>2, <2>3
<1>9. \A b \in signalled' : call'[b].pc # "idle"
  BY <1>1, <1>2 DEF TypeOK, EventInv
<1>10. QED
  BY <1>7, <1>8, <1>9 DEF EventInv

\* The steps that answer, publish or withdraw a result map to the service's
\* steps, one by one.
LEMMA PublishIsBroadcast ==
  ASSUME ServiceInv, MaxCompleted >= Cardinality(Doc),
         NEW d \in Doc, NEW result \in Result, Publish(d, result)
  PROVE  Answers!Publish(d, result)
<1>1. /\ call' = call
      /\ signalled' = signalled \cup ({waiting[d]} \ {None})
      /\ \A e \in Doc : e # d => completed'[e] = completed[e]
  BY PublishKeepsEvents DEF ServiceInv
<1>2. completed' = [completed EXCEPT ![d] = result]
  <2>1. completed'[d] = result /\ completed' \in [Doc -> Result \cup {None}]
    BY PublishType DEF ServiceInv, Publish, CacheResult
  <2>2. QED
    BY <1>1, <2>1 DEF ServiceInv, TypeOK
<1>3. ASSUME NEW c \in Caller
      PROVE  Waiters'[c] = IF Answers!Asleep(c, d) THEN [Waiters[c] EXCEPT !.state = "awake"]
                                                    ELSE Waiters[c]
  <2>1. /\ Waiters[c] = [state |-> WaiterState(c), doc |-> call[c].doc, answer |-> call[c].result]
        /\ Waiters'[c] = [state |-> WaiterState(c)', doc |-> call[c].doc,
                          answer |-> call[c].result]
    BY <1>1 DEF Waiters
  <2>2. CASE ~Parked(c)
    <3>1. WaiterState(c) = call[c].pc /\ WaiterState(c)' = call[c].pc
      BY <1>1, <2>2 DEF WaiterState, Parked
    <3>2. call[c].pc # "asleep"
      BY DEF ServiceInv, TypeOK
    <3>3. QED
      BY <2>1, <3>1, <3>2 DEF Answers!Asleep
  <2>3. CASE Parked(c)
    <3>1. /\ call[c].doc \in Doc /\ call[c].event \in Caller
          /\ waiting[call[c].doc] = call[c].event
      BY <2>3 DEF ServiceInv, TypeOK, WaitInv, CallersAttached
    <3>2. /\ WaiterState(c) = IF call[c].event \in signalled THEN "awake" ELSE "asleep"
          /\ WaiterState(c)' = IF call[c].event \in signalled' THEN "awake" ELSE "asleep"
      BY <1>1, <2>3 DEF WaiterState, Parked
    <3>3. call[c].event # None
      BY <3>1, NoneAssumption
    <3>4. CASE call[c].doc = d
      <4>1. call[c].event \in signalled'
        BY <1>1, <3>1, <3>3, <3>4
      <4>2. WaiterState(c)' = "awake"
        BY <3>2, <4>1
      <4>3. QED
        BY <2>1, <3>2, <3>4, <4>2 DEF Answers!Asleep
    <3>5. CASE call[c].doc # d
      <4>1. call[c].event # waiting[d]
        BY <3>1, <3>3, <3>5 DEF ServiceInv, EventInv
      <4>2. call[c].event \in signalled' <=> call[c].event \in signalled
        BY <1>1, <4>1
      <4>3. WaiterState(c)' = WaiterState(c)
        BY <3>2, <4>2
      <4>4. QED
        BY <2>1, <3>5, <4>3 DEF Answers!Asleep
    <3>6. QED
      BY <3>4, <3>5
  <2>4. QED
    BY <2>2, <2>3
<1>4. Waiters' = [c \in Caller |-> Waiters'[c]]
  BY DEF Waiters
<1>5. QED
  BY <1>2, <1>3, <1>4 DEF Answers!Publish

\* One caller's record changes; the others see what they saw.
LEMMA OneWaiterMoves ==
  ASSUME ServiceInv, NEW c \in Caller, UNCHANGED signalled,
         \A b \in Caller : b # c => call'[b] = call[b]
  PROVE  Waiters' = [Waiters EXCEPT ![c] = [state |-> WaiterState(c)', doc |-> call'[c].doc,
                                            answer |-> call'[c].result]]
<1>1. \A b \in Caller : b # c => WaiterState(b)' = WaiterState(b)
  BY DEF WaiterState, Parked
<1>2. QED
  BY <1>1 DEF Waiters

LEMMA WaiterOf ==
  ASSUME ServiceInv, NEW c \in Caller
  PROVE  /\ Waiters[c].state = WaiterState(c) /\ Waiters[c].doc = call[c].doc
         /\ WaiterState(c) = "idle" <=> call[c].pc = "idle"
         /\ WaiterState(c) \in {"asleep", "awake"} <=> Parked(c)
         /\ WaiterState(c) = "awake" <=> Parked(c) /\ call[c].event \in signalled
BY DEF ServiceInv, TypeOK, Waiters, WaiterState, Parked

LEMMA AnswerAtOnceIsAnswer ==
  ASSUME ServiceInv, NEW c \in Caller, NEW d \in Doc, WaitReturnsAtOnce(c, d)
  PROVE  \E result \in Result : Answers!AnswerAtOnce(c, d, result)
<1>1. PICK result : result = IF d \in Cached THEN completed[d] ELSE ResultOf(row[d])
  OBVIOUS
<1>2. result \in Result /\ completed[d] \in {None, result}
  BY <1>1 DEF ServiceInv, TypeOK, WaitReturnsAtOnce, ResultOf, Result, Terminal, Failed, Cached
<1>3. /\ call[c].pc = "idle" /\ signalled' = signalled /\ completed' = completed
      /\ call' = [call EXCEPT ![c] = Returned(result)]
  BY <1>1 DEF WaitReturnsAtOnce, cache
<1>4. /\ \A b \in Caller : b # c => call'[b] = call[b]
      /\ call'[c] = [pc |-> "returned", doc |-> None, event |-> None, result |-> result]
  BY <1>3 DEF ServiceInv, TypeOK, Returned, NoCall
<1>5. WaiterState(c)' = "returned"
  BY <1>4 DEF WaiterState, Parked
<1>6. Waiters' = [Waiters EXCEPT ![c] = Answers!Returned(result)]
  BY <1>3, <1>4, <1>5, OneWaiterMoves DEF Answers!Returned
<1>7. Waiters[c].state = "idle"
  BY <1>3, WaiterOf
<1>8. QED
  BY <1>2, <1>3, <1>6, <1>7 DEF Answers!AnswerAtOnce

LEMMA ParkingIsWaiting ==
  ASSUME ServiceInv, NEW c \in Caller, NEW d \in Doc, WaitParks(c, d)
  PROVE  Answers!Wait(c, d)
<1> PICK event : event = EventFor(c, d)
  OBVIOUS
<1>1. /\ call[c].pc = "idle" /\ d \notin Cached
      /\ signalled' = signalled /\ completed' = completed
      /\ call' = [call EXCEPT ![c] =
                    [pc |-> "parked", doc |-> d, event |-> event, result |-> None]]
  BY DEF WaitParks, cache
<1>2. /\ \A b \in Caller : b # c => call'[b] = call[b]
      /\ call'[c] = [pc |-> "parked", doc |-> d, event |-> event, result |-> None]
  BY <1>1 DEF ServiceInv, TypeOK
<1>3. WaiterState(c)' = IF event \in signalled THEN "awake" ELSE "asleep"
  BY <1>1, <1>2 DEF WaiterState, Parked
<1>4. event \in signalled <=> \E b \in Caller : Answers!Awake(b, d)
  <2>1. ASSUME NEW b \in Caller, Answers!Awake(b, d) PROVE event \in signalled
    <3>1. Parked(b) /\ call[b].event \in signalled /\ call[b].doc = d
      BY <2>1, WaiterOf DEF Answers!Awake
    <3>2. waiting[d] = call[b].event /\ call[b].event \in Caller
      BY <3>1 DEF ServiceInv, TypeOK, WaitInv, CallersAttached
    <3>3. QED
      BY <3>1, <3>2, NoneAssumption DEF EventFor
  <2>2. ASSUME event \in signalled PROVE \E b \in Caller : Answers!Awake(b, d)
    <3>1. event # c
      BY <1>1, <2>2 DEF ServiceInv, EventInv
    <3>2. event = waiting[d] /\ waiting[d] # None
      BY <3>1 DEF EventFor
    <3>3. PICK b \in Caller : Parked(b) /\ call[b].doc = d
      BY <3>2 DEF ServiceInv, EventInv, ParkedOn
    <3>4. call[b].event = event
      BY <3>2, <3>3 DEF ServiceInv, WaitInv, CallersAttached
    <3>5. QED
      BY <2>2, <3>3, <3>4, WaiterOf DEF Answers!Awake
  <2>3. QED
    BY <2>1, <2>2
<1>5. Waiters' = [Waiters EXCEPT ![c] =
                    Answers!Waiting(IF event \in signalled THEN "awake" ELSE "asleep", d)]
  BY <1>1, <1>2, <1>3, OneWaiterMoves DEF Answers!Waiting
<1>6. Waiters[c].state = "idle" /\ completed[d] = None
  BY <1>1, WaiterOf DEF Cached
<1>7. QED
  BY <1>1, <1>4, <1>5, <1>6 DEF Answers!Wait

LEMMA LeavingIsAnswer ==
  ASSUME ServiceInv, NEW c \in Caller, Parked(c), Leave(c)
  PROVE  Answers!Answer(c)
<1>1. /\ signalled' = signalled /\ completed' = completed
      /\ call' = [call EXCEPT ![c] = Returned(completed[call[c].doc])]
  BY DEF Leave, cache
<1>2. /\ \A b \in Caller : b # c => call'[b] = call[b]
      /\ call'[c] = [pc |-> "returned", doc |-> None, event |-> None,
                     result |-> completed[call[c].doc]]
  BY <1>1 DEF ServiceInv, TypeOK, Returned, NoCall
<1>3. WaiterState(c)' = "returned"
  BY <1>2 DEF WaiterState, Parked
<1>4. Waiters' = [Waiters EXCEPT ![c] = Answers!Returned(completed[call[c].doc])]
  BY <1>1, <1>2, <1>3, OneWaiterMoves DEF Answers!Returned
<1>5. Waiters[c].state \in {"asleep", "awake"} /\ Waiters[c].doc = call[c].doc
  BY WaiterOf
<1>6. QED
  BY <1>1, <1>4, <1>5 DEF Answers!Answer

LEMMA CrashForgets == Crash => Answers!Forget /\ EventInv'
<1> SUFFICES ASSUME Crash PROVE Answers!Forget /\ EventInv'
  OBVIOUS
<1>1. /\ completed' = [d \in Doc |-> None]
      /\ call' = [c \in Caller |-> NoCall]
      /\ waiting' = [d \in Doc |-> None]
      /\ signalled' = {}
  BY DEF Crash
<1>2. \A c \in Caller : WaiterState(c)' = "idle"
  BY <1>1 DEF WaiterState, Parked, NoCall
<1>3. Waiters' = [c \in Caller |-> Answers!Idle]
  BY <1>1, <1>2 DEF Waiters, Answers!Idle, NoCall
<1>4. EventInv'
  BY <1>1 DEF EventInv
<1>5. QED
  BY <1>1, <1>3, <1>4 DEF Answers!Forget

LEMMA KeptIsStutter == CallersKept => UNCHANGED Answers!vars
BY DEF CallersKept, waiters, Answers!vars, Waiters, WaiterState, Parked

LEMMA ServiceStep ==
  ASSUME MaxCompleted >= Cardinality(Doc), ServiceInv, [Next]_vars
  PROVE  EventInv' /\ [Answers!Next]_Answers!vars
<1> USE DEF registry, queues, workers, cache, bounds
<1> DEFINE Refined == EventInv' /\ (Answers!Next \/ CallersKept)
<1>0. ServiceInv /\ CallersKept => Refined
  BY KeptEventInv DEF ServiceInv, CallersKept
<1>1. ASSUME NEW d \in Doc, \/ Register(d) \/ Rescan(d) \/ EnqueueMissing(d) \/ Delete(d)
                            \/ PutUnblocks(d) \/ PutRejected(d) \/ StartupIndex(d)
      PROVE  CallersKept
  BY <1>1 DEF CallersKept, Register, Rescan, EnqueueMissing, Delete, PutUnblocks, PutRejected,
              StartupIndex
<1>2. ASSUME NEW d \in Doc, Enqueue(d) PROVE Refined
  <2>1. UNCHANGED waiters /\ completed' = [completed EXCEPT ![d] = None]
    BY <1>2 DEF Enqueue
  <2>2. Waiters' = Waiters
    BY <2>1 DEF waiters, Waiters, WaiterState, Parked
  <2>3. Answers!Withdraw(d)
    BY <2>1, <2>2 DEF Answers!Withdraw
  <2>4. QED
    BY <2>1, <2>3, KeptEventInv DEF ServiceInv, Answers!Next
<1>3. ASSUME NEW d \in Doc, NEW result \in Result, Publish(d, result) PROVE Refined
  BY <1>3, PublishEventInv, PublishIsBroadcast DEF Answers!Next
<1>4. ASSUME NEW d \in Doc, Cancel(d) PROVE Refined
  BY <1>3, <1>4 DEF Cancel, Result
<1>5. ASSUME NEW w \in Worker, Succeed(w) \/ Fail(w) PROVE Refined
  <2>1. job[w] \in Doc
    BY <1>5 DEF ServiceInv, TypeOK, Succeed, Fail
  <2>2. Publish(job[w], "completed") \/ Publish(job[w], "failed")
    BY <1>5 DEF Succeed, Fail, Finish
  <2>3. QED
    BY <1>3, <2>1, <2>2 DEF Result
<1>6. ASSUME NEW w \in Worker, NEW t \in Task,
             SkipCancelled(w, t) \/ BeginAttempt(w, t) \/ RowVanished(w, t)
      PROVE  CallersKept
  BY <1>6 DEF CallersKept, SkipCancelled, BeginAttempt, RowVanished
<1>7. ASSUME NEW w \in Worker, ExtractionDone(w) \/ EnterLock(w) \/ LeaveLock(w)
      PROVE  CallersKept
  BY <1>7 DEF CallersKept, ExtractionDone, EnterLock, LeaveLock
<1>8. ASSUME NEW c \in Caller, NEW d \in Doc, WaitReturnsAtOnce(c, d) PROVE Refined
  <2>1. EventInv'
    <3>1. /\ call[c].pc = "idle" /\ waiting' = waiting /\ signalled' = signalled
          /\ call'[c].pc = "returned"
          /\ \A b \in Caller : b # c => call'[b] = call[b]
      BY <1>8 DEF ServiceInv, TypeOK, WaitReturnsAtOnce, Returned, NoCall
    <3>2. \A e \in Doc : ParkedOn(e)' = ParkedOn(e)
      BY <3>1 DEF ParkedOn, Parked
    <3>3. \A b \in Caller : call[b].pc # "idle" => call'[b].pc # "idle"
      BY <3>1
    <3>4. \A e \in Doc : waiting[e] # None => waiting[e] \in Caller
      BY DEF ServiceInv, TypeOK
    <3>5. signalled \subseteq Caller
      BY DEF ServiceInv, TypeOK
    <3>6. QED
      BY <3>1, <3>2, <3>3, <3>4, <3>5 DEF ServiceInv, EventInv
  <2>2. QED
    BY <1>8, <2>1, AnswerAtOnceIsAnswer DEF Answers!Next
<1>9. ASSUME NEW c \in Caller, NEW d \in Doc, WaitParks(c, d) PROVE Refined
  BY <1>9, WaitParksEventInv, ParkingIsWaiting DEF Answers!Next
<1>10. ASSUME NEW c \in Caller, WaitWakes(c) \/ WaitTimesOut(c) PROVE Refined
  <2>1. Parked(c) /\ Leave(c)
    BY <1>10 DEF WaitWakes, WaitTimesOut, Parked
  <2>2. QED
    BY <2>1, LeaveEventInv, LeavingIsAnswer DEF Answers!Next
<1>11. ASSUME Start \/ StartupLock \/ StartupDone \/ Stop \/ UNCHANGED vars
       PROVE  CallersKept
  BY <1>11 DEF CallersKept, Start, StartupLock, StartupDone, Stop, vars
<1>12. ASSUME Crash PROVE Refined
  BY <1>12, CrashForgets DEF Answers!Next
<1>13. Refined
  BY <1>0, <1>1, <1>2, <1>4, <1>5, <1>6, <1>7, <1>8, <1>9, <1>10, <1>11, <1>12 DEF Next
<1>14. QED
  BY <1>13, KeptIsStutter

LEMMA ServiceInit == Init => EventInv /\ Answers!Init
<1> SUFFICES ASSUME Init PROVE EventInv /\ Answers!Init
  OBVIOUS
<1>1. EventInv
  BY DEF Init, EventInv
<1>2. Waiters = [c \in Caller |-> Answers!Idle]
  BY DEF Init, Waiters, WaiterState, Parked, NoCall, Answers!Idle
<1>3. QED
  BY <1>1, <1>2 DEF Init, Answers!Init

\* While the result cache holds every document, the events, reference counts
\* and caches of wait_for implement WaitService: a result wakes all callers
\* asleep on its document and no other, nobody falls asleep on a remembered
\* result, and a caller answers with the result as it is when it returns.
THEOREM EventsAreBroadcasts ==
  ASSUME MaxCompleted >= Cardinality(Doc)
  PROVE  Spec => AnswersAreBroadcast
<1>1. Init => WaitInv /\ EventInv /\ Answers!Init
  BY WaitInvInit, ServiceInit
<1>2. TypeOK /\ WaitInv /\ EventInv /\ [Next]_vars =>
        WaitInv' /\ EventInv' /\ [Answers!Next]_Answers!vars
  BY WaitInvStep, ServiceStep DEF ServiceInv
<1>3. QED
  BY <1>1, <1>2, TypeCorrect, PTL DEF Spec, AnswersAreBroadcast, Answers!Spec

-----------------------------------------------------------------------------
(* The rows of the registry follow DocumentLifecycle.                        *)

\* The startup index_all only ever has documents before it that have a row: it
\* selected them under the lock that deletion waits for.
BacklogHasRow == /\ backlog # {} => phase = "indexing"
                 /\ \A d \in backlog : HasRow(d)

RowsInv == TypeOK /\ IndexingHasRow /\ BacklogHasRow

LEMMA BacklogStep ==
  ASSUME TypeOK, BacklogHasRow, [Next]_vars
  PROVE  BacklogHasRow'
<1> USE DEF registry, queues, workers, cache, waiters, bounds
<1>1. CASE ClientStep
  <2>1. \A d \in Doc : HasRow(d) => HasRow(d)'
    BY <1>1, ClientsKeepWorkers DEF WorkersKept
  <2>2. ASSUME NEW d \in Doc, \/ Register(d) \/ Rescan(d) \/ Enqueue(d) \/ EnqueueMissing(d)
                              \/ PutUnblocks(d) \/ PutRejected(d) \/ Cancel(d)
        PROVE  UNCHANGED <<backlog, phase>>
    BY <2>2 DEF Register, Rescan, Enqueue, EnqueueMissing, PutUnblocks, PutRejected, Cancel
  <2>3. ASSUME NEW w \in Worker, NEW t \in Task, SkipCancelled(w, t)
        PROVE  UNCHANGED <<backlog, phase>>
    BY <2>3 DEF SkipCancelled
  <2>4. ASSUME NEW c \in Caller, NEW d \in Doc, WaitReturnsAtOnce(c, d) \/ WaitParks(c, d)
        PROVE  UNCHANGED <<backlog, phase>>
    BY <2>4 DEF WaitReturnsAtOnce, WaitParks
  <2>5. ASSUME NEW c \in Caller, WaitWakes(c) \/ WaitTimesOut(c)
        PROVE  UNCHANGED <<backlog, phase>>
    BY <2>5 DEF WaitWakes, WaitTimesOut, Leave
  <2>6. CASE UNCHANGED <<backlog, phase>>
    BY <2>1, <2>6 DEF TypeOK, BacklogHasRow
  <2>7. ASSUME NEW d \in Doc, StartupIndex(d) PROVE BacklogHasRow'
    <3>1. backlog' = backlog \ {d} /\ phase' = phase
      BY <2>7 DEF StartupIndex
    <3>2. QED
      BY <2>1, <3>1 DEF TypeOK, BacklogHasRow
  <2>8. CASE StartupLock
    <3>1. /\ phase' = "indexing" /\ row' = row
          /\ \A d \in backlog' : row[d] \in {"extracted", "indexed"}
      BY <2>8 DEF StartupLock
    <3>2. QED
      BY <3>1 DEF BacklogHasRow, HasRow, NoRow
  <2>9. CASE StartupDone \/ Stop \/ UNCHANGED vars
    BY <2>1, <2>9 DEF StartupDone, Stop, vars, TypeOK, BacklogHasRow
  <2>10. QED
    BY <1>1, <2>2, <2>3, <2>4, <2>5, <2>6, <2>7, <2>8, <2>9 DEF ClientStep
<1>2. ASSUME NEW d \in Doc, Delete(d) PROVE BacklogHasRow'
  BY <1>2 DEF Delete, LockFree, BacklogHasRow
<1>3. ASSUME NEW w \in Worker, NEW t \in Task, BeginAttempt(w, t) PROVE BacklogHasRow'
  BY <1>3 DEF TypeOK, BeginAttempt, BacklogHasRow, HasRow, NoRow
<1>4. ASSUME NEW w \in Worker, NEW t \in Task, RowVanished(w, t) PROVE BacklogHasRow'
  BY <1>4 DEF RowVanished, BacklogHasRow, HasRow
<1>5. ASSUME NEW w \in Worker, ExtractionDone(w) \/ EnterLock(w) \/ LeaveLock(w)
      PROVE  BacklogHasRow'
  BY <1>5 DEF TypeOK, ExtractionDone, EnterLock, LeaveLock, BacklogHasRow, HasRow, NoRow
<1>6. ASSUME NEW w \in Worker, Succeed(w) PROVE BacklogHasRow'
  BY <1>6 DEF Succeed, Finish, BacklogHasRow, HasRow
<1>7. ASSUME NEW w \in Worker, Fail(w) PROVE BacklogHasRow'
  BY <1>7 DEF TypeOK, Fail, Finish, BacklogHasRow, HasRow, NoRow
<1>8. CASE Start
  <2>1. backlog' = {}
    BY <1>8 DEF Start, BacklogHasRow
  <2>2. QED
    BY <2>1 DEF BacklogHasRow
<1>9. CASE Crash
  BY <1>9 DEF Crash, BacklogHasRow
<1>10. QED
  BY <1>1, <1>2, <1>3, <1>4, <1>5, <1>6, <1>7, <1>8, <1>9, StepCases

\* How the mapped variables move when one row, or one worker, does.
LEMMA OneRowMoves ==
  ASSUME TypeOK, NEW d \in Doc, NEW s, row' = [row EXCEPT ![d] = s]
  PROVE  Status' = [Status EXCEPT ![d] = StatusOf(s)]
BY DEF TypeOK, Status

LEMMA OneTaskMoves ==
  ASSUME TypeOK, NEW w \in Worker, NEW p, NEW j,
         pc' = [pc EXCEPT ![w] = p], job' = [job EXCEPT ![w] = j]
  PROVE  Tasks' = [Tasks EXCEPT ![w] = [doc |-> j, stage |-> StageOf(p)]]
BY DEF TypeOK, Tasks

LEMMA RowOf ==
  ASSUME TypeOK, NEW d \in Doc
  PROVE  /\ Rows!Known(d) <=> HasRow(d)
         /\ Status[d] = StatusOf(row[d]) /\ Status[d] \in Rows!DocStatus
         /\ \A s \in RowStatus \ Failed : Status[d] = s <=> row[d] = s
BY DEF TypeOK, Rows!Known, HasRow, NoRow, Status, StatusOf, RowStatus, Terminal, Failed,
       Rows!DocStatus

LEMMA TaskOf ==
  ASSUME TypeOK, NEW w \in Worker
  PROVE  /\ Tasks[w].doc = job[w] /\ Tasks[w].stage = StageOf(pc[w])
         /\ Tasks[w].stage = "free" <=> pc[w] = "idle"
         /\ Tasks[w].stage = "extracting" <=> pc[w] \in {"extracting", "locking", "failing"}
         /\ Tasks[w].stage = "indexing" <=> pc[w] = "indexing"
         /\ Tasks[w].stage = "finishing" <=> pc[w] = "finishing"
BY DEF TypeOK, Tasks, StageOf

LEMMA LockIsOne == ASSUME TypeOK PROVE LockFree <=> Rows!NobodyIndexes
<1>1. Session = "indexing" <=> phase = "indexing"
  BY DEF Session
<1>2. QED
  BY <1>1, TaskOf DEF LockFree, Rows!NobodyIndexes

\* The steps that leave rows, tokens, blocked puts, tasks and the session alone.
RowsKept == UNCHANGED <<Session, Status, attempt, blocked, Tasks>>

LEMMA ClientsFollow ==
  ASSUME RowsInv, NEW d \in Doc,
         \/ Register(d) \/ Rescan(d) \/ Enqueue(d) \/ EnqueueMissing(d) \/ PutUnblocks(d)
         \/ PutRejected(d) \/ Cancel(d) \/ Delete(d) \/ StartupIndex(d)
  PROVE  Rows!Next \/ RowsKept
<1> USE DEF RowsInv, registry, queues, workers, cache, waiters, bounds
<1>1. Tasks' = Tasks
  BY DEF Register, Rescan, Enqueue, EnqueueMissing, PutUnblocks, PutRejected, Cancel, Delete,
         StartupIndex, Tasks
<1>2. CASE Register(d)
  <2>1. /\ row[d] = "unregistered" /\ row' = [row EXCEPT ![d] = "queued"]
        /\ attempt' = attempt /\ blocked' = blocked /\ Session' = Session
    BY <1>2 DEF Register, Session
  <2>2. Status' = [Status EXCEPT ![d] = "queued"] /\ Status[d] # "deleted"
    BY <2>1, OneRowMoves, RowOf DEF StatusOf, Failed, RowStatus, NoRow
  <2>3. Rows!Submit(d)
    BY <1>1, <2>1, <2>2 DEF Rows!Submit
  <2>4. QED
    BY <2>3 DEF Rows!Next
<1>3. CASE Rescan(d)
  <2>1. /\ HasRow(d) /\ attempt' = attempt /\ blocked' = blocked /\ Session' = Session
        /\ row' = row \/ row' = [row EXCEPT ![d] = "queued"]
    BY <1>3 DEF Rescan, Session
  <2>2. CASE row' = row
    BY <1>1, <2>1, <2>2 DEF RowsKept, Status
  <2>3. CASE row' = [row EXCEPT ![d] = "queued"]
    <3>1. Status' = [Status EXCEPT ![d] = "queued"] /\ Status[d] # "deleted"
      BY <2>1, <2>3, OneRowMoves, RowOf DEF StatusOf, Failed, RowStatus, NoRow, HasRow
    <3>2. Rows!Submit(d)
      BY <1>1, <2>1, <3>1 DEF Rows!Submit
    <3>3. QED
      BY <3>2 DEF Rows!Next
  <2>4. QED
    BY <2>1, <2>2, <2>3
<1>4. CASE Enqueue(d)
  <2>1. /\ HasRow(d) /\ attempt' = attempt /\ Session' = Session
        /\ row' = [row EXCEPT ![d] = "queued"]
        /\ blocked' \in {blocked, [blocked EXCEPT ![d] = @ + 1]}
    BY <1>4 DEF Enqueue, Session
  <2>2. Status' = [Status EXCEPT ![d] = "queued"] /\ Status[d] # "deleted"
    BY <2>1, OneRowMoves, RowOf DEF StatusOf, Failed, RowStatus, NoRow, HasRow
  <2>3. Rows!Submit(d)
    BY <1>1, <2>1, <2>2 DEF Rows!Submit
  <2>4. QED
    BY <2>3 DEF Rows!Next
<1>5. CASE EnqueueMissing(d)
  BY <1>1, <1>5 DEF EnqueueMissing, RowsKept, Session, Status
<1>6. CASE PutUnblocks(d)
  <2>1. Rows!Accept(d)
    BY <1>1, <1>6 DEF PutUnblocks, Rows!Accept, Session, Status
  <2>2. QED
    BY <2>1 DEF Rows!Next
<1>7. CASE PutRejected(d)
  <2>1. /\ blocked[d] > 0 /\ blocked' = [blocked EXCEPT ![d] = @ - 1]
        /\ attempt' = attempt /\ Session' = Session
        /\ row' = [row EXCEPT ![d] = IF HasRow(d) THEN "failed" ELSE row[d]]
    BY <1>7 DEF PutRejected, Session
  <2>2. Status' = [Status EXCEPT ![d] = IF HasRow(d) THEN "failed" ELSE Status[d]]
    BY <2>1, OneRowMoves, RowOf DEF StatusOf, Failed
  <2>3. Rows!Reject(d)
    BY <1>1, <2>1, <2>2, RowOf DEF Rows!Reject
  <2>4. QED
    BY <2>3 DEF Rows!Next
<1>8. CASE Cancel(d)
  <2>1. /\ phase = "on" /\ row[d] = "queued" /\ row' = [row EXCEPT ![d] = "cancelled"]
        /\ attempt' = attempt /\ blocked' = blocked /\ phase' = phase
    BY <1>8 DEF Cancel
  <2>2. Status' = [Status EXCEPT ![d] = "cancelled"] /\ Status[d] = "queued"
    BY <2>1, OneRowMoves, RowOf DEF StatusOf, Failed
  <2>3. Rows!Cancel(d)
    BY <1>1, <2>1, <2>2 DEF Rows!Cancel, Session
  <2>4. QED
    BY <2>3 DEF Rows!Next
<1>9. CASE Delete(d)
  <2>1. /\ LockFree /\ HasRow(d) /\ row' = [row EXCEPT ![d] = "deleted"]
        /\ attempt' = [attempt EXCEPT ![d] = None] /\ blocked' = blocked /\ Session' = Session
    BY <1>9 DEF Delete, Session
  <2>2. Status' = [Status EXCEPT ![d] = "deleted"]
    BY <2>1, OneRowMoves DEF StatusOf, Failed
  <2>3. Rows!Delete(d)
    BY <1>1, <2>1, <2>2, RowOf, LockIsOne DEF Rows!Delete
  <2>4. QED
    BY <2>3 DEF Rows!Next
<1>10. CASE StartupIndex(d)
  <2>1. /\ phase = "indexing" /\ HasRow(d) /\ phase' = phase
        /\ attempt' = attempt /\ blocked' = blocked
        /\ row' = row \/ row' = [row EXCEPT ![d] = "indexed"]
    BY <1>10 DEF StartupIndex, BacklogHasRow
  <2>2. CASE row' = row
    BY <1>1, <2>1, <2>2 DEF RowsKept, Status, Session
  <2>3. CASE row' = [row EXCEPT ![d] = "indexed"]
    <3>1. Status' = [Status EXCEPT ![d] = "indexed"]
      BY <2>3, OneRowMoves DEF StatusOf, Failed
    <3>2. Rows!Reindex(d)
      BY <1>1, <2>1, <3>1, RowOf DEF Rows!Reindex, Session
    <3>3. QED
      BY <3>2 DEF Rows!Next
  <2>4. QED
    BY <2>1, <2>2, <2>3
<1>11. QED
  BY <1>2, <1>3, <1>4, <1>5, <1>6, <1>7, <1>8, <1>9, <1>10

LEMMA WorkersFollow ==
  ASSUME RowsInv, NEW w \in Worker,
         \/ \E t \in Task : SkipCancelled(w, t) \/ BeginAttempt(w, t) \/ RowVanished(w, t)
         \/ ExtractionDone(w) \/ EnterLock(w) \/ LeaveLock(w) \/ Succeed(w) \/ Fail(w)
  PROVE  Rows!Next \/ RowsKept
<1> USE DEF RowsInv, registry, queues, workers, cache, waiters, bounds
<1>1. Session' = Session /\ blocked' = blocked
  BY DEF SkipCancelled, BeginAttempt, RowVanished, ExtractionDone, EnterLock, LeaveLock,
         Succeed, Fail, Finish, Session
<1>2. ASSUME NEW t \in Task, SkipCancelled(w, t) \/ RowVanished(w, t) PROVE RowsKept
  BY <1>1, <1>2 DEF SkipCancelled, RowVanished, RowsKept, Status, Tasks
<1>3. ASSUME NEW t \in Task, BeginAttempt(w, t) PROVE Rows!Next
  <2>1. PICK d \in Doc : d = t[1]
    BY DEF Task
  <2>2. /\ phase # "off" /\ pc[w] = "idle" /\ HasRow(d)
        /\ pc' = [pc EXCEPT ![w] = "extracting"] /\ job' = [job EXCEPT ![w] = d]
        /\ row' = [row EXCEPT ![d] = "processing"] /\ attempt' = [attempt EXCEPT ![d] = w]
    BY <1>3, <2>1 DEF BeginAttempt, Take, StoreToken
  <2>3. Tasks' = [Tasks EXCEPT ![w] = [doc |-> d, stage |-> "extracting"]]
    BY <2>2, OneTaskMoves DEF StageOf
  <2>4. Status' = [Status EXCEPT ![d] = "processing"]
    BY <2>2, OneRowMoves DEF StatusOf, Failed
  <2>5. Rows!Begin(w, d)
    BY <1>1, <2>2, <2>3, <2>4, RowOf, TaskOf DEF Rows!Begin, Rows!Task, Session
  <2>6. QED
    BY <2>5 DEF Rows!Next
<1>4. CASE ExtractionDone(w)
  <2>1. Tasks' = Tasks
    BY <1>4 DEF ExtractionDone, TypeOK, Tasks, StageOf
  <2>2. QED
    BY <1>1, <1>4, <2>1 DEF ExtractionDone, RowsKept, Status
<1>5. CASE EnterLock(w)
  <2>1. PICK d \in Doc : d = job[w]
    BY <1>5 DEF EnterLock, TypeOK
  <2>2. /\ pc[w] = "locking" /\ LockFree /\ attempt' = attempt /\ job' = job
        /\ pc' = [pc EXCEPT ![w] = IF HasRow(d) THEN "indexing" ELSE "failing"]
        /\ row' = [row EXCEPT ![d] = IF HasRow(d) THEN "extracted" ELSE row[d]]
    BY <1>5, <2>1 DEF EnterLock
  <2>3. CASE HasRow(d)
    <3>1. Tasks' = [Tasks EXCEPT ![w].stage = "indexing"]
      BY <2>2, <2>3 DEF TypeOK, Tasks, StageOf
    <3>2. Status' = [Status EXCEPT ![d] = "extracted"]
      BY <2>2, <2>3, OneRowMoves DEF StatusOf, Failed
    <3>3. Rows!Extracted(w)
      BY <1>1, <2>1, <2>2, <2>3, <3>1, <3>2, RowOf, TaskOf, LockIsOne DEF Rows!Extracted
    <3>4. QED
      BY <3>3 DEF Rows!Next
  <2>4. CASE ~HasRow(d)
    <3>1. Tasks' = Tasks /\ row' = row
      BY <2>2, <2>4 DEF TypeOK, Tasks, StageOf
    <3>2. QED
      BY <1>1, <2>2, <3>1 DEF RowsKept, Status
  <2>5. QED
    BY <2>3, <2>4
<1>6. CASE LeaveLock(w)
  <2>1. PICK d \in Doc : d = job[w]
    BY <1>6 DEF LeaveLock, TypeOK
  <2>2. /\ pc[w] = "indexing" /\ HasRow(d) /\ attempt' = attempt /\ job' = job
        /\ pc' = [pc EXCEPT ![w] = "finishing"]
        /\ row' = row \/ row' = [row EXCEPT ![d] = "indexed"]
    BY <1>6, <2>1 DEF LeaveLock, IndexingHasRow
  <2>3. Tasks' = [Tasks EXCEPT ![w].stage = "finishing"]
    BY <2>2 DEF TypeOK, Tasks, StageOf
  <2>4. Status' \in {Status, [Status EXCEPT ![d] = "indexed"]}
    <3>1. CASE row' = row
      BY <3>1 DEF Status
    <3>2. CASE row' = [row EXCEPT ![d] = "indexed"]
      BY <3>2, OneRowMoves DEF StatusOf, Failed
    <3>3. QED
      BY <2>2, <3>1, <3>2
  <2>5. Rows!Indexed(w)
    BY <1>1, <2>1, <2>2, <2>3, <2>4, RowOf, TaskOf DEF Rows!Indexed
  <2>6. QED
    BY <2>5 DEF Rows!Next
<1>7. CASE Succeed(w)
  <2>1. /\ pc[w] = "finishing" /\ attempt' = attempt /\ row' = row
        /\ pc' = [pc EXCEPT ![w] = "idle"] /\ job' = [job EXCEPT ![w] = None]
    BY <1>7 DEF Succeed, Finish
  <2>2. Tasks' = [Tasks EXCEPT ![w] = [doc |-> None, stage |-> "free"]]
    BY <2>1, OneTaskMoves DEF StageOf
  <2>3. Rows!Succeed(w)
    BY <1>1, <2>1, <2>2, TaskOf DEF Rows!Succeed, Rows!Free, Rows!Task, Status
  <2>4. QED
    BY <2>3 DEF Rows!Next
<1>8. CASE Fail(w)
  <2>1. PICK d \in Doc : d = job[w]
    BY <1>8 DEF Fail, TypeOK
  <2>2. PICK error \in {"failed", "failed_permanent"} :
          /\ pc[w] \in {"extracting", "failing"} /\ attempt' = attempt
          /\ pc' = [pc EXCEPT ![w] = "idle"] /\ job' = [job EXCEPT ![w] = None]
          /\ row' = [row EXCEPT ![d] =
                       IF row[d] = "processing" /\ attempt[d] = w THEN error ELSE row[d]]
    BY <1>8, <2>1 DEF Fail, Finish, OwnsRow
  <2>3. Tasks' = [Tasks EXCEPT ![w] = [doc |-> None, stage |-> "free"]]
    BY <2>2, OneTaskMoves DEF StageOf
  <2>4. StatusOf(error) = "failed"
    BY DEF StatusOf, Failed
  <2>5. Status' = [Status EXCEPT ![d] =
                     IF Status[d] = "processing" /\ attempt[d] = w THEN "failed" ELSE Status[d]]
    <3>1. PICK own : own = (row[d] = "processing" /\ attempt[d] = w)
      OBVIOUS
    <3>2. Status[d] = "processing" <=> row[d] = "processing"
      BY DEF TypeOK, Status, StatusOf, Failed
    <3>3. Status' = [Status EXCEPT ![d] = StatusOf(IF own THEN error ELSE row[d])]
      BY <2>2, <3>1, OneRowMoves
    <3>4. StatusOf(IF own THEN error ELSE row[d]) = IF own THEN "failed" ELSE Status[d]
      BY <2>4, RowOf
    <3>5. QED
      BY <3>1, <3>2, <3>3, <3>4
  <2>6. Rows!Fail(w)
    BY <1>1, <2>1, <2>2, <2>3, <2>5, TaskOf DEF Rows!Fail, Rows!Free, Rows!Task
  <2>7. QED
    BY <2>6 DEF Rows!Next
<1>9. QED
  BY <1>2, <1>3, <1>4, <1>5, <1>6, <1>7, <1>8

LEMMA SessionsFollow ==
  ASSUME RowsInv, Start \/ StartupLock \/ StartupDone \/ Stop \/ Crash
  PROVE  Rows!Next \/ RowsKept
<1> USE DEF RowsInv, registry, queues, workers, cache, waiters, bounds
<1>1. CASE Start
  <2>1. /\ phase = "off" /\ UNCHANGED <<attempt, blocked, pc, job>>
        /\ phase' = IF \E d \in Doc : row'[d] = "extracted" THEN "starting" ELSE "on"
        /\ row' \in [Doc -> RowStatus]
    BY <1>1, RecoverType DEF Start
  <2>2. \A d \in Doc : \/ row'[d] = row[d]
                       \/ row'[d] = "queued" /\ row[d] \in {"queued", "processing"} \cup Failed
                       \/ row'[d] = "cancelled" /\ row[d] \in Failed
    <3>1. PICK taken \in SUBSET Doc, rejected \in SUBSET Doc, migrated \in SUBSET Doc :
            Recover(taken, rejected, migrated)
      BY <1>1 DEF Start
    <3>2. /\ taken \cup rejected \subseteq Orphan \cup {d \in Doc : row[d] = "failed"}
          /\ migrated \subseteq {d \in Doc : row[d] = "failed_legacy"}
      BY <3>1 DEF Recover
    <3>3. row' = [d \in Doc |-> IF d \in taken \cup rejected THEN "queued"
                                ELSE IF d \in migrated THEN "cancelled" ELSE row[d]]
      BY <3>1 DEF Recover
    <3>4. QED
      BY <3>2, <3>3 DEF Orphan, Failed
  <2>3. \A d \in Doc : Status'[d] \in Rows!Recovered(Status[d])
    BY <2>2 DEF Status, StatusOf, Failed, Rows!Recovered
  <2>4. Status' \in [Doc -> Rows!DocStatus]
    BY <2>1 DEF Status, StatusOf, RowStatus, NoRow, Terminal, Failed, Rows!DocStatus
  <2>5. \A d \in Doc : Status'[d] = "extracted" <=> row'[d] = "extracted"
    BY DEF Status, StatusOf, Failed
  <2>6. Session = "off" /\ Session' = IF \E d \in Doc : Status'[d] = "extracted"
                                      THEN "starting" ELSE "on"
    BY <2>1, <2>5 DEF Session
  <2>7. Rows!Start
    BY <2>1, <2>3, <2>4, <2>6 DEF Rows!Start, Tasks
  <2>8. QED
    BY <2>7 DEF Rows!Next
<1>2. CASE StartupLock
  <2>1. Rows!StartIndexing
    BY <1>2, LockIsOne DEF StartupLock, Rows!StartIndexing, Session, Status, Tasks
  <2>2. QED
    BY <2>1 DEF Rows!Next
<1>3. CASE StartupDone
  <2>1. Rows!Ready
    BY <1>3 DEF StartupDone, Rows!Ready, Session, Status, Tasks
  <2>2. QED
    BY <2>1 DEF Rows!Next
<1>4. CASE Stop
  BY <1>4 DEF Stop, RowsKept, Session, Status, Tasks
<1>5. CASE Crash
  <2>1. /\ phase # "off" /\ phase' = "off" /\ row' = row
        /\ attempt' = [d \in Doc |-> None] /\ blocked' = [d \in Doc |-> 0]
        /\ pc' = [w \in Worker |-> "idle"] /\ job' = [w \in Worker |-> None]
    BY <1>5 DEF Crash
  <2>2. Session # "off" /\ Session' = "off" /\ Status' = Status
    BY <2>1 DEF Session, Status
  <2>3. Tasks' = [w \in Worker |-> Rows!Free]
    BY <2>1 DEF Tasks, StageOf, Rows!Free, Rows!Task
  <2>4. Rows!End
    BY <2>1, <2>2, <2>3 DEF Rows!End
  <2>5. QED
    BY <2>4 DEF Rows!Next
<1>6. QED
  BY <1>1, <1>2, <1>3, <1>4, <1>5

LEMMA CallersKeepRows ==
  ASSUME NEW c \in Caller,
         \/ \E d \in Doc : WaitReturnsAtOnce(c, d) \/ WaitParks(c, d)
         \/ WaitWakes(c) \/ WaitTimesOut(c)
  PROVE  RowsKept
<1>1. UNCHANGED <<registry, phase, queues, workers>>
  BY DEF WaitReturnsAtOnce, WaitParks, WaitWakes, WaitTimesOut, Leave
<1>2. QED
  BY <1>1 DEF registry, queues, workers, RowsKept, Session, Status, Tasks

LEMMA LifecycleStep == ASSUME RowsInv, [Next]_vars PROVE [Rows!Next]_Rows!vars
<1>1. ASSUME UNCHANGED vars PROVE RowsKept
  BY <1>1 DEF vars, registry, queues, workers, RowsKept, Session, Status, Tasks
<1>2. Rows!Next \/ RowsKept
  <2>1. CASE UNCHANGED vars
    BY <1>1, <2>1
  <2>2. ASSUME NEW d \in Doc,
               \/ Register(d) \/ Rescan(d) \/ Enqueue(d) \/ EnqueueMissing(d) \/ PutUnblocks(d)
               \/ PutRejected(d) \/ Cancel(d) \/ Delete(d) \/ StartupIndex(d)
        PROVE  Rows!Next \/ RowsKept
    BY <2>2, ClientsFollow, Zenon
  <2>3. ASSUME NEW w \in Worker,
               \/ \E t \in Task : SkipCancelled(w, t) \/ BeginAttempt(w, t) \/ RowVanished(w, t)
               \/ ExtractionDone(w) \/ EnterLock(w) \/ LeaveLock(w) \/ Succeed(w) \/ Fail(w)
        PROVE  Rows!Next \/ RowsKept
    BY <2>3, WorkersFollow, Zenon
  <2>4. ASSUME NEW c \in Caller,
               \/ \E d \in Doc : WaitReturnsAtOnce(c, d) \/ WaitParks(c, d)
               \/ WaitWakes(c) \/ WaitTimesOut(c)
        PROVE  Rows!Next \/ RowsKept
    BY <2>4, CallersKeepRows, Zenon
  <2>5. ASSUME Start \/ StartupLock \/ StartupDone \/ Stop \/ Crash
        PROVE  Rows!Next \/ RowsKept
    BY <2>5, SessionsFollow, Zenon
  <2>6. CASE Next
    BY <2>2, <2>3, <2>4, <2>5, <2>6, Zenon DEF Next
  <2>7. QED
    BY <2>1, <2>6
<1>3. RowsKept => UNCHANGED Rows!vars
  BY DEF RowsKept, Rows!vars
<1>4. QED
  BY <1>2, <1>3

LEMMA LifecycleInit == Init => BacklogHasRow /\ Rows!Init
<1> SUFFICES ASSUME Init PROVE BacklogHasRow /\ Rows!Init
  OBVIOUS
<1>1. BacklogHasRow
  BY DEF Init, BacklogHasRow
<1>2. Session = "off" /\ Status \in [Doc -> {"unregistered", "failed"}]
  BY DEF Init, Session, Status, StatusOf, Failed
<1>3. Tasks = [w \in Worker |-> Rows!Free]
  BY DEF Init, Tasks, StageOf, Rows!Free, Rows!Task
<1>4. QED
  BY <1>1, <1>2, <1>3 DEF Init, Rows!Init

\* The processor with its queues, caches, events, cancellation markers and
\* restarts implements DocumentLifecycle: nothing but the steps of that module
\* ever changes a row, its token or what a worker does.
THEOREM RowsFollowTheirLifecycle == Spec => RowsFollowLifecycle
<1>1. Init => BacklogHasRow /\ Rows!Init
  BY LifecycleInit
<1>2. TypeOK /\ BacklogHasRow /\ [Next]_vars => BacklogHasRow'
  BY BacklogStep
<1>3. TypeOK /\ IndexingHasRow /\ BacklogHasRow /\ [Next]_vars => [Rows!Next]_Rows!vars
  BY LifecycleStep DEF RowsInv
<1>4. QED
  BY <1>1, <1>2, <1>3, TypeCorrect, IndexedDocumentsExist, PTL
     DEF Spec, RowsFollowLifecycle, Rows!Spec
=============================================================================

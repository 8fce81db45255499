------------------------- MODULE DocumentProcessor -------------------------
(***************************************************************************)
(* The background processor of processing/queue.py: a bounded priority     *)
(* queue of documents, the workers that extract and index them, the        *)
(* callers that wait for a document, cancellation, and what a restart      *)
(* recovers from the registry.                                             *)
(*                                                                         *)
(* Everything runs on one asyncio event loop, so the code between two      *)
(* awaits is one action here.  A worker awaits the queue, the extraction   *)
(* thread, the collection write lock, the indexer and the release of the   *)
(* lock: these are the values of pc.  The registry (row, attempt) survives *)
(* a crash; every other variable is memory of the process.                 *)
(***************************************************************************)
EXTENDS Naturals, FiniteSets, Functions

CONSTANTS Doc,            \* documents
          Worker,         \* worker coroutines of the processor
          Caller,         \* calls of wait_for; each is made at most once a session
          None,           \* no document, worker, caller or result
          MaxQueue,       \* max_queue_size
          MaxCompleted,   \* max_completed_cache
          Cancellable,    \* the documents a user may cancel
          Deletable,      \* the documents a user may delete
          PutTimesOut,    \* whether a blocked queue.put may time out
          MaxSubmissions, \* bound: documents handed over for processing
          MaxCrashes      \* bound: ends of the process

ASSUME DocAssumption == IsFiniteSet(Doc)
ASSUME CallerAssumption == IsFiniteSet(Caller)
ASSUME NoneAssumption == None \notin Doc \cup Worker \cup Caller
ASSUME LimitAssumption == MaxQueue \in Nat \ {0} /\ MaxCompleted \in Nat \ {0}
ASSUME BoundAssumption == MaxSubmissions \in Nat /\ MaxCrashes \in Nat
ASSUME UserAssumption == Cancellable \subseteq Doc /\ Deletable \subseteq Doc

(***************************************************************************)
(* What a registry row says.  FAILED rows are split by the class of their  *)
(* extraction_error, which is all that recovery tells apart: "failed" may  *)
(* be retried, "failed_permanent" carries a DRM marker, "failed_legacy" is *)
(* a cancellation as older versions recorded it.                           *)
(***************************************************************************)
Failed == {"failed", "failed_permanent", "failed_legacy"}
Terminal == {"extracted", "indexed", "cancelled"} \cup Failed
NoRow == {"unregistered", "deleted"}
RowStatus == NoRow \cup {"queued", "processing"} \cup Terminal

Result == {"completed", "failed", "cancelled"}

ASSUME ResultAssumption == None \notin Result

ResultOf(status) == CASE status \in {"extracted", "indexed"} -> "completed"
                      [] status \in Failed                   -> "failed"
                      [] status = "cancelled"                -> "cancelled"

\* A queued task is its document and its priority: 0 submitted, 1 orphaned by
\* a restart, 2 failed before a restart.
Task == Doc \X (0..2)

VARIABLES
  row,         \* documents.extraction_status (with the error's class)
  attempt,     \* processing_attempts.token: the worker whose attempt it names
  phase,       \* of the process: off, starting, indexing, on, stopping
  backlog,     \* documents the startup index_all has still to index
  pending,     \* registered or scanned documents not yet handed to enqueue
  blocked,     \* enqueue calls awaiting space in the queue
  queue,       \* the PriorityQueue: how many of each task it holds
  pc, job,     \* of each worker: where it awaits, and its task's document
  inProgress,  \* the keys of in_progress
  completed,   \* the cached results
  older,       \* insertion order of completed: pairs <<earlier, later>>
  cancelled,   \* markers that make a worker skip a task
  waiting,     \* the registered event of a document, named by its creator
  waiterCount, \* _waiter_counts, 0 for a missing key
  signalled,   \* events that have been set
  call,        \* each wait_for call: pc, document, event and what it returned
  submissions, crashes

registry == <<row, attempt>>
queues == <<pending, blocked, queue>>
workers == <<pc, job, inProgress>>
cache == <<completed, older>>
waiters == <<waiting, waiterCount, signalled, call>>
bounds == <<submissions, crashes>>
vars == <<registry, phase, backlog, queues, workers, cache, cancelled, waiters, bounds>>

-----------------------------------------------------------------------------
NoCall == [pc |-> "idle", doc |-> None, event |-> None, result |-> None]
Returned(result) == [NoCall EXCEPT !.pc = "returned", !.result = result]

\* A registry is empty or was left by an older version.
Init ==
  /\ row \in [Doc -> {"unregistered", "failed_legacy"}]
  /\ attempt = [d \in Doc |-> None]
  /\ phase = "off"
  /\ backlog = {}
  /\ pending = [d \in Doc |-> 0]
  /\ blocked = [d \in Doc |-> 0]
  /\ queue = [t \in Task |-> 0]
  /\ pc = [w \in Worker |-> "idle"]
  /\ job = [w \in Worker |-> None]
  /\ inProgress = {}
  /\ completed = [d \in Doc |-> None]
  /\ older = {}
  /\ cancelled = {}
  /\ waiting = [d \in Doc |-> None]
  /\ waiterCount = [d \in Doc |-> 0]
  /\ signalled = {}
  /\ call = [c \in Caller |-> NoCall]
  /\ submissions = 0
  /\ crashes = 0

HasRow(d) == row[d] \notin NoRow
QueueSize == SumFunction(queue)

\* The collection write lock is free of workers and of the startup index_all;
\* scans and deletions hold it within one action.
\* Fault: operations on the collection are not serialized.
LockIgnored == TRUE
LockFree == phase # "indexing" /\ \A w \in Worker : pc[w] # "indexing"

-----------------------------------------------------------------------------
(* The result cache and the wait events. *)

Cached == {d \in Doc : completed[d] # None}

\* The key next(iter(completed)) yields.
Oldest == CHOOSE d \in Cached : \A e \in Cached \ {d} : <<d, e>> \in older

\* Dropping a key from the dict.
ForgetOrder(d) == {p \in older : p[1] # d /\ p[2] # d}

\* _cache_result: a new key goes to the end of the dict, a known one keeps its
\* place; past the limit the oldest key goes, with its event and waiter count.
CacheResult(d, result) ==
  LET full    == d \notin Cached /\ Cardinality(Cached) >= MaxCompleted
      evicted == IF full THEN {Oldest} ELSE {}
  IN /\ completed' = [e \in Doc |-> IF e = d THEN result
                                    ELSE IF e \in evicted THEN None ELSE completed[e]]
     /\ older' = {p \in older : p[1] \notin evicted /\ p[2] \notin evicted}
                   \cup (IF d \in Cached THEN {} ELSE (Cached \ evicted) \X {d})
     /\ waiting' = [e \in Doc |-> IF e \in evicted THEN None ELSE waiting[e]]
     /\ waiterCount' = [e \in Doc |-> IF e \in evicted THEN 0 ELSE waiterCount[e]]

\* Fault: the result is cached and the event forgotten.
SignalForgotten(d) == UNCHANGED signalled

\* event.set() for the event registered after the eviction.
Signal(d) == signalled' = signalled \cup ({waiting'[d]} \ {None})

Publish(d, result) == CacheResult(d, result) /\ Signal(d) /\ UNCHANGED call

\* The finally block of wait_for: the last waiter removes the event.
\* Fault: whoever leaves removes it.
AnyToLeave(d) == TRUE
LastToLeave(d) == waiterCount[d] <= 1

Leave(c) ==
  LET d == call[c].doc
      last == LastToLeave(d)
  IN /\ call' = [call EXCEPT ![c] = Returned(completed[d])]
     /\ waiterCount' = [waiterCount EXCEPT ![d] = IF last THEN 0 ELSE @ - 1]
     /\ waiting' = [waiting EXCEPT ![d] = IF last THEN None ELSE @]
     /\ UNCHANGED <<registry, phase, backlog, queues, workers, cache, cancelled, signalled, bounds>>

\* wait_for answers from the cache, or from the registry when nobody works on
\* the document.
WaitReturnsAtOnce(c, d) ==
  /\ phase = "on" /\ call[c].pc = "idle" /\ HasRow(d)
  /\ \/ d \in Cached
     \/ d \notin inProgress /\ row[d] \in Terminal
  /\ call' = [call EXCEPT ![c] =
       Returned(IF d \in Cached THEN completed[d] ELSE ResultOf(row[d]))]
  /\ UNCHANGED <<registry, phase, backlog, queues, workers, cache, cancelled,
                 waiting, waiterCount, signalled, bounds>>

\* Otherwise it parks on the document's event, creating it when there is none.
\* Fault: every caller registers an event of its own.
OwnEvent(c, d) == c
EventFor(c, d) == IF waiting[d] = None THEN c ELSE waiting[d]

WaitParks(c, d) ==
  LET event == EventFor(c, d)
  IN /\ phase = "on" /\ call[c].pc = "idle" /\ HasRow(d)
     /\ d \notin Cached
     /\ d \in inProgress \/ row[d] \notin Terminal
     /\ waiting' = [waiting EXCEPT ![d] = event]
     /\ waiterCount' = [waiterCount EXCEPT ![d] = @ + 1]
     /\ call' = [call EXCEPT ![c] =
          [pc |-> "parked", doc |-> d, event |-> event, result |-> None]]
     /\ UNCHANGED <<registry, phase, backlog, queues, workers, cache, cancelled, signalled, bounds>>

WaitWakes(c) == /\ call[c].pc = "parked" /\ call[c].event \in signalled
                /\ Leave(c)

WaitTimesOut(c) == /\ call[c].pc = "parked" /\ call[c].event \notin signalled
                   /\ Leave(c)

-----------------------------------------------------------------------------
(* Submitting, cancelling and deleting documents. *)

\* register_document: the row is committed before the processor is asked for,
\* which starts the processor when there is none.
Register(d) ==
  /\ phase # "stopping" /\ row[d] = "unregistered"
  /\ submissions < MaxSubmissions
  /\ row' = [row EXCEPT ![d] = "queued"]
  /\ pending' = [pending EXCEPT ![d] = @ + 1]
  /\ submissions' = submissions + 1
  /\ UNCHANGED <<attempt, phase, backlog, blocked, queue, workers, cache, cancelled, waiters, crashes>>

\* A scan found the file of a registered document modified (the row's status
\* stays) or back after a deletion (the row is queued); the scan runs under the
\* collection lock and its submissions follow when the lock is released.
Rescan(d) ==
  /\ phase = "on" /\ LockFree /\ HasRow(d)
  /\ submissions < MaxSubmissions
  /\ \/ UNCHANGED row
     \/ row' = [row EXCEPT ![d] = "queued"]
  /\ pending' = [pending EXCEPT ![d] = @ + 1]
  /\ submissions' = submissions + 1
  /\ UNCHANGED <<attempt, phase, backlog, blocked, queue, workers, cache, cancelled, waiters, crashes>>

\* enqueue up to its await: the row is queued and the cached result dropped,
\* then the task is put, or the call blocks on the full queue.
Enqueue(d) ==
  /\ phase = "on" /\ pending[d] > 0 /\ HasRow(d)
  /\ pending' = [pending EXCEPT ![d] = @ - 1]
  /\ row' = [row EXCEPT ![d] = "queued"]
  /\ completed' = [completed EXCEPT ![d] = None]
  /\ older' = ForgetOrder(d)
  /\ IF QueueSize < MaxQueue
     THEN queue' = [queue EXCEPT ![<<d, 0>>] = @ + 1] /\ UNCHANGED blocked
     ELSE blocked' = [blocked EXCEPT ![d] = @ + 1] /\ UNCHANGED queue
  /\ UNCHANGED <<attempt, phase, backlog, workers, cancelled, waiters, bounds>>

\* The row was deleted meanwhile: update raises and the submission is dropped.
EnqueueMissing(d) ==
  /\ phase = "on" /\ pending[d] > 0 /\ ~HasRow(d)
  /\ pending' = [pending EXCEPT ![d] = @ - 1]
  /\ UNCHANGED <<registry, phase, backlog, blocked, queue, workers, cache, cancelled, waiters, bounds>>

\* A blocked put finds space.
PutUnblocks(d) ==
  /\ phase # "off" /\ blocked[d] > 0 /\ QueueSize < MaxQueue
  /\ blocked' = [blocked EXCEPT ![d] = @ - 1]
  /\ queue' = [queue EXCEPT ![<<d, 0>>] = @ + 1]
  /\ UNCHANGED <<registry, phase, backlog, pending, workers, cache, cancelled, waiters, bounds>>

\* A blocked put times out: the row, if it is still there, becomes FAILED
\* whatever it says by now.  Nothing is cached and no event is set.
PutRejected(d) ==
  /\ PutTimesOut /\ phase # "off" /\ blocked[d] > 0
  /\ blocked' = [blocked EXCEPT ![d] = @ - 1]
  /\ row' = [row EXCEPT ![d] = IF HasRow(d) THEN "failed" ELSE @]
  /\ UNCHANGED <<attempt, phase, backlog, pending, queue, workers, cache, cancelled, waiters, bounds>>

\* cancel, where it answers True.
Cancel(d) ==
  /\ phase = "on" /\ d \in Cancellable
  /\ d \notin inProgress /\ row[d] = "queued"
  /\ cancelled' = cancelled \cup {d}
  /\ row' = [row EXCEPT ![d] = "cancelled"]
  /\ Publish(d, "cancelled")
  /\ UNCHANGED <<attempt, phase, backlog, queues, workers, bounds>>

\* delete_document_artifacts, under the collection lock; the token goes with
\* the row.
Delete(d) ==
  /\ phase # "stopping" /\ LockFree /\ d \in Deletable /\ HasRow(d)
  /\ row' = [row EXCEPT ![d] = "deleted"]
  /\ attempt' = [attempt EXCEPT ![d] = None]
  /\ UNCHANGED <<phase, backlog, queues, workers, cache, cancelled, waiters, bounds>>

-----------------------------------------------------------------------------
(* The workers. *)

\* The tasks the PriorityQueue may hand out next.  Tasks of one priority leave
\* in any order: a blocked put enters the queue after younger tasks did.
\* Fault: a worker takes a task from an empty queue.
ReadyWhenEmpty == {t \in Task : \A u \in Task : queue[u] > 0 => t[2] <= u[2]}
Ready == {t \in Task : /\ queue[t] > 0
                       /\ \A u \in Task : queue[u] > 0 => t[2] <= u[2]}

\* A worker that awaits the queue when stop is called may still get a task.
Take(w, t) == /\ phase # "off" /\ pc[w] = "idle" /\ t \in Ready
              /\ queue' = [queue EXCEPT ![t] = @ - 1]

\* A task whose document carries a marker is dropped, and the marker with it.
SkipCancelled(w, t) ==
  /\ Take(w, t) /\ t[1] \in cancelled
  /\ cancelled' = cancelled \ {t[1]}
  /\ UNCHANGED <<registry, phase, backlog, pending, blocked, workers, cache, waiters, bounds>>

\* The processing_attempts row is inserted or replaced.
\* Fault: INSERT OR IGNORE leaves a second attempt the first one's token.
KeepToken(d, w) == [attempt EXCEPT ![d] = IF @ = None THEN w ELSE @]
StoreToken(d, w) == [attempt EXCEPT ![d] = w]

\* del in_progress[d].
\* Fault: the entry outlives the task.
KeepEntry(d) == inProgress
DropEntry(d) == inProgress \ {d}

\* The attempt starts with a fresh token, and extraction on the thread pool.
BeginAttempt(w, t) ==
  LET d == t[1]
  IN /\ Take(w, t) /\ d \notin cancelled /\ HasRow(d)
     /\ pc' = [pc EXCEPT ![w] = "extracting"]
     /\ job' = [job EXCEPT ![w] = d]
     /\ inProgress' = inProgress \cup {d}
     /\ row' = [row EXCEPT ![d] = "processing"]
     /\ attempt' = StoreToken(d, w)
     /\ UNCHANGED <<phase, backlog, pending, blocked, cache, cancelled, waiters, bounds>>

\* start_processing_attempt raises for a deleted document: the worker logs it,
\* caches nothing and signals nobody.
RowVanished(w, t) ==
  /\ Take(w, t) /\ t[1] \notin cancelled /\ ~HasRow(t[1])
  /\ inProgress' = DropEntry(t[1])
  /\ UNCHANGED <<registry, phase, backlog, pending, blocked, pc, job, cache, cancelled, waiters, bounds>>

\* Extraction returned: the worker asks for the collection lock.
ExtractionDone(w) ==
  /\ pc[w] = "extracting"
  /\ pc' = [pc EXCEPT ![w] = "locking"]
  /\ UNCHANGED <<registry, phase, backlog, queues, job, inProgress, cache, cancelled, waiters, bounds>>

\* Under the lock the row becomes EXTRACTED, whoever's attempt it names, and
\* indexing begins; without a row, update raises.
EnterLock(w) ==
  LET d == job[w]
  IN /\ pc[w] = "locking" /\ LockFree
     /\ pc' = [pc EXCEPT ![w] = IF HasRow(d) THEN "indexing" ELSE "failing"]
     /\ row' = [row EXCEPT ![d] = IF HasRow(d) THEN "extracted" ELSE @]
     /\ UNCHANGED <<attempt, phase, backlog, queues, job, inProgress, cache, cancelled, waiters, bounds>>

\* index_document succeeds and marks the row, or fails and is only logged; the
\* lock is released either way.
LeaveLock(w) ==
  /\ pc[w] = "indexing"
  /\ pc' = [pc EXCEPT ![w] = "finishing"]
  /\ \/ row' = [row EXCEPT ![job[w]] = "indexed"]
     \/ UNCHANGED row
  /\ UNCHANGED <<attempt, phase, backlog, queues, job, inProgress, cache, cancelled, waiters, bounds>>

\* The end of a task: cache the result, set the event, and clean up.  Another
\* worker of the same document may have removed the in_progress entry already;
\* the KeyError then skips the marker's removal.
Finish(w, result) ==
  LET d == job[w]
  IN /\ Publish(d, result)
     /\ pc' = [pc EXCEPT ![w] = "idle"]
     /\ job' = [job EXCEPT ![w] = None]
     /\ inProgress' = DropEntry(d)
     /\ cancelled' = IF d \in inProgress THEN cancelled \ {d} ELSE cancelled
     /\ UNCHANGED <<attempt, phase, backlog, queues, bounds>>

Succeed(w) == /\ pc[w] = "finishing"
              /\ Finish(w, "completed")
              /\ UNCHANGED row

\* Fault: the token is not compared.
OwnsRowAnyAttempt(w) == row[job[w]] = "processing"

\* fail_processing_attempt: FAILED is written only while the row is PROCESSING
\* under this very attempt.
OwnsRow(w) == row[job[w]] = "processing" /\ attempt[job[w]] = w

Fail(w) ==
  /\ pc[w] \in {"extracting", "failing"}
  /\ \E error \in {"failed", "failed_permanent"} :
       row' = [row EXCEPT ![job[w]] = IF OwnsRow(w) THEN error ELSE @]
  /\ Finish(w, "failed")

-----------------------------------------------------------------------------
(* The life of the process. *)

\* Fault: recovery forgets the documents a crash interrupted.
OrphanQueuedOnly == {d \in Doc : row[d] = "queued"}

Orphan == {d \in Doc : row[d] \in {"queued", "processing"}}
Unread == Orphan \cup {d \in Doc : row[d] \in Failed}

\* _reenqueue_orphaned_documents.  When every unread row fits the queue, each
\* orphan and each retriable failure is queued and each legacy cancellation
\* migrated.  Otherwise put_nowait fails at one document, which is queued in
\* the registry only, and the rest is left as it was.
Recover(taken, rejected, migrated) ==
  /\ IF Cardinality(Unread) <= MaxQueue
     THEN /\ taken = Orphan \cup {d \in Doc : row[d] = "failed"}
          /\ rejected = {}
          /\ migrated = {d \in Doc : row[d] = "failed_legacy"}
     ELSE /\ taken \subseteq Orphan \cup {d \in Doc : row[d] = "failed"}
          /\ Cardinality(taken) <= MaxQueue
          /\ rejected \subseteq (Orphan \cup {d \in Doc : row[d] = "failed"}) \ taken
          /\ Cardinality(rejected) <= 1
          /\ rejected # {} => Cardinality(taken) = MaxQueue
          /\ migrated \subseteq {d \in Doc : row[d] = "failed_legacy"}
  /\ queue' = [t \in Task |->
       IF t[1] \in taken /\ t[2] = (IF t[1] \in Orphan THEN 1 ELSE 2) THEN 1 ELSE 0]
  /\ row' = [d \in Doc |-> IF d \in taken \cup rejected THEN "queued"
                           ELSE IF d \in migrated THEN "cancelled" ELSE row[d]]

\* start: workers, recovery, and index_all when some row is EXTRACTED.
Start ==
  /\ phase = "off"
  /\ \E taken, rejected, migrated \in SUBSET Doc : Recover(taken, rejected, migrated)
  /\ phase' = IF \E d \in Doc : row'[d] = "extracted" THEN "starting" ELSE "on"
  /\ UNCHANGED <<attempt, backlog, pending, blocked, workers, cache, cancelled, waiters, bounds>>

\* index_all takes the lock and selects EXTRACTED and INDEXED rows whose
\* completion hash is not stored.
StartupLock ==
  /\ phase = "starting" /\ LockFree
  /\ phase' = "indexing"
  /\ backlog' \in SUBSET {d \in Doc : row[d] \in {"extracted", "indexed"}}
  /\ UNCHANGED <<registry, queues, workers, cache, cancelled, waiters, bounds>>

StartupIndex(d) ==
  /\ phase = "indexing" /\ d \in backlog
  /\ backlog' = backlog \ {d}
  /\ \/ row' = [row EXCEPT ![d] = "indexed"]
     \/ UNCHANGED row
  /\ UNCHANGED <<attempt, phase, queues, workers, cache, cancelled, waiters, bounds>>

\* index_all is done, or raised; either way the processor is ready.
StartupDone ==
  /\ phase = "indexing"
  /\ phase' = "on"
  /\ backlog' = {}
  /\ UNCHANGED <<registry, queues, workers, cache, cancelled, waiters, bounds>>

\* stop: clients are gone, and the workers get some time to finish.
Stop ==
  /\ phase = "on" /\ crashes < MaxCrashes
  /\ phase' = "stopping"
  /\ UNCHANGED <<registry, backlog, queues, workers, cache, cancelled, waiters, bounds>>

\* The process ends, after stop or by a crash; only the registry remains.
Crash ==
  /\ phase # "off" /\ crashes < MaxCrashes
  /\ crashes' = crashes + 1
  /\ attempt' = [d \in Doc |-> None]
  /\ phase' = "off"
  /\ backlog' = {}
  /\ pending' = [d \in Doc |-> 0]
  /\ blocked' = [d \in Doc |-> 0]
  /\ queue' = [t \in Task |-> 0]
  /\ pc' = [w \in Worker |-> "idle"]
  /\ job' = [w \in Worker |-> None]
  /\ inProgress' = {}
  /\ completed' = [d \in Doc |-> None]
  /\ older' = {}
  /\ cancelled' = {}
  /\ waiting' = [d \in Doc |-> None]
  /\ waiterCount' = [d \in Doc |-> 0]
  /\ signalled' = {}
  /\ call' = [c \in Caller |-> NoCall]
  /\ UNCHANGED <<row, submissions>>

-----------------------------------------------------------------------------
Next ==
  \/ \E d \in Doc : \/ Register(d) \/ Rescan(d) \/ Enqueue(d) \/ EnqueueMissing(d)
                    \/ PutUnblocks(d) \/ PutRejected(d) \/ Cancel(d) \/ Delete(d)
                    \/ StartupIndex(d)
  \/ \E w \in Worker, t \in Task :
       SkipCancelled(w, t) \/ BeginAttempt(w, t) \/ RowVanished(w, t)
  \/ \E w \in Worker : \/ ExtractionDone(w) \/ EnterLock(w) \/ LeaveLock(w)
                       \/ Succeed(w) \/ Fail(w)
  \/ \E c \in Caller, d \in Doc : WaitReturnsAtOnce(c, d) \/ WaitParks(c, d)
  \/ \E c \in Caller : WaitWakes(c) \/ WaitTimesOut(c)
  \/ Start \/ StartupLock \/ StartupDone \/ Stop \/ Crash

Spec == Init /\ [][Next]_vars

\* What the event loop guarantees: a coroutine that can run does run, an
\* extraction and an indexing operation end, a lock that is released is
\* acquired, a process that is stopping exits, and a process is started again.
\* Nothing is assumed of clients, of timeouts or of crashes.
Fairness ==
  /\ \A d \in Doc : /\ WF_vars(Enqueue(d) \/ EnqueueMissing(d))
                    /\ WF_vars(PutUnblocks(d))
  /\ \A w \in Worker :
       /\ WF_vars(\E t \in Task : \/ SkipCancelled(w, t)
                                  \/ BeginAttempt(w, t) \/ RowVanished(w, t))
       /\ WF_vars(ExtractionDone(w) \/ EnterLock(w) \/ LeaveLock(w) \/ Succeed(w) \/ Fail(w))
  /\ \A c \in Caller : WF_vars(WaitWakes(c))
  /\ WF_vars(Start)
  /\ WF_vars(StartupLock)
  /\ WF_vars(StartupDone)
  /\ WF_vars(phase = "stopping" /\ Crash)

FairSpec == Spec /\ Fairness

-----------------------------------------------------------------------------
(* Properties. *)

Parked(c) == call[c].pc = "parked"
ParkedOn(d) == {c \in Caller : Parked(c) /\ call[c].doc = d}

\* Every variable has its type.
TypeOK ==
  /\ row \in [Doc -> RowStatus]
  /\ attempt \in [Doc -> Worker \cup {None}]
  /\ phase \in {"off", "starting", "indexing", "on", "stopping"}
  /\ backlog \subseteq Doc
  /\ pending \in [Doc -> Nat]
  /\ blocked \in [Doc -> Nat]
  /\ queue \in [Task -> Nat]
  /\ pc \in [Worker -> {"idle", "extracting", "locking", "indexing", "finishing", "failing"}]
  /\ job \in [Worker -> Doc \cup {None}]
  /\ \A w \in Worker : pc[w] = "idle" <=> job[w] = None
  /\ inProgress \subseteq Doc
  /\ completed \in [Doc -> Result \cup {None}]
  /\ older \subseteq Doc \X Doc
  /\ cancelled \subseteq Doc
  /\ waiting \in [Doc -> Caller \cup {None}]
  /\ waiterCount \in [Doc -> Nat]
  /\ signalled \subseteq Caller
  /\ call \in [Caller -> [pc : {"idle", "parked", "returned"}, doc : Doc \cup {None},
                          event : Caller \cup {None}, result : Result \cup {None}]]
  /\ \A c \in Caller : Parked(c) => call[c].doc \in Doc /\ call[c].event \in Caller
  /\ submissions \in Nat
  /\ crashes \in Nat

\* A row that says PROCESSING in a running process is being worked on, by the
\* worker whose token it holds and who is therefore able to move it on: a
\* superseded attempt's failure is dropped without stranding the row.
ProcessingOwned ==
  phase # "off" =>
    \A d \in Doc : row[d] = "processing" =>
      \E w \in Worker : /\ attempt[d] = w /\ job[w] = d
                        /\ pc[w] \in {"extracting", "locking"}

\* wait_for's reference counting: every parked caller holds the very event a
\* worker will find in waiting, and the count is the number of parked callers,
\* so that no caller's return takes the event from another.
CallersAttached ==
  /\ \A c \in Caller : Parked(c) => waiting[call[c].doc] = call[c].event
  /\ \A d \in Doc : waiterCount[d] = Cardinality(ParkedOn(d))

\* Once a result is cached no caller of that document sleeps on: caching and
\* signalling are one step for workers and for cancel alike.
NoMissedSignal ==
  \A c \in Caller : Parked(c) /\ call[c].doc \in Cached => call[c].event \in signalled

\* A document that is being indexed has a row: deletion and indexing exclude
\* one another, so no points are written for a deleted document.
IndexingHasRow ==
  \A w \in Worker : pc[w] = "indexing" => HasRow(job[w])

\* An in_progress entry, which makes cancel refuse and wait_for park, always
\* has a worker that will remove it.
InProgressBacked ==
  \A d \in inProgress : \E w \in Worker : job[w] = d

\* A wait event that nobody has set leaves the table only with the last caller
\* that holds it: eviction from the result cache takes no event that a caller
\* still sleeps on.
EventsOutliveEviction ==
  \A d \in Doc : waiting[d] # None /\ waiting[d] \notin signalled /\ waiting'[d] = None =>
    phase' = "off" \/ \E c \in Caller : Parked(c) /\ ~Parked(c)' /\ call[c].doc = d
EvictionSparesSleepers == [][EventsOutliveEviction]_vars

\* A row becomes FAILED only by the attempt that owns it or by a rejected put:
\* the failure of a superseded attempt never overwrites a later outcome.
FailsOwnAttempt ==
  \A d \in Doc : row[d] \notin Failed /\ row'[d] \in Failed =>
    \/ blocked'[d] < blocked[d]
    \/ /\ row[d] = "processing"
       /\ \E w \in Worker : /\ job[w] = d /\ job'[w] = None
                            /\ attempt[d] = w
StaleAttemptsCannotFail == [][FailsOwnAttempt]_vars

\* Someone will still signal the document: a submission, a queued task or a
\* worker exists for it.
InPipeline(d) ==
  \/ pending[d] > 0 \/ blocked[d] > 0
  \/ \E t \in Task : t[1] = d /\ queue[t] > 0
  \/ \E w \in Worker : job[w] = d

\* A row waiting to be processed in a running process has something in the
\* pipeline that will process it; nothing is stranded between registry and
\* queue, by a restart or otherwise.
NoneStranded ==
  phase # "off" =>
    \A d \in Doc : row[d] \in {"queued", "processing"} => InPipeline(d)

\* Every document submitted for processing is settled eventually, whatever
\* crashes happen on the way.
EveryDocumentSettles ==
  \A d \in Doc : row[d] \in {"queued", "processing"} ~> row[d] \in Terminal

\* Every caller of wait_for gets its answer without its timeout expiring.
CallersWake == \A c \in Caller : Parked(c) ~> ~Parked(c)

\* tools/processing.py wait_for_document: "Blocks until the document is fully
\* processed": a caller does not sleep on a document that is settled and that
\* nobody works on.
SettledIsAnswered ==
  \A c \in Caller : Parked(c) /\ call[c].event \notin signalled =>
    row[call[c].doc] \notin Terminal \/ InPipeline(call[c].doc)

\* processing/queue.py cancel: "Track as cancelled so the worker skips it if it
\* is already enqueued": only a new submission revives a cancelled document.
Sticks ==
  \A d \in Doc : row[d] = "cancelled" /\ row'[d] # "cancelled" =>
    \/ row'[d] = "deleted"
    \/ submissions' > submissions \/ pending'[d] < pending[d]
CancellationSticks == [][Sticks]_vars

\* What a caller of wait_for sees of the processor: it is awake once the event
\* it holds has been set.
WaiterState(c) == IF ~Parked(c) THEN call[c].pc
                  ELSE IF call[c].event \in signalled THEN "awake" ELSE "asleep"
Waiters == [c \in Caller |->
  [state |-> WaiterState(c), doc |-> call[c].doc, answer |-> call[c].result]]

Answers == INSTANCE WaitService WITH outcome <- completed, waiter <- Waiters

\* The shared, reference-counted events are a broadcast: a result wakes every
\* caller asleep on its document and no other, whoever created the event,
\* timed out, returned or joined meanwhile.
AnswersAreBroadcast == Answers!Spec

\* What the registry shows of the processor: a row's status, and of each worker
\* its document and whether it has reached the index.
StatusOf(r) == IF r \in Failed THEN "failed" ELSE r
StageOf(p) == IF p = "idle" THEN "free"
              ELSE IF p \in {"locking", "failing"} THEN "extracting" ELSE p
Status == [d \in Doc |-> StatusOf(row[d])]
Tasks == [w \in Worker |-> [doc |-> job[w], stage |-> StageOf(pc[w])]]
Session == IF phase = "stopping" THEN "on" ELSE phase

Rows == INSTANCE DocumentLifecycle
          WITH session <- Session, status <- Status, owner <- attempt,
               offered <- blocked, task <- Tasks

\* Whatever attempts overlap, queues overflow and processes end, a row changes
\* only as DocumentLifecycle allows: FAILED only by the current attempt or a
\* rejected submission, EXTRACTED and INDEXED only while it exists and one at
\* a time, and after its deletion never again.
RowsFollowLifecycle == Rows!Spec
=============================================================================

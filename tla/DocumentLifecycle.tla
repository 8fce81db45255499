------------------------- MODULE DocumentLifecycle -------------------------
(***************************************************************************)
(* The life of a document's registry row as processing/queue.py promises   *)
(* it: who may change the row, from which status and to which, across      *)
(* overlapping attempts, deletions and restarts.  Queues, caches, events   *)
(* and cancellation markers are not part of the promise.                   *)
(***************************************************************************)
EXTENDS Naturals

CONSTANTS Doc,    \* documents
          Worker, \* workers
          None    \* no document, no worker

VARIABLES session, \* off, starting, indexing (the startup index_all), or on
          status,  \* of each document
          owner,   \* the worker of the document's current attempt
          offered, \* submissions of the document that wait for space
          task     \* of each worker: its document, and how far it has come

vars == <<session, status, owner, offered, task>>

Task(d, stage) == [doc |-> d, stage |-> stage]
Free == Task(None, "free")

DocStatus == {"unregistered", "queued", "processing", "extracted", "indexed", "failed",
              "cancelled", "deleted"}
Known(d) == status[d] \notin {"unregistered", "deleted"}

\* Points are written by one worker, or by the startup, at a time, and no
\* document is deleted meanwhile.
NobodyIndexes == session # "indexing" /\ \A w \in Worker : task[w].stage # "indexing"

Init == /\ session = "off"
        /\ status \in [Doc -> {"unregistered", "failed"}]
        /\ owner = [d \in Doc |-> None]
        /\ offered = [d \in Doc |-> 0]
        /\ task = [w \in Worker |-> Free]

-----------------------------------------------------------------------------
(* Submissions. *)

\* Whatever the row says, short of deletion, a submission queues it.
Submit(d) ==
  /\ status[d] # "deleted"
  /\ status' = [status EXCEPT ![d] = "queued"]
  /\ offered' \in {offered, [offered EXCEPT ![d] = @ + 1]}
  /\ UNCHANGED <<session, owner, task>>

Accept(d) == /\ offered[d] > 0
             /\ offered' = [offered EXCEPT ![d] = @ - 1]
             /\ UNCHANGED <<session, status, owner, task>>

Reject(d) == /\ offered[d] > 0
             /\ offered' = [offered EXCEPT ![d] = @ - 1]
             /\ status' = [status EXCEPT ![d] = IF Known(d) THEN "failed" ELSE @]
             /\ UNCHANGED <<session, owner, task>>

\* Only what is queued is cancelled.
Cancel(d) == /\ session = "on" /\ status[d] = "queued"
             /\ status' = [status EXCEPT ![d] = "cancelled"]
             /\ UNCHANGED <<session, owner, offered, task>>

Delete(d) == /\ Known(d) /\ NobodyIndexes
             /\ status' = [status EXCEPT ![d] = "deleted"]
             /\ owner' = [owner EXCEPT ![d] = None]
             /\ UNCHANGED <<session, offered, task>>

-----------------------------------------------------------------------------
(* Attempts. *)

\* An attempt becomes the document's current one; those before it go on.
Begin(w, d) ==
  /\ session # "off" /\ task[w].stage = "free" /\ Known(d)
  /\ task' = [task EXCEPT ![w] = Task(d, "extracting")]
  /\ status' = [status EXCEPT ![d] = "processing"]
  /\ owner' = [owner EXCEPT ![d] = w]
  /\ UNCHANGED <<session, offered>>

Extracted(w) ==
  /\ task[w].stage = "extracting" /\ Known(task[w].doc) /\ NobodyIndexes
  /\ task' = [task EXCEPT ![w].stage = "indexing"]
  /\ status' = [status EXCEPT ![task[w].doc] = "extracted"]
  /\ UNCHANGED <<session, owner, offered>>

\* Indexing may fail, which is only logged.
Indexed(w) ==
  /\ task[w].stage = "indexing" /\ Known(task[w].doc)
  /\ task' = [task EXCEPT ![w].stage = "finishing"]
  /\ status' \in {status, [status EXCEPT ![task[w].doc] = "indexed"]}
  /\ UNCHANGED <<session, owner, offered>>

Succeed(w) == /\ task[w].stage = "finishing"
              /\ task' = [task EXCEPT ![w] = Free]
              /\ UNCHANGED <<session, status, owner, offered>>

\* Only the current attempt fails its document, and only until it is extracted.
Fail(w) ==
  LET d == task[w].doc
  IN /\ task[w].stage = "extracting"
     /\ task' = [task EXCEPT ![w] = Free]
     /\ status' = [status EXCEPT ![d] =
          IF @ = "processing" /\ owner[d] = w THEN "failed" ELSE @]
     /\ UNCHANGED <<session, owner, offered>>

-----------------------------------------------------------------------------
(* Restarts. *)

\* What a restart may make of a row: interrupted work and failures are queued
\* again as far as the queue has space, and cancellations recorded as failures
\* are put right.
Recovered(s) == {s} \cup (IF s \in {"queued", "processing", "failed"} THEN {"queued"} ELSE {})
                    \cup (IF s = "failed" THEN {"cancelled"} ELSE {})

Start == /\ session = "off"
         /\ status' \in [Doc -> DocStatus]
         /\ \A d \in Doc : status'[d] \in Recovered(status[d])
         /\ session' = IF \E d \in Doc : status'[d] = "extracted" THEN "starting" ELSE "on"
         /\ UNCHANGED <<owner, offered, task>>

StartIndexing == /\ session = "starting" /\ NobodyIndexes
                 /\ session' = "indexing"
                 /\ UNCHANGED <<status, owner, offered, task>>

Reindex(d) == /\ session = "indexing" /\ Known(d)
              /\ status' = [status EXCEPT ![d] = "indexed"]
              /\ UNCHANGED <<session, owner, offered, task>>

Ready == /\ session = "indexing"
         /\ session' = "on"
         /\ UNCHANGED <<status, owner, offered, task>>

\* The process ends: rows stay as they are, attempts and submissions do not.
End == /\ session # "off"
       /\ session' = "off"
       /\ owner' = [d \in Doc |-> None]
       /\ offered' = [d \in Doc |-> 0]
       /\ task' = [w \in Worker |-> Free]
       /\ UNCHANGED status

Next ==
  \/ \E d \in Doc : \/ Submit(d) \/ Accept(d) \/ Reject(d) \/ Cancel(d) \/ Delete(d)
                    \/ Reindex(d)
  \/ \E w \in Worker, d \in Doc : Begin(w, d)
  \/ \E w \in Worker : Extracted(w) \/ Indexed(w) \/ Succeed(w) \/ Fail(w)
  \/ Start \/ StartIndexing \/ Ready \/ End

Spec == Init /\ [][Next]_vars
=============================================================================

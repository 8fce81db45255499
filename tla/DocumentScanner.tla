-------------------------- MODULE DocumentScanner ---------------------------
(***************************************************************************)
(* Reconciling the registry with the files on disk: scanning/scanner.py,   *)
(* the scan tools of tools/roots.py that collect what it finds and submit  *)
(* it once the collection lock is free, and the workers and tools whose    *)
(* effect on rows and points a scan meets.  A walk runs without an await,  *)
(* except for its callbacks, but other programs change files at any time.  *)
(***************************************************************************)
EXTENDS Naturals

CONSTANTS Path,     \* supported files below a root, present or not
          Root,     \* document roots
          RootOf,   \* the root a path is in
          Scans,    \* the sets of roots that the scan tools are asked to scan
          Content,  \* what a file may hold, named by its hash
          Doc,      \* document ids
          None,     \* no file, row, root or points
          MaxEvents \* bound: changes of files, tool calls, faults, ends of calls and processes

ASSUME RootAssumption == RootOf \in [Path -> Root]
ASSUME ScansAssumption == Scans \subseteq SUBSET Root

\* The extraction status: "queued" stands for PROCESSING as well.
Row == [path : Path, root : Root \cup {None}, hash : Content,
        status : {"active", "modified", "deleted"},
        ext : {"queued", "extracted", "indexed", "failed"}]
Points == [body : Content, mark : Content]
Task == [doc : Doc, path : Path]

ASSUME NoneAssumption == None \notin Content \cup Doc \cup Root \cup Path \cup Row
ASSUME PointsAssumption == None \notin Points

VARIABLES
  file,     \* content on disk
  row,      \* the registry
  points,   \* what the index stores: the text, and the hash it is marked with
  task,     \* queued for the workers
  flight,   \* extracted by a worker that has yet to report it
  pending,  \* found by a scan whose lock is released, not yet submitted
  pc,       \* of the scan: idle, walk, relocate, sweep, purge
  due,      \* the roots it has still to scan
  root,     \* the root it scans
  baseline, \* the documents of that root when its walk began, by path
  todo,     \* paths still to visit or, from the sweep on, to delete
  seen, complete, found,
  cur,      \* the document being purged
  events,
  steady,   \* history: the files that have not changed since the walk began
  missed,   \* history: contents this walk could not read, or took from their row
  bare,     \* history: documents live again after a scan had purged their points,
            \* and not marked as queued
  astray    \* history: documents whose last submission was lost, or read
            \* something other than the registered content

scan == <<pc, due, root, baseline, todo, seen, complete, found, cur>>
processing == <<task, flight, pending>>
history == <<steady, missed, bare, astray>>
vars == <<file, row, points, processing, scan, events, history>>

-----------------------------------------------------------------------------
HasRow(d) == row[d] # None
Owners(c) == {d \in Doc : HasRow(d) /\ row[d].hash = c}
Present(p) == file[p] # None
Live(d) == HasRow(d) /\ row[d].status # "deleted"

\* A document id that nothing refers to any more stands for a new one.
Free == {d \in Doc : /\ ~HasRow(d) /\ points[d] = None
                     /\ \A t \in task \cup flight \cup pending \cup found : t.doc # d}

\* Awaits at which other coroutines run, and the collection lock's freedom.
\* Fault: the lock is not taken.
Always == TRUE
Awaiting == pc \in {"idle", "relocate", "purge"}
Unlocked == pc = "idle"

Event == events < MaxEvents /\ events' = events + 1
NoEvent == UNCHANGED events

Init ==
  /\ file \in [Path -> Content \cup {None}]
  /\ row = [d \in Doc |-> None]
  /\ points = [d \in Doc |-> None]
  /\ task = {} /\ flight = {} /\ pending = {}
  /\ pc = "idle" /\ due = {} /\ root = None
  /\ baseline = [p \in Path |-> None]
  /\ todo = {} /\ seen = {} /\ complete = TRUE /\ found = {} /\ cur = None
  /\ events = 0
  /\ steady = {} /\ missed = {} /\ bare = {} /\ astray = {}

-----------------------------------------------------------------------------
(* Other programs write, remove and rename files. *)

Edit(changed, new) ==
  /\ Event
  /\ file' = new /\ file' # file
  /\ steady' = steady \ changed
  /\ UNCHANGED <<row, points, processing, scan, missed, bare, astray>>

Write(p, c) == Edit({p}, [file EXCEPT ![p] = c])
Rename(p, q) == /\ Present(p)
                /\ Edit({p, q}, [file EXCEPT ![q] = file[p], ![p] = None])

-----------------------------------------------------------------------------
(* The walk of scan_root. *)

RowsAt(p, r) == {d \in Doc : HasRow(d) /\ row[d].path = p /\ row[d].root = r}

\* The baseline maps a path to one of its rows, if several share it.
BeginRoot(r) ==
  /\ pc' = "walk" /\ root' = r
  /\ baseline' \in
       {b \in [Path -> Doc \cup {None}] :
          \A p \in Path : IF RowsAt(p, r) = {} THEN b[p] = None ELSE b[p] \in RowsAt(p, r)}
  /\ todo' = {p \in Path : RootOf[p] = r}
  /\ seen' = {} /\ complete' = TRUE
  /\ steady' = Path /\ missed' = {}

\* list_roots has an order of its own.
First(roots) == {r \in roots : r = CHOOSE s \in roots : TRUE}

\* scan_document_root takes one root, scan_all_roots all of them.
StartScan(roots) ==
  /\ Unlocked
  /\ \E r \in First(roots) : BeginRoot(r) /\ due' = roots \ {r}
  /\ UNCHANGED <<file, row, points, processing, found, cur, events, bare, astray>>

Step(p) == pc = "walk" /\ p \in todo /\ todo' = todo \ {p}

\* A file whose hash cannot be computed, or that is gone by now.
Pass(p) ==
  /\ Step(p)
  /\ \/ Present(p) /\ Event /\ seen' = seen \cup {p} /\ missed' = missed \cup {file[p]}
     \/ ~Present(p) /\ NoEvent /\ UNCHANGED <<seen, missed>>
  /\ UNCHANGED <<file, row, points, processing, pc, due, root, baseline, complete,
                 found, cur, steady, bare, astray>>

\* A directory that cannot be read, or the limit on the number of files.
WalkError(p) ==
  /\ Event /\ Step(p)
  /\ complete' = FALSE
  /\ UNCHANGED <<file, row, points, processing, pc, due, root, baseline, seen, found,
                 cur, history>>

\* The content already belongs to another document, which is live and whose
\* file is still there.
\* Faults: deleted owners count as well; no owner counts.
AnyOwner(d, c) == \E o \in Owners(c) \ {d} : TRUE
NoOwner(d, c) == FALSE
OwnedElsewhere(d, c) ==
  \E o \in Owners(c) \ {d} : row[o].status # "deleted" /\ Present(row[o].path)

\* Fault: what was found is not submitted.
NoSubmit(d, p) == found' = found
Submit(d, p) == found' = found \cup {[doc |-> d, path |-> p]}

Visit(p) == /\ Step(p) /\ Present(p)
            /\ UNCHANGED <<file, points, processing, due, root, baseline, complete,
                           cur, events, steady, astray>>

\* update: the registry drops a hash that another row has.
\* Fault: the column is not unique.
AnyHash(d, c) == c
StoredHash(d, c) == IF Owners(c) = {} THEN c ELSE row[d].hash

\* A known path with other content.  The extraction status stays.
Modified(p) ==
  LET d == baseline[p]
      c == file[p]
      hash == StoredHash(d, c)
  IN /\ Visit(p) /\ d # None /\ row[d].hash # c /\ ~OwnedElsewhere(d, c)
     /\ row' = [row EXCEPT ![d].hash = hash, ![d].status = "modified"]
     /\ missed' = IF hash = c THEN missed \cup {row[d].hash} ELSE missed
     /\ bare' = IF row[d].status = "deleted" THEN bare \cup {d} ELSE bare
     /\ Submit(d, p)
     /\ seen' = seen \cup {p}
     /\ UNCHANGED pc

\* Fault: a restored row keeps its extraction status.
Reactivate(r) == [r EXCEPT !.status = "active"]
Reset(r) == [r EXCEPT !.status = "active", !.ext = "queued"]

Restored(p) ==
  LET d == baseline[p]
  IN /\ Visit(p) /\ d # None /\ row[d].hash = file[p] /\ row[d].status = "deleted"
     /\ row' = [row EXCEPT ![d] = Reset(@)]
     /\ Submit(d, p)
     /\ seen' = seen \cup {p}
     /\ UNCHANGED <<pc, missed, bare>>

\* A duplicate is left alone; a row whose content is the registered one is
\* taken to have been submitted.
Unchanged(p) ==
  LET d == baseline[p]
  IN /\ Visit(p) /\ d # None
     /\ \/ row[d].hash # file[p] /\ OwnedElsewhere(d, file[p]) /\ row' = row
        \/ /\ row[d].hash = file[p] /\ row[d].status # "deleted"
           /\ row' = [row EXCEPT ![d] = Reactivate(@)]
     /\ seen' = seen \cup {p}
     /\ UNCHANGED <<pc, found, missed, bare>>

\* Fault: the old path of an adopted document is not taken for seen.
OnlyNew(old, new) == {new}
BothSeen(old, new) == {old, new}

\* An unknown path whose content has a row: the row moves here.
Adopt(p) ==
  /\ Visit(p) /\ baseline[p] = None
  /\ \E d \in Owners(file[p]) :
       /\ row' = [row EXCEPT ![d].path = p, ![d].root = root, ![d].status = "active"]
       /\ seen' = seen \cup BothSeen(row[d].path, p)
       /\ pc' = IF row[d].path = p THEN pc ELSE "relocate"
       /\ bare' = IF row[d].status = "deleted" THEN bare \cup {d} ELSE bare
  /\ UNCHANGED <<found, missed>>

\* relocate_callback: the payload's path; a failure is only noted.
Relocated ==
  /\ pc = "relocate" /\ pc' = "walk"
  /\ UNCHANGED <<file, row, points, processing, due, root, baseline, todo, seen, complete,
                 found, cur, events, history>>

NewRow(p, r) == [path |-> p, root |-> r, hash |-> file[p], status |-> "active", ext |-> "queued"]

RegisterNew(p) ==
  /\ Visit(p) /\ baseline[p] = None /\ Owners(file[p]) = {}
  /\ \E d \in Free : row' = [row EXCEPT ![d] = NewRow(p, root)] /\ Submit(d, p)
  /\ seen' = seen \cup {p}
  /\ UNCHANGED <<pc, missed, bare>>

-----------------------------------------------------------------------------
(* Deletion, the next root, and the end of a scan. *)

Missing == {p \in Path : baseline[p] # None /\ p \notin seen}

FinishWalk ==
  /\ pc = "walk" /\ todo = {}
  /\ pc' = "sweep"
  /\ todo' = IF complete THEN Missing ELSE {}
  /\ UNCHANGED <<file, row, points, processing, due, root, baseline, seen, complete,
                 found, cur, events, history>>

Sweep(p) ==
  /\ pc = "sweep" /\ p \in todo
  /\ pc' = "purge" /\ todo' = todo \ {p} /\ cur' = baseline[p]
  /\ row' = [row EXCEPT ![baseline[p]].status = "deleted"]
  /\ UNCHANGED <<file, points, processing, due, root, baseline, seen, complete, found,
                 events, history>>

\* delete_callback, which may fail.
Purge ==
  /\ pc = "purge" /\ pc' = "sweep" /\ cur' = None
  /\ \/ NoEvent /\ points' = [points EXCEPT ![cur] = None]
     \/ Event /\ points' = points
  /\ UNCHANGED <<file, row, processing, due, root, baseline, todo, seen, complete, found,
                 history>>

EndScan(keep) ==
  /\ pc' = "idle" /\ due' = {} /\ root' = None
  /\ baseline' = [p \in Path |-> None]
  /\ todo' = {} /\ seen' = {} /\ complete' = TRUE /\ found' = {} /\ cur' = None
  /\ pending' = IF keep THEN pending \cup found ELSE {}
  /\ steady' = {} /\ missed' = {}

FinishRoot ==
  /\ pc = "sweep" /\ todo = {}
  /\ \/ /\ due = {} /\ EndScan(TRUE)
     \/ /\ \E r \in First(due) : BeginRoot(r) /\ due' = due \ {r}
        /\ UNCHANGED <<found, cur, pending>>
  /\ UNCHANGED <<file, row, points, task, flight, events, bare, astray>>

-----------------------------------------------------------------------------
(* Submission and processing, as far as a scan depends on them. *)

\* _enqueue_pending: a document at a time, each of which the queue may reject.
Enqueue(t) ==
  /\ Awaiting /\ t \in pending /\ pending' = pending \ {t}
  /\ \/ ~HasRow(t.doc) /\ NoEvent /\ UNCHANGED <<row, task, bare, astray>>
     \/ /\ HasRow(t.doc) /\ NoEvent
        /\ row' = [row EXCEPT ![t.doc].ext = "queued"]
        /\ task' = task \cup {t}
        /\ bare' = bare \ {t.doc} /\ astray' = astray \ {t.doc}
     \/ /\ HasRow(t.doc) /\ Event
        /\ row' = [row EXCEPT ![t.doc].ext = "failed"]
        /\ bare' = bare \ {t.doc} /\ astray' = astray \cup {t.doc}
        /\ UNCHANGED task
  /\ UNCHANGED <<file, points, flight, scan, steady, missed>>

\* A worker reads the path of the task, wherever the row is by then.
Extract(t) ==
  LET strays == \/ t.path # row[t.doc].path \/ file[t.path] # row[t.doc].hash
                \/ \E f \in flight : f.doc = t.doc
  IN /\ Awaiting /\ t \in task /\ task' = task \ {t}
     /\ IF HasRow(t.doc)
        THEN /\ row' = [row EXCEPT ![t.doc].ext = "queued"]
             /\ flight' = flight \cup {[doc |-> t.doc, content |-> file[t.path]]}
             /\ astray' = IF strays THEN astray \cup {t.doc} ELSE astray
        ELSE UNCHANGED <<row, flight, astray>>
     /\ UNCHANGED <<file, points, pending, scan, events, steady, missed, bare>>

\* Its result is indexed under the lock, beside the hash the row has by then.
Publish(f) ==
  /\ Unlocked /\ f \in flight /\ f.content # None /\ flight' = flight \ {f}
  /\ \/ ~HasRow(f.doc) /\ NoEvent /\ UNCHANGED <<row, points>>
     \/ /\ HasRow(f.doc) /\ NoEvent
        /\ row' = [row EXCEPT ![f.doc].ext = "indexed"]
        /\ points' = [points EXCEPT ![f.doc] = [body |-> f.content, mark |-> row[f.doc].hash]]
     \/ /\ HasRow(f.doc) /\ Event
        /\ row' = [row EXCEPT ![f.doc].ext = "extracted"]
        /\ UNCHANGED points
  /\ UNCHANGED <<file, task, pending, scan, history>>

\* The extraction failed, for a missing file or another reason.  A row with a
\* later attempt stays, and either of two may be the later.
Fail(f) ==
  /\ Awaiting /\ f \in flight /\ flight' = flight \ {f}
  /\ IF f.content = None THEN NoEvent ELSE Event
  /\ \/ HasRow(f.doc) /\ row[f.doc].ext = "queued" /\ row' = [row EXCEPT ![f.doc].ext = "failed"]
     \/ ~(HasRow(f.doc) /\ row[f.doc].ext = "queued") /\ row' = row
     \/ (\E g \in flight \ {f} : g.doc = f.doc) /\ row' = row
  /\ UNCHANGED <<file, points, task, pending, scan, history>>

\* index_all publishes some of the rows whose marker does not match; the source
\* of an indexed one is verified first.
IndexAll ==
  LET stale(d) == points[d] = None \/ points[d].mark # row[d].hash
      eligible == {d \in Doc : /\ HasRow(d) /\ Present(row[d].path)
                               /\ \/ row[d].ext = "extracted"
                                  \/ row[d].ext = "indexed" /\ stale(d)
                                       /\ file[row[d].path] = row[d].hash}
  IN /\ Unlocked
     /\ \E D \in (SUBSET eligible) \ {{}} :
          /\ points' = [d \in Doc |-> IF d \in D
                THEN [body |-> file[row[d].path], mark |-> row[d].hash] ELSE points[d]]
          /\ row' = [d \in Doc |-> IF d \in D THEN [row[d] EXCEPT !.ext = "indexed"] ELSE row[d]]
          /\ astray' = astray \cup {d \in D : file[row[d].path] # row[d].hash}
          /\ bare' = bare \ D
     /\ UNCHANGED <<file, processing, scan, events, steady, missed>>

-----------------------------------------------------------------------------
(* Tools, and the end of a call or of the process. *)

\* register_document: a known content moves its row here, under the lock, and
\* keeps its status; a new one is submitted.
RegisterDocument(p) ==
  /\ Event /\ Awaiting /\ Present(p)
  /\ \/ /\ Unlocked
        /\ \E d \in Owners(file[p]) : row[d].path # p /\ row' = [row EXCEPT ![d].path = p]
        /\ UNCHANGED pending
     \/ /\ Owners(file[p]) = {}
        /\ \E d \in Free : /\ row' = [row EXCEPT ![d] = NewRow(p, None)]
                           /\ pending' = pending \cup {[doc |-> d, path |-> p]}
  /\ UNCHANGED <<file, points, task, flight, scan, history>>

\* delete_document: the row goes even if its points could not be deleted.
DeleteDocument(d) ==
  /\ Event /\ Unlocked /\ HasRow(d)
  /\ row' = [row EXCEPT ![d] = None]
  /\ points' \in {points, [points EXCEPT ![d] = None]}
  /\ bare' = bare \ {d} /\ astray' = astray \ {d}
  /\ UNCHANGED <<file, processing, scan, steady, missed>>

\* Submissions are in memory only.  Nothing will remember one whose row has
\* another status than QUEUED, as an earlier attempt may have left it.
Forgotten(lost) == {t.doc : t \in {u \in lost : HasRow(u.doc) /\ row[u.doc].ext # "queued"}}

\* The call is cancelled at an await of the scan.
Abandon ==
  /\ Event /\ (pc \in {"relocate", "purge"} \/ (pc = "idle" /\ pending # {}))
  /\ EndScan(FALSE)
  /\ astray' = astray \cup {t.doc : t \in found \cup pending}
  /\ UNCHANGED <<file, row, points, task, flight, bare>>

\* The process ends.  The next one submits the rows that were queued and the
\* failed ones whose error is not permanent.
Restart ==
  LET queued == {d \in Doc : HasRow(d) /\ row[d].ext = "queued"}
      failed == {d \in Doc : HasRow(d) /\ row[d].ext = "failed"}
  IN /\ \E retried \in SUBSET failed :
          LET D == queued \cup retried
          IN /\ row' = [d \in Doc |-> IF d \in D THEN [row[d] EXCEPT !.ext = "queued"] ELSE row[d]]
             /\ task' = {[doc |-> d, path |-> row[d].path] : d \in D}
             /\ astray' = (astray \cup Forgotten(found \cup pending \cup task)) \ D
     /\ Event /\ flight' = {} /\ EndScan(FALSE)
     /\ UNCHANGED <<file, points, bare>>

Next ==
  \/ \E p \in Path : \/ \E c \in Content \cup {None} : Write(p, c)
                     \/ \E q \in Path \ {p} : Rename(p, q)
                     \/ Pass(p) \/ WalkError(p)
                     \/ Modified(p) \/ Restored(p) \/ Unchanged(p) \/ Adopt(p) \/ RegisterNew(p)
                     \/ Sweep(p) \/ RegisterDocument(p)
  \/ \E roots \in Scans : StartScan(roots)
  \/ Relocated \/ FinishWalk \/ Purge \/ FinishRoot
  \/ \E t \in pending : Enqueue(t)
  \/ \E t \in task : Extract(t)
  \/ \E f \in flight : Publish(f) \/ Fail(f)
  \/ IndexAll
  \/ \E d \in Doc : DeleteDocument(d)
  \/ Abandon \/ Restart

Spec == Init /\ [][Next]_vars

-----------------------------------------------------------------------------
(* Properties. *)

\* Every variable has its type, and the baseline holds rows only.
TypeOK ==
  /\ file \in [Path -> Content \cup {None}]
  /\ row \in [Doc -> Row \cup {None}]
  /\ points \in [Doc -> Points \cup {None}]
  /\ task \subseteq Task /\ pending \subseteq Task /\ found \subseteq Task
  /\ flight \subseteq [doc : Doc, content : Content \cup {None}]
  /\ pc \in {"idle", "walk", "relocate", "sweep", "purge"}
  /\ due \subseteq Root /\ root \in Root \cup {None}
  /\ baseline \in [Path -> Doc \cup {None}]
  /\ \A p \in Path : baseline[p] # None => HasRow(baseline[p])
  /\ todo \subseteq Path /\ seen \subseteq Path /\ complete \in BOOLEAN
  /\ cur \in Doc \cup {None} /\ (pc = "purge" => cur # None)
  /\ steady \subseteq Path /\ missed \subseteq Content
  /\ bare \subseteq Doc /\ astray \subseteq Doc

\* A content hash belongs to one row.
HashUnique ==
  \A d, e \in Doc : HasRow(d) /\ HasRow(e) /\ row[d].hash = row[e].hash => d = e

Deleted(d) == Live(d) /\ HasRow(d)' /\ ~Live(d)'

\* A scan marks a document of the root only if its file was missing or changed
\* during the walk: never one whose path it did not look at or has just moved.
DeletesOnlyMissing ==
  [][\A d \in Doc : Deleted(d) /\ RootOf[row[d].path] = row[d].root =>
       ~(Present(row[d].path) /\ row[d].path \in steady)]_vars

\* "documents that simply were not visited are never marked deleted"
\* (scanner.py:61), whatever root they are registered with.
UnvisitedIsKept ==
  [][\A d \in Doc : Deleted(d) =>
       ~(Present(row[d].path) /\ row[d].path \in steady)]_vars

\* A complete walk over files that did not change while it ran.
Settled == pc = "sweep" /\ todo = {} /\ complete /\ {p \in Path : RootOf[p] = root} \subseteq steady
Found(p) == RootOf[p] = root /\ Present(p)
Misplaced(d) == row[d].root # None /\ RootOf[row[d].path] # row[d].root

\* After it every file's content belongs to a live row or is about to be
\* submitted, unless the walk could not read it, its row took on another content
\* in this walk, or its row is registered with a root its path is not in.
ScanCovers ==
  Settled => \A p \in Path : Found(p) =>
    \/ \E d \in Owners(file[p]) : Live(d) \/ Misplaced(d)
    \/ \E t \in found : t.path = p
    \/ file[p] \in missed

\* After it another walk would find nothing to submit, with the same exceptions
\* and that of a content whose row is deleted or has no file.
ScanIsIdempotent ==
  Settled => \A p \in Path : Found(p) =>
    \/ \A d \in Doc : HasRow(d) /\ row[d].path = p /\ row[d].root = root =>
         (row[d].hash = file[p] /\ Live(d)) \/ OwnedElsewhere(d, file[p])
    \/ file[p] \in missed
    \/ \E d \in Owners(file[p]) : ~Live(d) \/ ~Present(row[d].path)

Outstanding(d) == \E t \in task \cup flight \cup pending \cup found : t.doc = d
Hollow(d) == Live(d) /\ row[d].ext = "indexed" /\ points[d] = None

\* A live document that says INDEXED has points, unless they were purged and a
\* later scan found its file with other content or at another path.
LiveHasPoints == \A d \in Doc \ bare : ~Hollow(d)

\* "ACTIVE while extraction_status stayed INDEXED, so the document would look
\* indexed but have no vectors" (scanner.py:317) does not happen.
RestoredIsSearchable == \A d \in Doc \ astray : ~Outstanding(d) => ~Hollow(d)

\* A document that is settled, live and registered with the content its file
\* has is indexed with that content, unless its last submission was lost or
\* read something else than what was registered.
SettledIsCurrent ==
  \A d \in Doc \ astray :
    /\ Live(d) /\ row[d].ext = "indexed" /\ points[d] # None
    /\ file[row[d].path] = row[d].hash
    /\ ~Outstanding(d)
    => points[d].body = row[d].hash
=============================================================================

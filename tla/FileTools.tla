----------------------------- MODULE FileTools ------------------------------
(***************************************************************************)
(* The tools of tools/filesystem.py, which move files and directories and  *)
(* rewrite the registry and the index after them.  A call checks its       *)
(* arguments, waits until nothing processes the documents concerned, takes *)
(* the collection lock, and acts on what it checked: other calls, tools    *)
(* and programs run in between.  A path is a sequence of names.            *)
(***************************************************************************)
EXTENDS Naturals, FiniteSets, Sequences

CONSTANTS Dir,       \* directories that may exist
          Path,      \* files that may exist
          Source,    \* the directories that calls are asked to move
          Roots,     \* the document roots; they stay registered
          Doc,       \* documents, named for their content
          Points,    \* how many points each of them has in the index
          Others,    \* points of further documents, or left over from deleted ones
          MaxResults,\* the points the vector library lists unless told otherwise
          Call,      \* concurrent tool calls
          None,      \* no document, row, root, path or call
          MaxFaults  \* bound: files other programs move, failed writes, cancelled calls, restarts

Below(d, p) == Len(p) > Len(d) /\ SubSeq(p, 1, Len(d)) = d
Within(d, p) == p = d \/ Below(d, p)
Parent(p) == SubSeq(p, 1, Len(p) - 1)

ASSUME TreeAssumption ==
  /\ \A p \in Dir \cup Path : p \in Seq(STRING) /\ p # <<>>
  /\ \A p \in Path : Parent(p) \in Dir
  /\ \A d, e \in Dir : Below(d, e) => Parent(e) \in Dir
  /\ Dir \cap Path = {}
ASSUME SourceAssumption == Source \subseteq Dir
ASSUME RootsAssumption == Roots \subseteq Dir /\ \A r, s \in Roots : ~Below(r, s)
ASSUME IndexAssumption ==
  Points \in [Doc -> Nat \ {0}] /\ Others \in Nat /\ MaxResults \in Nat \ {0}
ASSUME BoundAssumption == MaxFaults \in Nat

\* What the store and the index know of a document; tags, name and status are
\* of no concern here.
Row == [path : Path, root : Roots \cup {None}]

\* A call that waits for documents, that waits for the lock, or that holds it
\* with the files and the rows behind it.  Only a renaming checks something
\* between the waits: for the other two tools both waits are "ready".
FileCall == [tool : {"move_file"}, phase : {"ready", "payload"},
             src : Path, dst : Path, doc : Doc]
DirCall == [tool : {"rename_directory", "move_directory"},
            phase : {"waiting", "ready", "payload"}, src : Source, dst : Dir]

ASSUME NoneAssumption == None \notin Doc \cup Path \cup Roots \cup Row \cup FileCall \cup DirCall

VARIABLES
  dirs,    \* directories on disk
  file,    \* the content of a file
  row,     \* the registry
  payload, \* the path that a document's points carry
  call,    \* the calls under way
  faults,
  lagging, \* history: documents whose last rewrite in the index failed
  missed   \* history: those a rewrite left out that did not fail

history == <<lagging, missed>>
vars == <<dirs, file, row, payload, call, faults, history>>

-----------------------------------------------------------------------------
HasRow(d) == row[d] # None
HasParent(p) == Parent(p) \in dirs \cup {<<>>}
InRoot(p) == \E r \in Roots : Within(r, p)
RootOf(p) == CHOOSE r \in Roots : Within(r, p)
RowsBelow(s) == {d \in Doc : HasRow(d) /\ Below(s, row[d].path)}

\* Fault: nobody holds the collection lock.
NoLock == TRUE
Unlocked == \A c \in Call : call[c] # None => call[c].phase # "payload"

\* The points of these documents carry the path of their rows.
InStep(D) == lagging' = lagging \ D /\ missed' = missed \ D

Fault == faults < MaxFaults /\ faults' = faults + 1
NoFault == UNCHANGED faults

Init ==
  /\ dirs \in {D \in SUBSET Dir : Roots \subseteq D /\ \A d \in D : Parent(d) \in D \cup {<<>>}}
  /\ file \in {f \in [Path -> Doc \cup {None}] :
                 \A p, q \in Path : f[p] # None => /\ Parent(p) \in dirs
                                                   /\ f[p] = f[q] => p = q}
  /\ row = [d \in Doc |-> None]
  /\ payload = [d \in Doc |-> None]
  /\ call = [c \in Call |-> None]
  /\ faults = 0 /\ lagging = {} /\ missed = {}

-----------------------------------------------------------------------------
(* Registration and indexing, and other programs. *)

\* register_document, or a scan, which knows the root.  New content is
\* registered; known content that was found elsewhere moves its row.
Register(p) ==
  LET d == file[p]
  IN /\ d # None
     /\ \/ /\ ~HasRow(d) /\ NoFault
           /\ \E r \in {None} \cup {s \in Roots : Within(s, p)} :
                row' = [row EXCEPT ![d] = [path |-> p, root |-> r]]
           /\ payload' = [payload EXCEPT ![d] = None]
           /\ InStep({d})
        \/ /\ HasRow(d) /\ row[d].path # p /\ Unlocked
           /\ row' = [row EXCEPT ![d].path = p]
           /\ \/ NoFault /\ InStep({d})
                 /\ payload' = [payload EXCEPT ![d] = IF @ = None THEN None ELSE p]
              \/ Fault /\ lagging' = lagging \cup {d} /\ UNCHANGED <<payload, missed>>
     /\ UNCHANGED <<dirs, file, call>>

\* A worker publishes a document under the lock, with the path of its row.
Index(d) ==
  /\ HasRow(d) /\ Unlocked
  /\ payload' = [payload EXCEPT ![d] = row[d].path]
  /\ InStep({d})
  /\ UNCHANGED <<dirs, file, row, call, faults>>

\* delete_document: what remains of its points belongs to no document.
DeleteDocument(d) ==
  /\ HasRow(d) /\ Unlocked
  /\ row' = [row EXCEPT ![d] = None]
  /\ payload' = [payload EXCEPT ![d] = None]
  /\ InStep({d})
  /\ UNCHANGED <<dirs, file, call, faults>>

\* mv in a shell
OutsideMove(p, q) ==
  /\ Fault
  /\ file[p] # None /\ file[q] = None /\ Parent(q) \in dirs
  /\ file' = [file EXCEPT ![q] = file[p], ![p] = None]
  /\ UNCHANGED <<dirs, row, payload, call, history>>

-----------------------------------------------------------------------------
(* The two tools without an await. *)

CreateDirectory(d) ==
  /\ d \notin dirs /\ HasParent(d) /\ InRoot(d)
  /\ dirs' = dirs \cup {d}
  /\ UNCHANGED <<file, row, payload, call, faults, history>>

\* Removes a tree of directories without files.
DeleteDirectory(d) ==
  /\ d \in dirs \ Roots
  /\ RowsBelow(d) = {}
  /\ \A p \in Path : Below(d, p) => file[p] = None
  /\ dirs' = {e \in dirs : ~Within(d, e)}
  /\ UNCHANGED <<file, row, payload, call, faults, history>>

-----------------------------------------------------------------------------
(* The checks of the tools that move, up to their wait. *)

Absent(p) == IF p \in Dir THEN p \notin dirs ELSE file[p] = None

Start(c, record) ==
  /\ call[c] = None
  /\ call' = [call EXCEPT ![c] = record]
  /\ UNCHANGED <<dirs, file, row, payload, faults, history>>

MoveFile(c, p, q) ==
  /\ file[p] # None /\ Absent(q) /\ HasParent(q) /\ InRoot(p) /\ InRoot(q)
  /\ \E d \in Doc :
       /\ HasRow(d) /\ row[d].path = p
       /\ Start(c, [tool |-> "move_file", phase |-> "ready", src |-> p, dst |-> q, doc |-> d])

\* The destination is checked after the wait.
RenameDirectory(c, s, d) ==
  /\ s \in dirs /\ Parent(s) = Parent(d) /\ InRoot(s) /\ InRoot(d)
  /\ \A r \in Roots : ~Within(s, r)
  /\ Start(c, [tool |-> "rename_directory", phase |-> "waiting", src |-> s, dst |-> d])

MoveDirectory(c, s, d) ==
  /\ s \in dirs /\ Absent(d) /\ HasParent(d) /\ InRoot(s) /\ InRoot(d)
  /\ Start(c, [tool |-> "move_directory", phase |-> "ready", src |-> s, dst |-> d])

Return(c) == call' = [call EXCEPT ![c] = None]

\* The documents have finished: a renaming goes on to wait for the lock.
Waited(c) ==
  /\ call[c] # None /\ call[c].phase = "waiting"
  /\ Absent(call[c].dst)
  /\ call' = [call EXCEPT ![c].phase = "ready"]
  /\ UNCHANGED <<dirs, file, row, payload, faults, history>>

\* The wait has timed out, or the destination of a renaming exists by now.
GiveUp(c) ==
  /\ call[c] # None
  /\ \/ call[c].phase = "waiting"
     \/ call[c].phase = "ready" /\ call[c].tool # "rename_directory"
  /\ Return(c)
  /\ UNCHANGED <<dirs, file, row, payload, faults, history>>

-----------------------------------------------------------------------------
(* Under the lock: the move on disk and the rows, without an await. *)

\* The path of p after s has become t.  Fault: the prefix is not anchored, as
\* if the names of all siblings began like s.
MovedLoosely(p, s, t) ==
  IF Below(Parent(s), p) /\ Len(p) > Len(s) THEN t \o SubSeq(p, Len(s) + 1, Len(p)) ELSE p
Moved(p, s, t) == IF Below(s, p) THEN t \o SubSeq(p, Len(s) + 1, Len(p)) ELSE p

\* shutil.move puts a directory into a destination that is a directory.
Target(m) == IF m.tool # "move_file" /\ m.dst \in dirs
             THEN Append(m.dst, m.src[Len(m.src)]) ELSE m.dst

\* A file overwrites its destination.  A directory cannot replace anything or
\* move into itself; copying it creates the parents it lacks.
\* Fault: a directory replaces the one that is there.
MovesOnto(m) ==
  IF m.tool = "move_file"
  THEN file[m.src] # None /\ HasParent(m.dst)
  ELSE m.src \in dirs /\ ~Within(m.src, Target(m))
Movable(m) ==
  IF m.tool = "move_file"
  THEN file[m.src] # None /\ HasParent(m.dst)
  ELSE m.src \in dirs /\ Target(m) \notin dirs /\ ~Within(m.src, Target(m))

\* Bound: the depth of the tree.
Fits(m) == m.tool # "move_file" =>
  /\ \A d \in dirs : Within(m.src, d) => Target(m) \o SubSeq(d, Len(m.src) + 1, Len(d)) \in Dir
  /\ \A p \in Path : file[p] # None => Moved(p, m.src, Target(m)) \in Path
  /\ \A d \in Doc : /\ HasRow(d) => Moved(row[d].path, m.src, m.dst) \in Path
                    /\ payload[d] # None => Moved(payload[d], m.src, m.dst) \in Path

OnDisk(m) ==
  LET t == Target(m)
      s == m.src
      source(p) == s \o SubSeq(p, Len(t) + 1, Len(p))
  IN IF m.tool = "move_file"
     THEN file' = [file EXCEPT ![t] = file[s], ![s] = None] /\ UNCHANGED dirs
     ELSE /\ file' = [p \in Path |->
                IF Below(t, p) THEN IF source(p) \in Path THEN file[source(p)] ELSE None
                ELSE IF Below(s, p) THEN None ELSE file[p]]
          /\ dirs' = {d \in dirs : ~Within(s, d)}
                \cup {d \in Dir : Within(d, t)}
                \cup {t \o SubSeq(d, Len(s) + 1, Len(d)) : d \in {e \in dirs : Below(s, e)}}

\* update_paths_batch, by prefix, whatever the call saw when it started.
Repathed(m) == [d \in Doc |->
  IF HasRow(d) THEN [row[d] EXCEPT !.path = Moved(@, m.src, m.dst)] ELSE None]

\* update_document_roots_batch.  Fault: with the prefix that no path has by now.
RerootedOld(m, R) == [d \in Doc |->
  IF R[d] # None /\ Below(m.src, R[d].path) THEN [R[d] EXCEPT !.root = RootOf(m.dst)] ELSE R[d]]
Rerooted(m, R) == [d \in Doc |->
  IF R[d] # None /\ Below(m.dst, R[d].path) THEN [R[d] EXCEPT !.root = RootOf(m.dst)] ELSE R[d]]

NewRows(m) ==
  IF m.tool = "move_file"
  THEN IF HasRow(m.doc)
       THEN [row EXCEPT ![m.doc] = [path |-> m.dst, root |-> RootOf(m.dst)]] ELSE row
  ELSE Rerooted(m, Repathed(m))

Execute(c) ==
  LET m == call[c]
      orphaned == m.tool = "move_file" /\ ~HasRow(m.doc)
  IN /\ m # None /\ m.phase = "ready" /\ Unlocked
     /\ Movable(m) /\ Fits(m)
     /\ OnDisk(m)
     /\ row' = NewRows(m)
     /\ IF orphaned THEN Return(c) ELSE call' = [call EXCEPT ![c].phase = "payload"]
     /\ UNCHANGED <<payload, faults, history>>

\* The registry fails, or the process ends, after the file has moved or after
\* the paths have been updated; the lock is released.
Interrupted(c) ==
  LET m == call[c]
  IN /\ m # None /\ m.phase = "ready" /\ Unlocked
     /\ Fault
     /\ Movable(m) /\ Fits(m)
     /\ OnDisk(m)
     /\ row' \in {row} \cup (IF m.tool = "move_file" THEN {NewRows(m)} ELSE {Repathed(m)})
     /\ lagging' = lagging \cup {d \in Doc : row'[d] # row[d]}
     /\ Return(c)
     /\ UNCHANGED <<payload, missed>>

\* shutil.move raises an error, which the tool returns.
Refused(c) ==
  /\ call[c] # None /\ call[c].phase = "ready" /\ Unlocked
  /\ ~Movable(call[c])
  /\ Return(c)
  /\ UNCHANGED <<dirs, file, row, payload, faults, history>>

-----------------------------------------------------------------------------
(* Under the lock: the index. *)

\* Points are found by document, or by the path they carry.  Fault: by the
\* path of the row, which has changed by now.
ConcernedRows(m) ==
  IF m.tool = "move_file" THEN {d \in {m.doc} : payload[d] # None}
  ELSE {d \in RowsBelow(m.src) : payload[d] # None}
Concerned(m) ==
  IF m.tool = "move_file" THEN {d \in {m.doc} : payload[d] # None}
  ELSE {d \in Doc : payload[d] # None /\ Below(m.src, payload[d])}

NewPath(m, p) == IF m.tool = "move_file" THEN m.dst ELSE Moved(p, m.src, m.dst)

Rewrite(m, D) == payload' = [d \in Doc |-> IF d \in D THEN NewPath(m, payload[d]) ELSE payload[d]]

\* What scroll_points lists: every point of the collection, or MaxResults of
\* them if there are more.
PointsOf(D) == UNION {{d} \X (1..Points[d]) : d \in D} \cup {None} \X (1..Others)
StoredPoints == PointsOf({d \in Doc : payload[d] # None})
Listings == IF Cardinality(StoredPoints) <= MaxResults THEN {StoredPoints}
            ELSE {L \in SUBSET StoredPoints : Cardinality(L) = MaxResults}

\* The documents found: move_file has its own selected by the server, the others
\* look through a listing for paths and have each rewritten wherever it occurs.
Listed(d, L) == \E e \in Doc : payload[e] = payload[d] /\ \E i \in 1..Points[e] : <<e, i>> \in L
Found(m) == IF m.tool = "move_file" THEN {Concerned(m)}
            ELSE {{d \in Concerned(m) : Listed(d, L)} : L \in Listings}

WritePayload(c) ==
  LET m == call[c]
  IN /\ m # None /\ m.phase = "payload"
     /\ \E D \in Found(m) : Rewrite(m, D) /\ missed' = missed \cup (Concerned(m) \ D)
     /\ Return(c)
     /\ UNCHANGED <<dirs, file, row, faults, lagging>>

\* The index fails after some of the requests, or the call is cancelled.
FailPayload(c) ==
  /\ call[c] # None /\ call[c].phase = "payload"
  /\ Fault
  /\ \E D \in SUBSET Concerned(call[c]) :
       Rewrite(call[c], D) /\ lagging' = lagging \cup (Concerned(call[c]) \ D)
  /\ Return(c)
  /\ UNCHANGED <<dirs, file, row, missed>>

\* The process ends between two steps; the lock holder's rewrite is lost.
Restart ==
  /\ Fault
  /\ \E c \in Call : call[c] # None
  /\ call' = [c \in Call |-> None]
  /\ lagging' = lagging \cup UNION {Concerned(call[c]) :
       c \in {b \in Call : call[b] # None /\ call[b].phase = "payload"}}
  /\ UNCHANGED <<dirs, file, row, payload, missed>>

Next ==
  \/ \E p \in Path : Register(p)
  \/ \E d \in Doc : Index(d) \/ DeleteDocument(d)
  \/ \E p, q \in Path : OutsideMove(p, q)
  \/ \E d \in Dir : CreateDirectory(d) \/ DeleteDirectory(d)
  \/ \E c \in Call :
       \/ \E p, q \in Path : MoveFile(c, p, q)
       \/ \E s \in Source, d \in Dir : RenameDirectory(c, s, d) \/ MoveDirectory(c, s, d)
       \/ Waited(c) \/ GiveUp(c)
       \/ Execute(c) \/ Interrupted(c) \/ Refused(c)
       \/ WritePayload(c) \/ FailPayload(c)
  \/ Restart

Spec == Init /\ [][Next]_vars

-----------------------------------------------------------------------------
(* Properties. *)

\* Every variable has its type, files are in directories that exist, and at
\* most one call holds the collection lock.
TypeOK ==
  /\ dirs \subseteq Dir /\ \A d \in dirs : HasParent(d)
  /\ file \in [Path -> Doc \cup {None}] /\ \A p \in Path : file[p] # None => HasParent(p)
  /\ row \in [Doc -> Row \cup {None}]
  /\ payload \in [Doc -> Path \cup {None}]
  /\ call \in [Call -> FileCall \cup DirCall \cup {None}]
  /\ faults \in 0..MaxFaults /\ lagging \subseteq Doc /\ missed \subseteq Doc
  /\ \A b, c \in Call : b # c /\ call[b] # None /\ call[c] # None =>
       ~(call[b].phase = "payload" /\ call[c].phase = "payload")

\* A document whose file is where its row says.
AtHome(d) == HasRow(d) /\ file[row[d].path] = d

\* A call that moves what it should not: something is at its destination by
\* now, or the file that it moves is not the one of the row it changes.
Stale(m) == \/ ~Absent(m.dst)
            \/ m.tool = "move_file" /\ ~(HasRow(m.doc) /\ row[m.doc].path = m.src
                                         /\ file[m.src] = m.doc)

\* Moves take the rows along: a document whose file is where its row says
\* loses that only to a deletion, a fault, or a call whose checks no longer
\* hold, or knew the path only.  Documents that were registered, moved or put below the source
\* while the call waited are included.
RowsFollowFiles ==
  [][\A d \in Doc : AtHome(d) /\ ~AtHome(d)' =>
       \/ ~HasRow(d)' \/ faults' # faults
       \/ \E c \in Call : /\ call[c] # None /\ call[c].phase = "ready"
                          /\ Stale(call[c]) /\ call'[c] # call[c]]_vars

Rooted(d) == HasRow(d) /\ row[d].root # None /\ Below(row[d].root, row[d].path)

\* A move never leaves a row with a document root that does not contain its
\* path: the scan of a root reconciles just the rows that name it.
RootsFollowRows ==
  [][\A c \in Call : call[c] # None /\ call[c].phase = "ready"
                    /\ call'[c] # call[c] /\ faults' = faults =>
       \A d \in Doc : Rooted(d) /\ HasRow(d)' => Rooted(d)']_vars

\* While nobody holds the lock, the points of a document carry the path of
\* its row: searches and the registry agree.  Excused are a rewrite that failed
\* and, as the listing behind a directory's rewrite is cut, one that left the
\* document out.
InIndex(d) == HasRow(d) /\ payload[d] # None => payload[d] = row[d].path
IndexFollowsRows == Unlocked => \A d \in Doc \ (lagging \cup missed) : InIndex(d)

\* The same without the second excuse: false once the points outnumber what
\* the vector library lists.
OnlyFailuresLag == Unlocked => \A d \in Doc \ lagging : InIndex(d)

\* move_file answers with a conflict if its destination exists
\* (tools/filesystem.py:102, 110): no tool replaces a file.
NothingOverwritten ==
  [][\A d \in Doc : (\E p \in Path : file[p] = d) => \E p \in Path : file'[p] = d]_vars

\* What is true of it: content goes only with a file that came to be at the
\* destination of a move_file call after the call had looked.  No directory,
\* however it nests and whatever appeared at its destination, replaces a file.
OverwritesAreLate ==
  [][\A d \in Doc : (\E p \in Path : file[p] = d) =>
       \/ \E p \in Path : file'[p] = d
       \/ \E c \in Call : /\ call[c] # None /\ call[c].phase = "ready"
                          /\ call[c].tool = "move_file" /\ file[call[c].dst] = d
                          /\ call'[c] # call[c]]_vars
=============================================================================

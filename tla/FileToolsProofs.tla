-------------------------- MODULE FileToolsProofs --------------------------
(***************************************************************************)
(* Proofs about FileTools: the index agrees with the registry whenever     *)
(* nobody holds the collection lock, moves keep rows in their roots and    *)
(* with their files, and directories are never left without a parent.      *)
(***************************************************************************)
EXTENDS FileTools, LeastElement, SequenceTheorems, FiniteSetTheorems, TLAPS

USE DEF history, InIndex

\* The documents whose points may carry another path than their row.
Behind == lagging \cup missed
USE DEF Behind

\* The types that the proofs need: a call's destination is in a root, and one
\* call at most holds the lock.
Holds(c) == call[c] # None /\ call[c].phase = "payload"
Types ==
  /\ dirs \subseteq Dir
  /\ file \in [Path -> Doc \cup {None}]
  /\ row \in [Doc -> Row \cup {None}]
  /\ payload \in [Doc -> Path \cup {None}]
  /\ call \in [Call -> FileCall \cup DirCall \cup {None}]
  /\ Behind \subseteq Doc
  /\ \A c \in Call : call[c] # None => InRoot(call[c].dst)
  /\ \A b, c \in Call : Holds(b) /\ Holds(c) => b = c

\* The holder of the lock has changed the rows and has yet to change the points
\* of the documents it concerns.
Rewritable(m) == \A d \in Doc : payload[d] # None => NewPath(m, payload[d]) \in Path
Rewriting(m) ==
  \A d \in Doc \ Behind : HasRow(d) /\ payload[d] # None =>
    row[d].path = IF d \in Concerned(m) THEN NewPath(m, payload[d]) ELSE payload[d]
LockInv == \A c \in Call : Holds(c) => Rewritable(call[c]) /\ Rewriting(call[c])

FileInv == Types /\ LockInv /\ IndexFollowsRows

\* The root of a path that is in one.
LEMMA RootOfPath == ASSUME NEW p, InRoot(p) PROVE RootOf(p) \in Roots /\ Within(RootOf(p), p)
  BY DEF InRoot, RootOf

LEMMA NoneIsNone ==
  /\ \A x \in Doc \cup Path \cup Roots : x # None
  /\ \A x \in Row \cup FileCall \cup DirCall : x # None
  BY NoneAssumption

\* Steps that change neither rows, points, history nor who holds the lock.
LEMMA BesideKeeps ==
  ASSUME FileInv, UNCHANGED <<row, payload, history>>, Types',
         \A c \in Call : \/ Holds(c)' /\ Holds(c) /\ call'[c] = call[c]
                         \/ ~Holds(c)' /\ ~Holds(c)
  PROVE  FileInv'
<1>1. LockInv'
  BY DEF FileInv, LockInv, Rewritable, Rewriting, Concerned, RowsBelow, HasRow
<1>2. Unlocked' => Unlocked
  BY DEF Unlocked, Holds
<1>3. IndexFollowsRows'
  BY <1>2 DEF FileInv, IndexFollowsRows, HasRow
<1> QED
  BY <1>1, <1>3 DEF FileInv

\* A step that leaves nobody with the lock.
LEMMA UnlockedKeeps ==
  ASSUME Types', Unlocked', IndexFollowsRows' PROVE FileInv'
  BY DEF FileInv, LockInv, Holds, Unlocked

LEMMA InitKeeps == Init => FileInv
<1> SUFFICES ASSUME Init PROVE FileInv
  OBVIOUS
<1>1. Types
  BY DEF Init, Types, Holds
<1>2. LockInv /\ IndexFollowsRows
  BY DEF Init, LockInv, Holds, IndexFollowsRows, HasRow
<1> QED
  BY <1>1, <1>2 DEF FileInv

-----------------------------------------------------------------------------
(* Registration, indexing, deletion and other programs. *)

LEMMA RegisterKeeps == ASSUME FileInv, NEW p \in Path, Register(p) PROVE FileInv'
<1> DEFINE d == file[p]
<1>0. Types /\ d \in Doc
  BY DEF FileInv, Types, Register
<1> HIDE DEF d
<1>1. CASE /\ ~HasRow(d)
           /\ \E r \in {None} \cup {s \in Roots : Within(s, p)} :
                row' = [row EXCEPT ![d] = [path |-> p, root |-> r]]
           /\ payload' = [payload EXCEPT ![d] = None]
           /\ Behind' = Behind \ {d}
           /\ UNCHANGED <<dirs, file, call>>
  <2>1. Types'
    <3>1. PICK r \in {None} \cup Roots : row' = [row EXCEPT ![d] = [path |-> p, root |-> r]]
      BY <1>1
    <3>2. row' \in [Doc -> Row \cup {None}]
      BY <1>0, <3>1 DEF Types, Row
    <3>3. payload' \in [Doc -> Path \cup {None}]
      BY <1>0, <1>1 DEF Types
    <3> QED
      BY <1>0, <1>1, <3>2, <3>3 DEF Types, Holds, InRoot
  <2>2. payload'[d] = None
    BY <1>0, <1>1 DEF Types
  <2>3. \A e \in Doc \ {d} : /\ row'[e] = row[e] /\ payload'[e] = payload[e]
                             /\ e \in Behind' <=> e \in Behind
    BY <1>0, <1>1 DEF Types
  <2>4. LockInv'
    BY <1>1, <2>2, <2>3 DEF FileInv, LockInv, Holds, Rewritable, Rewriting, Concerned, RowsBelow, HasRow
  <2>5. IndexFollowsRows'
    BY <1>1, <2>2, <2>3 DEF FileInv, IndexFollowsRows, Unlocked, HasRow
  <2> QED
    BY <2>1, <2>4, <2>5 DEF FileInv
<1>2. CASE /\ HasRow(d) /\ Unlocked
           /\ row' = [row EXCEPT ![d].path = p]
           /\ \/ /\ Behind' = Behind \ {d}
                 /\ payload' = [payload EXCEPT ![d] = IF @ = None THEN None ELSE p]
              \/ Behind' = Behind \cup {d} /\ UNCHANGED payload
           /\ UNCHANGED <<dirs, file, call>>
  <2>1. row[d] \in Row /\ row'[d].path = p
    BY <1>0, <1>2 DEF Types, HasRow, Row
  <2>2. Types'
    <3>1. row' \in [Doc -> Row \cup {None}]
      BY <1>0, <1>2, <2>1 DEF Types, Row
    <3>2. payload' \in [Doc -> Path \cup {None}]
      BY <1>0, <1>2 DEF Types
    <3> QED
      BY <1>0, <1>2, <3>1, <3>2 DEF Types, Holds, InRoot
  <2>3. \A e \in Doc \ {d} : /\ row'[e] = row[e] /\ payload'[e] = payload[e]
                             /\ e \in Behind' <=> e \in Behind
    BY <1>0, <1>2 DEF Types
  <2>4. d \in Behind' \/ payload'[d] \in {None, p}
    BY <1>0, <1>2 DEF Types
  <2>5. IndexFollowsRows'
    BY <1>2, <2>1, <2>3, <2>4 DEF FileInv, IndexFollowsRows, HasRow
  <2> QED
    BY <1>2, <2>2, <2>5, UnlockedKeeps DEF Unlocked
<1> QED
  BY <1>1, <1>2 DEF Register, InStep, d

LEMMA DocumentStepKeeps ==
  ASSUME FileInv, NEW d \in Doc, Index(d) \/ DeleteDocument(d) PROVE FileInv'
<1>0. Types /\ row[d] \in Row
  BY DEF FileInv, Types, Index, DeleteDocument, HasRow
<1>1. Types'
  <2>1. row' \in [Doc -> Row \cup {None}]
    BY <1>0 DEF Types, Index, DeleteDocument
  <2>2. payload' \in [Doc -> Path \cup {None}]
    BY <1>0 DEF Types, Index, DeleteDocument, Row
  <2> QED
    BY <1>0, <2>1, <2>2 DEF Types, Holds, InRoot, Index, DeleteDocument, InStep
<1>2. \A e \in Doc \ {d} : /\ row'[e] = row[e] /\ payload'[e] = payload[e]
                           /\ e \in Behind' <=> e \in Behind
  BY <1>0 DEF Types, Index, DeleteDocument, InStep
<1>3. payload'[d] = None \/ (payload'[d] = row[d].path /\ row' = row)
  BY <1>0 DEF Types, Index, DeleteDocument
<1>4. Unlocked /\ Unlocked'
  BY DEF Index, DeleteDocument, Unlocked
<1>5. IndexFollowsRows'
  BY <1>2, <1>3, <1>4 DEF FileInv, IndexFollowsRows, HasRow
<1> QED
  BY <1>1, <1>4, <1>5, UnlockedKeeps

LEMMA OutsideKeeps ==
  ASSUME FileInv, \/ \E p, q \in Path : OutsideMove(p, q)
                  \/ \E d \in Dir : CreateDirectory(d) \/ DeleteDirectory(d)
                  \/ UNCHANGED vars
  PROVE  FileInv'
<1>0. Types
  BY DEF FileInv
<1>1. UNCHANGED <<row, payload, call, history>>
  BY DEF OutsideMove, CreateDirectory, DeleteDirectory, vars
<1>2. dirs' \subseteq Dir
  BY <1>0 DEF Types, OutsideMove, CreateDirectory, DeleteDirectory, vars
<1>3. file' \in [Path -> Doc \cup {None}]
  BY <1>0 DEF Types, OutsideMove, CreateDirectory, DeleteDirectory, vars
<1>4. Types'
  BY <1>0, <1>1, <1>2, <1>3 DEF Types, Holds, InRoot
<1> QED
  BY <1>1, <1>4, BesideKeeps DEF Holds

-----------------------------------------------------------------------------
(* Calls up to the lock. *)

LEMMA CallKeeps ==
  ASSUME FileInv, NEW c \in Call, NEW m \in FileCall \cup DirCall \cup {None},
         call' = [call EXCEPT ![c] = m], ~Holds(c),
         m # None => m.phase # "payload" /\ InRoot(m.dst),
         UNCHANGED <<dirs, file, row, payload, history>>
  PROVE  FileInv'
<1>0. Types
  BY DEF FileInv
<1>1. \A b \in Call : /\ b # c => call'[b] = call[b]
                      /\ b = c => call'[b] = m
  BY <1>0 DEF Types
<1>2. call' \in [Call -> FileCall \cup DirCall \cup {None}]
  BY <1>0 DEF Types
<1>3. ~Holds(c)' /\ \A b \in Call \ {c} : Holds(b)' <=> Holds(b)
  BY <1>1 DEF Holds
<1>4. Types'
  BY <1>0, <1>1, <1>2, <1>3 DEF Types, InRoot
<1> QED
  BY <1>1, <1>3, <1>4, BesideKeeps

LEMMA StartKeeps ==
  ASSUME FileInv, NEW c \in Call,
         \/ \E p, q \in Path : MoveFile(c, p, q)
         \/ \E s \in Source, d \in Dir : RenameDirectory(c, s, d) \/ MoveDirectory(c, s, d)
  PROVE  FileInv'
<1>1. ASSUME NEW m \in FileCall \cup DirCall, Start(c, m), m.phase # "payload", InRoot(m.dst)
      PROVE  FileInv'
  BY <1>1, CallKeeps DEF Start, Holds
<1>2. ASSUME NEW p \in Path, NEW q \in Path, MoveFile(c, p, q) PROVE FileInv'
  <2>1. PICK d \in Doc : Start(c, [tool |-> "move_file", phase |-> "ready",
                                   src |-> p, dst |-> q, doc |-> d])
    BY <1>2 DEF MoveFile
  <2>2. [tool |-> "move_file", phase |-> "ready", src |-> p, dst |-> q, doc |-> d] \in FileCall
    BY DEF FileCall
  <2> QED
    BY <1>1, <1>2, <2>1, <2>2 DEF MoveFile
<1>3. ASSUME NEW s \in Source, NEW d \in Dir, RenameDirectory(c, s, d) PROVE FileInv'
  <2>1. [tool |-> "rename_directory", phase |-> "waiting", src |-> s, dst |-> d] \in DirCall
    BY DEF DirCall
  <2> QED
    BY <1>1, <1>3, <2>1 DEF RenameDirectory
<1>4. ASSUME NEW s \in Source, NEW d \in Dir, MoveDirectory(c, s, d) PROVE FileInv'
  <2>1. [tool |-> "move_directory", phase |-> "ready", src |-> s, dst |-> d] \in DirCall
    BY DEF DirCall
  <2> QED
    BY <1>1, <1>4, <2>1 DEF MoveDirectory
<1> QED
  BY <1>2, <1>3, <1>4

LEMMA WaitKeeps ==
  ASSUME FileInv, NEW c \in Call, Waited(c) \/ GiveUp(c) \/ Refused(c) PROVE FileInv'
<1>0. Types
  BY DEF FileInv
<1>1. CASE GiveUp(c) \/ Refused(c)
  BY <1>1, CallKeeps DEF GiveUp, Refused, Return, Holds
<1>2. CASE Waited(c)
  <2>1. call[c] \in DirCall
    BY <1>0, <1>2 DEF Types, Waited, FileCall
  <2> DEFINE m == [call[c] EXCEPT !.phase = "ready"]
  <2>2. m \in DirCall /\ m.phase = "ready" /\ m.dst = call[c].dst
    BY <2>1 DEF DirCall
  <2>3. call' = [call EXCEPT ![c] = m]
    BY <1>2 DEF Waited
  <2> HIDE DEF m
  <2>4. InRoot(m.dst)
    BY <1>0, <1>2, <2>2 DEF Types, Waited
  <2> QED
    BY <1>2, <2>2, <2>3, <2>4, CallKeeps DEF Waited, Holds
<1> QED
  BY <1>1, <1>2

-----------------------------------------------------------------------------
(* Under the lock. *)

\* A call that may take the lock.
LEMMA ReadyCall ==
  ASSUME Types, NEW c \in Call, call[c] # None
  PROVE  \/ call[c] \in FileCall /\ call[c].tool = "move_file"
         \/ call[c] \in DirCall /\ call[c].tool # "move_file"
  BY DEF Types, FileCall, DirCall

\* The move on disk.
LEMMA DiskTypes ==
  ASSUME Types, NEW m \in FileCall \cup DirCall, OnDisk(m), Fits(m)
  PROVE  dirs' \subseteq Dir /\ file' \in [Path -> Doc \cup {None}]
<1>1. CASE m \in FileCall
  BY <1>1 DEF OnDisk, Types, FileCall, Target
<1>2. CASE m \in DirCall
  <2>1. m.tool # "move_file"
    BY <1>2 DEF DirCall
  <2>2. file' \in [Path -> Doc \cup {None}]
    BY <2>1 DEF OnDisk, Types
  <2>3. dirs' \subseteq Dir
    <3>1. ASSUME NEW d \in dirs, Below(m.src, d)
          PROVE  Target(m) \o SubSeq(d, Len(m.src) + 1, Len(d)) \in Dir
      BY <2>1, <3>1 DEF Fits, Within
    <3>2. dirs' = {d \in dirs : ~Within(m.src, d)} \cup {d \in Dir : Within(d, Target(m))}
            \cup {Target(m) \o SubSeq(d, Len(m.src) + 1, Len(d)) : d \in {e \in dirs : Below(m.src, e)}}
      BY <2>1 DEF OnDisk
    <3> QED
      BY <3>1, <3>2 DEF Types
  <2> QED
    BY <2>2, <2>3
<1> QED
  BY <1>1, <1>2

\* The rows it leaves: every document keeps its row, at its new path.
LEMMA FileRows ==
  ASSUME Types, NEW m \in FileCall, InRoot(m.dst)
  PROVE  /\ NewRows(m) \in [Doc -> Row \cup {None}]
         /\ \A d \in Doc : /\ NewRows(m)[d] # None <=> HasRow(d)
                           /\ d # m.doc => NewRows(m)[d] = row[d]
                           /\ d = m.doc /\ HasRow(d) => NewRows(m)[d].path = m.dst
<1>1. RootOf(m.dst) \in Roots /\ m.tool = "move_file" /\ m.doc \in Doc /\ m.dst \in Path
  BY RootOfPath DEF FileCall
<1> DEFINE new == [path |-> m.dst, root |-> RootOf(m.dst)]
<1>2. new \in Row /\ new # None /\ new.path = m.dst
  BY <1>1, NoneIsNone DEF Row
<1>3. NewRows(m) = IF HasRow(m.doc) THEN [row EXCEPT ![m.doc] = new] ELSE row
  BY <1>1 DEF NewRows
<1> HIDE DEF new
<1> QED
  BY <1>1, <1>2, <1>3 DEF Types, HasRow

LEMMA DirectoryRows ==
  ASSUME Types, NEW m \in DirCall, InRoot(m.dst), Fits(m)
  PROVE  \A R \in {Repathed(m), NewRows(m)} :
           /\ R \in [Doc -> Row \cup {None}]
           /\ \A d \in Doc : /\ R[d] # None <=> HasRow(d)
                             /\ HasRow(d) => R[d].path = Moved(row[d].path, m.src, m.dst)
<1>1. RootOf(m.dst) \in Roots /\ m.tool # "move_file"
  BY RootOfPath DEF DirCall
<1>2. ASSUME NEW d \in Doc, HasRow(d)
      PROVE  /\ Repathed(m)[d] \in Row /\ Repathed(m)[d] # None
             /\ Repathed(m)[d].path = Moved(row[d].path, m.src, m.dst)
  <2>1. Moved(row[d].path, m.src, m.dst) \in Path /\ row[d] \in Row
    BY <1>1, <1>2 DEF Fits, Types, HasRow
  <2>2. Repathed(m)[d] = [row[d] EXCEPT !.path = Moved(row[d].path, m.src, m.dst)]
    BY <1>2 DEF Repathed
  <2>3. Repathed(m)[d] \in Row /\ Repathed(m)[d].path = Moved(row[d].path, m.src, m.dst)
    BY <2>1, <2>2 DEF Row
  <2> QED
    BY <2>3, NoneIsNone
<1>3. /\ Repathed(m) \in [Doc -> Row \cup {None}]
      /\ \A d \in Doc : ~HasRow(d) => Repathed(m)[d] = None
  BY <1>2 DEF Repathed
<1>4. NewRows(m) = Rerooted(m, Repathed(m))
  BY <1>1 DEF NewRows
<1> HIDE DEF Repathed
<1>5. ASSUME NEW d \in Doc, HasRow(d)
      PROVE  /\ NewRows(m)[d] \in Row /\ NewRows(m)[d] # None
             /\ NewRows(m)[d].path = Repathed(m)[d].path
  <2>1. \/ NewRows(m)[d] = Repathed(m)[d]
        \/ NewRows(m)[d] = [Repathed(m)[d] EXCEPT !.root = RootOf(m.dst)]
    BY <1>4 DEF Rerooted
  <2>2. NewRows(m)[d] \in Row /\ NewRows(m)[d].path = Repathed(m)[d].path
    BY <1>1, <1>2, <1>5, <2>1 DEF Row
  <2> QED
    BY <2>2, NoneIsNone
<1>6. /\ NewRows(m) \in [Doc -> Row \cup {None}]
      /\ \A d \in Doc : ~HasRow(d) => NewRows(m)[d] = None
  BY <1>3, <1>4, <1>5 DEF Rerooted
<1> QED
  BY <1>2, <1>3, <1>5, <1>6

\* The points that a move of rows concerns are those of the rows that it moved:
\* index and registry agreed before.
LEMMA RewritingBegins ==
  ASSUME FileInv, NEW c \in Call, Unlocked, NEW m, m = call[c], m # None, Fits(m),
         row' = NewRows(m), m.tool = "move_file" => HasRow(m.doc),
         UNCHANGED <<payload, history>>
  PROVE  /\ \A d \in Doc : payload'[d] # None => NewPath(m, payload'[d]) \in Path
         /\ \A d \in Doc \ Behind' : HasRow(d)' /\ payload'[d] # None =>
              row'[d].path = IF d \in Concerned(m)' THEN NewPath(m, payload'[d]) ELSE payload'[d]
<1>0. Types /\ InRoot(m.dst)
  BY DEF FileInv, Types
<1>1. Concerned(m)' = Concerned(m)
  BY DEF Concerned
<1>2. \A d \in Doc \ Behind : HasRow(d) /\ payload[d] # None => payload[d] = row[d].path
  BY DEF FileInv, IndexFollowsRows
<1>3. CASE m \in FileCall /\ m.tool = "move_file"
  <2>1. \A d \in Doc : /\ NewRows(m)[d] # None <=> HasRow(d)
                       /\ d # m.doc => NewRows(m)[d] = row[d]
                       /\ d = m.doc /\ HasRow(d) => NewRows(m)[d].path = m.dst
    BY <1>0, <1>3, FileRows
  <2>2. m.dst \in Path
    BY <1>3 DEF FileCall
  <2> QED
    BY <1>1, <1>2, <1>3, <2>1, <2>2 DEF Concerned, NewPath, HasRow
<1>4. CASE m \in DirCall /\ m.tool # "move_file"
  <2>1. \A d \in Doc : /\ NewRows(m)[d] # None <=> HasRow(d)
                       /\ HasRow(d) => NewRows(m)[d].path = Moved(row[d].path, m.src, m.dst)
    BY <1>0, <1>4, DirectoryRows
  <2>2. \A d \in Doc : payload[d] # None => Moved(payload[d], m.src, m.dst) \in Path
    BY <1>4 DEF Fits
  <2>3. \A p : ~Below(m.src, p) => Moved(p, m.src, m.dst) = p
    BY DEF Moved
  <2> QED
    BY <1>1, <1>2, <1>4, <2>1, <2>2, <2>3 DEF Concerned, NewPath, HasRow
<1> QED
  BY <1>0, <1>3, <1>4, ReadyCall

LEMMA ExecuteKeeps == ASSUME FileInv, NEW c \in Call, Execute(c) PROVE FileInv'
<1>a. PICK m : m = call[c]
  OBVIOUS
<1>0. Types /\ m # None /\ m.phase = "ready" /\ Unlocked /\ Fits(m) /\ OnDisk(m) /\ row' = NewRows(m)
  BY <1>a DEF FileInv, Execute
<1>1. /\ InRoot(m.dst)
      /\ \/ m \in FileCall /\ m.tool = "move_file"
         \/ m \in DirCall /\ m.tool # "move_file"
  BY <1>0, <1>a, ReadyCall DEF Types
<1>2. row' \in [Doc -> Row \cup {None}]
  BY <1>0, <1>1, FileRows, DirectoryRows
<1>3. dirs' \subseteq Dir /\ file' \in [Path -> Doc \cup {None}]
  BY <1>0, <1>1, DiskTypes
<1>4. \A b \in Call : ~Holds(b)
  BY <1>0 DEF Unlocked, Holds
<1>5. CASE m.tool = "move_file" /\ ~HasRow(m.doc)
  <2>1. call' = [call EXCEPT ![c] = None] /\ row' = row /\ UNCHANGED <<payload, history>>
    BY <1>0, <1>5, <1>a DEF Execute, Return, NewRows
  <2>2. Types'
    BY <1>0, <1>2, <1>3, <1>4, <2>1 DEF Types, Holds, InRoot, Execute
  <2>3. Unlocked'
    BY <1>0, <2>1 DEF Unlocked, Types
  <2>4. IndexFollowsRows'
    BY <1>0, <2>1 DEF FileInv, IndexFollowsRows, HasRow
  <2> QED
    BY <2>2, <2>3, <2>4, UnlockedKeeps
<1>6. CASE ~(m.tool = "move_file" /\ ~HasRow(m.doc))
  <2> DEFINE n == [m EXCEPT !.phase = "payload"]
  <2>1. n \in FileCall \cup DirCall /\ n.phase = "payload" /\ n # None /\ n.dst = m.dst
    <3>1. n \in FileCall \cup DirCall /\ n.phase = "payload" /\ n.dst = m.dst
      BY <1>1 DEF FileCall, DirCall
    <3> QED
      BY <3>1, NoneIsNone
  <2>2. call' = [call EXCEPT ![c] = n] /\ UNCHANGED <<payload, history>>
    BY <1>6, <1>a DEF Execute
  <2>3. call'[c] = n /\ \A b \in Call \ {c} : call'[b] = call[b]
    BY <1>0, <2>2 DEF Types
  <2>4. /\ \A p : NewPath(n, p) = NewPath(m, p)
        /\ Concerned(n)' = Concerned(m)'
    BY <1>1 DEF NewPath, Concerned, FileCall, DirCall
  <2> HIDE DEF n
  <2>5. Types'
    <3>1. call' \in [Call -> FileCall \cup DirCall \cup {None}]
      BY <1>0, <2>1, <2>2 DEF Types
    <3>2. \A b \in Call : Holds(b)' => b = c
      BY <1>4, <2>3 DEF Holds
    <3>3. \A b \in Call : call'[b] # None => InRoot(call'[b].dst)
      BY <1>0, <1>1, <2>1, <2>3 DEF Types
    <3> QED
      BY <1>0, <1>2, <1>3, <2>2, <3>1, <3>2, <3>3 DEF Types, InRoot
  <2>6. ~Unlocked'
    BY <2>1, <2>3 DEF Unlocked
  <2>7. LockInv'
    <3>1. /\ \A d \in Doc : payload'[d] # None => NewPath(m, payload'[d]) \in Path
          /\ \A d \in Doc \ Behind' : HasRow(d)' /\ payload'[d] # None =>
               row'[d].path = IF d \in Concerned(m)' THEN NewPath(m, payload'[d]) ELSE payload'[d]
      BY <1>0, <1>6, <1>a, <2>2, RewritingBegins
    <3>2. \A b \in Call : Holds(b)' => call'[b] = n
      BY <1>4, <2>3 DEF Holds
    <3> QED
      BY <2>4, <3>1, <3>2 DEF LockInv, Rewritable, Rewriting
  <2> QED
    BY <2>5, <2>6, <2>7 DEF FileInv, IndexFollowsRows
<1> QED
  BY <1>5, <1>6

LEMMA InterruptedKeeps == ASSUME FileInv, NEW c \in Call, Interrupted(c) PROVE FileInv'
<1>a. PICK m : m = call[c]
  OBVIOUS
<1>0. /\ Types /\ m # None /\ Unlocked /\ Fits(m) /\ OnDisk(m) /\ UNCHANGED payload
      /\ row' \in {row} \cup (IF m.tool = "move_file" THEN {NewRows(m)} ELSE {Repathed(m)})
      /\ Behind' = Behind \cup {d \in Doc : row'[d] # row[d]}
      /\ call' = [call EXCEPT ![c] = None]
  BY <1>a DEF FileInv, Interrupted, Return
<1>1. /\ InRoot(m.dst)
      /\ \/ m \in FileCall /\ m.tool = "move_file"
         \/ m \in DirCall /\ m.tool # "move_file"
  BY <1>0, <1>a, ReadyCall DEF Types
<1>2. row' \in [Doc -> Row \cup {None}]
  BY <1>0, <1>1, FileRows, DirectoryRows DEF Types
<1>3. dirs' \subseteq Dir /\ file' \in [Path -> Doc \cup {None}]
  BY <1>0, <1>1, DiskTypes
<1>4. \A b \in Call : ~Holds(b)'
  BY <1>0 DEF Unlocked, Holds, Types
<1>5. Types'
  <2>1. call' \in [Call -> FileCall \cup DirCall \cup {None}] /\ Behind' \subseteq Doc
    BY <1>0 DEF Types
  <2>2. \A b \in Call : call'[b] # None => call'[b] = call[b]
    BY <1>0 DEF Types
  <2> QED
    BY <1>0, <1>2, <1>3, <1>4, <2>1, <2>2 DEF Types, InRoot
<1>6. Unlocked'
  BY <1>4 DEF Unlocked, Holds
<1>7. IndexFollowsRows'
  BY <1>0 DEF FileInv, IndexFollowsRows, HasRow
<1> QED
  BY <1>5, <1>6, <1>7, UnlockedKeeps

LEMMA PayloadKeeps ==
  ASSUME FileInv, NEW c \in Call, WritePayload(c) \/ FailPayload(c) PROVE FileInv'
<1> DEFINE m == call[c]
<1>0. Types /\ Holds(c) /\ Rewritable(m) /\ Rewriting(m) /\ call' = [call EXCEPT ![c] = None]
  BY DEF FileInv, LockInv, Holds, WritePayload, FailPayload, Return
<1>1. PICK D \in SUBSET Concerned(m) :
        /\ payload' = [d \in Doc |-> IF d \in D THEN NewPath(m, payload[d]) ELSE payload[d]]
        /\ Behind' = Behind \cup (Concerned(m) \ D)
        /\ UNCHANGED <<dirs, file, row>>
  <2>1. CASE WritePayload(c)
    <3>1. \A D \in Found(m) : D \subseteq Concerned(m)
      BY DEF Found
    <3> QED
      BY <2>1, <3>1 DEF WritePayload, Rewrite
  <2>2. CASE FailPayload(c)
    BY <2>2 DEF FailPayload, Rewrite
  <2> QED
    BY <2>1, <2>2
<1>2. \A d \in Concerned(m) : payload[d] # None
  BY DEF Concerned
<1>3. Concerned(m) \subseteq Doc
  BY <1>0, ReadyCall DEF Concerned, Holds, FileCall
<1>4. \A b \in Call : /\ ~Holds(b)'
                      /\ call'[b] # None => call'[b] = call[b]
  BY <1>0 DEF Types, Holds
<1>5. Types'
  <2>1. payload' \in [Doc -> Path \cup {None}]
    BY <1>0, <1>1, <1>2 DEF Rewritable, Types
  <2>2. call' \in [Call -> FileCall \cup DirCall \cup {None}]
    BY <1>0 DEF Types
  <2> QED
    BY <1>0, <1>1, <1>3, <1>4, <2>1, <2>2 DEF Types, InRoot
<1>6. Unlocked'
  BY <1>4 DEF Unlocked, Holds
<1>7. IndexFollowsRows'
  BY <1>0, <1>1, <1>2 DEF Rewriting, IndexFollowsRows, HasRow
<1> QED
  BY <1>5, <1>6, <1>7, UnlockedKeeps

LEMMA RestartKeeps == ASSUME FileInv, Restart PROVE FileInv'
<1> DEFINE Lost == UNION {Concerned(call[c]) : c \in {b \in Call : call[b] # None /\ call[b].phase = "payload"}}
<1>0. /\ Types /\ call' = [c \in Call |-> None] /\ Behind' = Behind \cup Lost
      /\ UNCHANGED <<dirs, file, row, payload>>
  BY DEF FileInv, Restart
<1>1. \A c \in Call : call[c] # None => Concerned(call[c]) \subseteq Doc
  BY <1>0, ReadyCall DEF Concerned, FileCall
<1>2. Types'
  BY <1>0, <1>1 DEF Types, Holds
<1>3. Unlocked'
  BY <1>0 DEF Unlocked
<1>4. IndexFollowsRows'
  <2>1. CASE Unlocked
    BY <1>0, <2>1 DEF FileInv, IndexFollowsRows, HasRow
  <2>2. ASSUME NEW c \in Call, Holds(c) PROVE IndexFollowsRows'
    <3>1. Rewriting(call[c]) /\ Concerned(call[c]) \subseteq Behind'
      BY <1>0, <2>2 DEF FileInv, LockInv, Holds
    <3> QED
      BY <1>0, <3>1 DEF Rewriting, IndexFollowsRows, HasRow
  <2> QED
    BY <2>1, <2>2 DEF Unlocked, Holds
<1> QED
  BY <1>2, <1>3, <1>4, UnlockedKeeps

LEMMA StepKeeps == FileInv /\ [Next]_vars => FileInv'
<1> SUFFICES ASSUME FileInv, [Next]_vars PROVE FileInv'
  OBVIOUS
<1> QED
  BY RegisterKeeps, DocumentStepKeeps, OutsideKeeps, StartKeeps, WaitKeeps, ExecuteKeeps,
     InterruptedKeeps, PayloadKeeps, RestartKeeps DEF Next

LEMMA FilesHold == Spec => []FileInv
  BY InitKeeps, StepKeeps, PTL DEF Spec

\* While nobody holds the collection lock, the points of a document carry the
\* path of its row, unless a rewrite failed or its listing left the document
\* out: whatever moved, registered, published or deleted documents between the
\* two halves of a move, however many points there are and whichever of them a
\* listing returns.
THEOREM IndexAgrees == Spec => []IndexFollowsRows
<1>1. FileInv => IndexFollowsRows
  BY DEF FileInv
<1> QED
  BY <1>1, FilesHold, PTL

-----------------------------------------------------------------------------
(* Listings that are not cut. *)

PointsFit == IsFiniteSet(PointsOf(Doc)) /\ Cardinality(PointsOf(Doc)) <= MaxResults

LEMMA ListingsWhole == ASSUME PointsFit PROVE Listings = {StoredPoints}
<1>1. StoredPoints \subseteq PointsOf(Doc)
  BY DEF StoredPoints, PointsOf
<1>2. /\ Cardinality(StoredPoints) \in Nat /\ Cardinality(PointsOf(Doc)) \in Nat
      /\ Cardinality(StoredPoints) <= Cardinality(PointsOf(Doc))
  BY <1>1, FS_Subset, FS_CardinalityType DEF PointsFit
<1>3. Cardinality(StoredPoints) <= MaxResults
  BY <1>2, IndexAssumption DEF PointsFit
<1> QED
  BY <1>3 DEF Listings

\* A listing of all points names the path of every document it has points of.
LEMMA AllFound ==
  ASSUME PointsFit, NEW m, Concerned(m) \subseteq Doc
  PROVE  Found(m) = {Concerned(m)}
<1>1. ASSUME NEW d \in Concerned(m) PROVE Listed(d, StoredPoints)
  <2>1. d \in Doc /\ payload[d] # None
    BY <1>1 DEF Concerned
  <2>2. 1 \in 1..Points[d]
    BY <2>1, IndexAssumption
  <2>3. <<d, 1>> \in {d} \X (1..Points[d])
    BY <2>2
  <2>4. <<d, 1>> \in StoredPoints
    BY <2>1, <2>3, Zenon DEF StoredPoints, PointsOf
  <2> QED
    BY <2>1, <2>2, <2>4 DEF Listed
<1>2. {d \in Concerned(m) : Listed(d, StoredPoints)} = Concerned(m)
  BY <1>1
<1> QED
  BY <1>2, ListingsWhole DEF Found

LEMMA NothingMissed ==
  ASSUME PointsFit, Types, missed = {}, [Next]_vars
  PROVE  missed' = {}
<1>1. ASSUME NEW c \in Call, WritePayload(c) PROVE missed' = {}
  <2>1. Concerned(call[c]) \subseteq Doc
    BY <1>1, ReadyCall DEF WritePayload, Concerned, Types, FileCall
  <2>2. Found(call[c]) = {Concerned(call[c])}
    BY <2>1, AllFound
  <2> QED
    BY <1>1, <2>2 DEF WritePayload
<1>2. ASSUME NEW p \in Path, Register(p) PROVE missed' = {}
  BY <1>2 DEF Register, InStep
<1>3. ASSUME NEW d \in Doc, Index(d) \/ DeleteDocument(d) PROVE missed' = {}
  BY <1>3 DEF Index, DeleteDocument, InStep
<1> QED
  BY <1>1, <1>2, <1>3
  DEF Next, vars, OutsideMove, CreateDirectory, DeleteDirectory, MoveFile, RenameDirectory,
      MoveDirectory, Start, Waited, GiveUp, Execute, Interrupted, Refused, FailPayload, Restart

\* As long as the collection has no more points than the vector library lists,
\* the index disagrees with the registry about a document only if its last
\* rewrite failed.
THEOREM WholeListingsSuffice == ASSUME PointsFit PROVE Spec => []OnlyFailuresLag
<1> DEFINE Inv == FileInv /\ missed = {}
<1>1. Init => Inv
  BY InitKeeps DEF Init
<1>2. Inv /\ [Next]_vars => Inv'
  <2> SUFFICES ASSUME Inv, [Next]_vars PROVE Inv'
    OBVIOUS
  <2>1. missed' = {}
    BY NothingMissed DEF FileInv
  <2> QED
    BY <2>1, StepKeeps
<1>3. Inv => OnlyFailuresLag
  BY DEF FileInv, IndexFollowsRows, OnlyFailuresLag
<1> HIDE DEF Inv
<1> QED
  BY <1>1, <1>2, <1>3, PTL DEF Spec

-----------------------------------------------------------------------------
(* Paths: below is a proper prefix. *)

LEMMA BelowIsPrefix ==
  ASSUME NEW d \in Seq(STRING), NEW p \in Seq(STRING)
  PROVE  Below(d, p) <=> Len(p) > Len(d) /\ \A i \in 1..Len(d) : p[i] = d[i]
<1>1. ASSUME Len(p) > Len(d)
      PROVE  /\ SubSeq(p, 1, Len(d)) \in Seq(STRING) /\ Len(SubSeq(p, 1, Len(d))) = Len(d)
             /\ \A i \in 1..Len(d) : SubSeq(p, 1, Len(d))[i] = p[i]
  <2>1. Len(d) \in Nat /\ Len(p) \in Nat
    BY LenProperties
  <2>2. \A i \in 1..Len(d) : 1 + i - 1 = i
    BY <2>1
  <2> QED
    BY <1>1, <2>1, <2>2, SubSeqProperties
<1>2. ASSUME Len(p) > Len(d), \A i \in 1..Len(d) : p[i] = d[i] PROVE SubSeq(p, 1, Len(d)) = d
  BY <1>1, <1>2, SeqEqual
<1> QED
  BY <1>1, <1>2 DEF Below

LEMMA BelowWithin ==
  ASSUME NEW r \in Seq(STRING), NEW t \in Seq(STRING), NEW p \in Seq(STRING),
         Within(r, t), Below(t, p)
  PROVE  Below(r, p)
<1>1. CASE r = t
  BY <1>1
<1>2. CASE Below(r, t)
  <2>1. /\ Len(p) > Len(t) /\ \A i \in 1..Len(t) : p[i] = t[i]
        /\ Len(t) > Len(r) /\ \A i \in 1..Len(r) : t[i] = r[i]
    BY <1>2, BelowIsPrefix
  <2>2. Len(r) \in Nat /\ Len(t) \in Nat /\ Len(p) \in Nat
    BY LenProperties
  <2>3. Len(p) > Len(r) /\ \A i \in 1..Len(r) : p[i] = r[i]
    BY <2>1, <2>2
  <2> QED
    BY <2>3, BelowIsPrefix
<1> QED
  BY <1>1, <1>2 DEF Within

\* What a directory contained is below its destination after the move.
LEMMA MovedIsBelow ==
  ASSUME NEW s \in Seq(STRING), NEW t \in Seq(STRING), NEW p \in Seq(STRING), Below(s, p)
  PROVE  Below(t, Moved(p, s, t))
<1> DEFINE rest == SubSeq(p, Len(s) + 1, Len(p))
<1>1. Len(s) \in Nat /\ Len(p) \in Nat /\ Len(p) > Len(s) /\ Len(t) \in Nat
  BY LenProperties, BelowIsPrefix
<1>2. rest \in Seq(STRING) /\ Len(rest) = Len(p) - Len(s)
  <2>1. Len(s) + 1 \in 1..Len(p) + 1 /\ Len(p) \in Len(s) + 1 - 1..Len(p)
    BY <1>1
  <2> QED
    BY <1>1, <2>1, SubSeqProperties
<1> HIDE DEF rest
<1>3. PICK u : u = t \o rest
  OBVIOUS
<1>4. /\ u \in Seq(STRING) /\ Len(u) = Len(t) + Len(rest)
      /\ \A i \in 1..Len(t) + Len(rest) : u[i] = IF i <= Len(t) THEN t[i] ELSE rest[i - Len(t)]
  <2>1. rest \in Seq(STRING)
    BY <1>2
  <2>2. /\ t \o rest \in Seq(STRING)
        /\ Len(t \o rest) = Len(t) + Len(rest)
        /\ \A i \in 1..Len(t) + Len(rest) :
             (t \o rest)[i] = IF i <= Len(t) THEN t[i] ELSE rest[i - Len(t)]
    BY <2>1, ConcatProperties, Zenon
  <2> QED
    BY <1>3, <2>2, Zenon
<1>5. Len(u) > Len(t) /\ \A i \in 1..Len(t) : u[i] = t[i]
  <2>0. \A a, b \in Nat : b > a => b - a \in Nat \ {0}
    OBVIOUS
  <2>1. PICK m \in Nat, n \in Nat \ {0} : m = Len(t) /\ n = Len(rest)
    BY <1>1, <1>2, <2>0, Zenon
  <2>2. m + n > m /\ \A i \in 1..m : i \in 1..m + n /\ i <= m
    OBVIOUS
  <2>3. Len(u) = m + n /\ \A i \in 1..m + n : u[i] = IF i <= m THEN t[i] ELSE rest[i - m]
    BY <1>4, <2>1, Zenon
  <2> QED
    BY <2>1, <2>2, <2>3, Zenon
<1>6. Below(t, u)
  BY <1>4, <1>5, BelowIsPrefix
<1> QED
  BY <1>3, <1>6 DEF Moved, rest

-----------------------------------------------------------------------------
(* Rows stay in their roots. *)

LEMMA PathsAreSequences ==
  /\ Roots \subseteq Seq(STRING)
  /\ \A p \in Path : p \in Seq(STRING) /\ p \notin Roots
  /\ \A d \in Dir : d \in Seq(STRING)
  BY TreeAssumption, RootsAssumption

\* The directories' rows: those below the source go below the destination, and
\* those below the destination get its root.
LEMMA DirectoryRooted ==
  ASSUME Types, NEW m \in DirCall, InRoot(m.dst), Fits(m), row' = NewRows(m),
         NEW d \in Doc, Rooted(d)
  PROVE  Rooted(d)'
<1>1. /\ RootOf(m.dst) \in Roots /\ Within(RootOf(m.dst), m.dst) /\ m.tool # "move_file"
      /\ m.dst \in Seq(STRING) /\ m.src \in Seq(STRING)
  BY RootOfPath, PathsAreSequences, SourceAssumption DEF DirCall
<1>2. row[d] \in Row /\ row[d].path \in Path /\ row[d].root \in Roots /\ HasRow(d)
  BY DEF Types, Rooted, HasRow, Row
<1>3. PICK path : path = Moved(row[d].path, m.src, m.dst)
  OBVIOUS
<1>4. path \in Path
  BY <1>1, <1>2, <1>3 DEF Fits
<1>5. PICK r : r = Repathed(m)[d]
  OBVIOUS
<1>6. r \in Row /\ r.path = path /\ r.root = row[d].root /\ r # None
  <2>1. r = [row[d] EXCEPT !.path = path]
    BY <1>2, <1>3, <1>5 DEF Repathed
  <2>2. r \in Row /\ r.path = path /\ r.root = row[d].root
    BY <1>2, <1>4, <2>1 DEF Row
  <2> QED
    BY <2>2, NoneIsNone
<1>7. row'[d] = IF Below(m.dst, path) THEN [r EXCEPT !.root = RootOf(m.dst)] ELSE r
  BY <1>1, <1>5, <1>6 DEF NewRows, Rerooted
<1>8. CASE Below(m.dst, path)
  <2>1. row'[d] \in Row /\ row'[d].path = path /\ row'[d].root = RootOf(m.dst)
    BY <1>1, <1>6, <1>7, <1>8 DEF Row
  <2>2. Below(RootOf(m.dst), path)
    BY <1>1, <1>4, <1>8, BelowWithin, PathsAreSequences
  <2> QED
    BY <1>1, <2>1, <2>2, NoneIsNone DEF Rooted, HasRow
<1>9. CASE ~Below(m.dst, path)
  <2>1. path = row[d].path
    <3>1. ~Below(m.src, row[d].path)
      BY <1>1, <1>2, <1>3, <1>9, MovedIsBelow, PathsAreSequences
    <3> QED
      BY <1>3, <3>1 DEF Moved
  <2> QED
    BY <1>6, <1>7, <1>9, <2>1 DEF Rooted, HasRow
<1> QED
  BY <1>8, <1>9

LEMMA FileRooted ==
  ASSUME Types, NEW m \in FileCall, InRoot(m.dst), row' = NewRows(m), NEW d \in Doc, Rooted(d)
  PROVE  Rooted(d)'
<1>1. /\ RootOf(m.dst) \in Roots /\ Within(RootOf(m.dst), m.dst) /\ m.dst \in Path
      /\ m.tool = "move_file" /\ m.doc \in Doc
  BY RootOfPath DEF FileCall
<1>2. Below(RootOf(m.dst), m.dst)
  BY <1>1, PathsAreSequences DEF Within
<1>3. CASE d = m.doc
  <2>1. row'[d] = [path |-> m.dst, root |-> RootOf(m.dst)]
    BY <1>1, <1>3 DEF NewRows, Types, Rooted
  <2>2. row'[d] \in Row
    BY <1>1, <2>1 DEF Row
  <2> QED
    BY <1>1, <1>2, <2>1, <2>2, NoneIsNone DEF Rooted, HasRow
<1>4. CASE d # m.doc
  BY <1>1, <1>4 DEF NewRows, Types, Rooted, HasRow
<1> QED
  BY <1>3, <1>4

\* The body of RootsFollowRows.
RootsKept ==
  \A c \in Call : call[c] # None /\ call[c].phase = "ready"
                  /\ call'[c] # call[c] /\ faults' = faults =>
    \A d \in Doc : Rooted(d) /\ HasRow(d)' => Rooted(d)'

\* Only the execution of the call changes rows.
LEMMA StepKeepsRoots == FileInv /\ faults \in Nat /\ [Next]_vars => RootsKept
<1> SUFFICES ASSUME FileInv, faults \in Nat, [Next]_vars,
                    NEW c \in Call, call[c] # None, call[c].phase = "ready",
                    call'[c] # call[c], faults' = faults,
                    NEW d \in Doc, Rooted(d)
             PROVE  Rooted(d)'
  BY DEF RootsKept
<1>0. Types
  BY DEF FileInv
<1>1. ~Fault
  BY DEF Fault
<1>2. CASE row' = row
  BY <1>2 DEF Rooted, HasRow
<1>3. CASE UNCHANGED call
  BY <1>3
<1>4. ASSUME NEW b \in Call, Execute(b) PROVE Rooted(d)'
  <2>1. b = c
    BY <1>0, <1>4 DEF Execute, Return, Types
  <2>2. PICK m : m = call[c]
    OBVIOUS
  <2>3. InRoot(m.dst) /\ Fits(m) /\ row' = NewRows(m) /\ (m \in FileCall \/ m \in DirCall)
    BY <1>0, <1>4, <2>1, <2>2, ReadyCall DEF Execute, Types
  <2> QED
    BY <1>0, <2>3, FileRooted, DirectoryRooted
<1>5. CASE \/ \E p \in Path : Register(p)
           \/ \E e \in Doc : Index(e) \/ DeleteDocument(e)
           \/ \E p, q \in Path : OutsideMove(p, q)
           \/ \E e \in Dir : CreateDirectory(e) \/ DeleteDirectory(e)
           \/ UNCHANGED vars
  BY <1>3, <1>5 DEF Register, Index, DeleteDocument, OutsideMove, CreateDirectory,
                    DeleteDirectory, vars
<1>6. ASSUME NEW b \in Call,
             \/ \E p, q \in Path : MoveFile(b, p, q)
             \/ \E s \in Source, e \in Dir : RenameDirectory(b, s, e) \/ MoveDirectory(b, s, e)
             \/ Waited(b) \/ GiveUp(b) \/ Refused(b) \/ WritePayload(b)
      PROVE  Rooted(d)'
  BY <1>2, <1>6 DEF MoveFile, RenameDirectory, MoveDirectory, Start, Waited, GiveUp, Refused,
                    WritePayload
<1>7. ASSUME NEW b \in Call, Interrupted(b) \/ FailPayload(b) PROVE FALSE
  BY <1>1, <1>7 DEF Interrupted, FailPayload
<1>8. CASE Restart
  BY <1>1, <1>8 DEF Restart
<1> QED
  BY <1>4, <1>5, <1>6, <1>7, <1>8 DEF Next

LEMMA FaultsAreCounted == Spec => [](faults \in 0..MaxFaults)
<1>1. Init => faults \in 0..MaxFaults
  BY BoundAssumption DEF Init
<1>2. ASSUME [Next]_vars PROVE faults' = faults \/ Fault
  <2>1. ASSUME NEW c \in Call,
               \/ \E p, q \in Path : MoveFile(c, p, q)
               \/ \E s \in Source, d \in Dir : RenameDirectory(c, s, d) \/ MoveDirectory(c, s, d)
        PROVE  faults' = faults
    BY <2>1 DEF MoveFile, RenameDirectory, MoveDirectory, Start
  <2>2. ASSUME NEW c \in Call,
               \/ Waited(c) \/ GiveUp(c) \/ Refused(c) \/ Execute(c)
               \/ Interrupted(c) \/ WritePayload(c) \/ FailPayload(c)
        PROVE  faults' = faults \/ Fault
    BY <2>2 DEF Waited, GiveUp, Refused, Execute, Interrupted, WritePayload, FailPayload
  <2>3. ASSUME NEW p \in Path, Register(p) \/ \E q \in Path : OutsideMove(p, q)
        PROVE  faults' = faults \/ Fault
    BY <2>3 DEF Register, OutsideMove, NoFault
  <2>4. CASE \/ \E d \in Doc : Index(d) \/ DeleteDocument(d)
             \/ \E d \in Dir : CreateDirectory(d) \/ DeleteDirectory(d)
             \/ UNCHANGED vars
    BY <2>4 DEF Index, DeleteDocument, CreateDirectory, DeleteDirectory, vars
  <2>5. CASE Restart
    BY <2>5 DEF Restart
  <2> QED
    BY <1>2, <2>1, <2>2, <2>3, <2>4, <2>5 DEF Next
<1>3. faults \in 0..MaxFaults /\ [Next]_vars => (faults \in 0..MaxFaults)'
  BY <1>2, BoundAssumption DEF Fault
<1> QED
  BY <1>1, <1>3, PTL DEF Spec

\* A move never leaves a row with a document root that does not contain its
\* path, whichever rows were registered or moved while it waited.
THEOREM RootsAgree == Spec => RootsFollowRows
<1>1. FileInv /\ faults \in 0..MaxFaults /\ [Next]_vars => [RootsKept]_vars
  BY StepKeepsRoots, BoundAssumption
<1>2. Spec => [][RootsKept]_vars
  BY <1>1, FilesHold, FaultsAreCounted, PTL DEF Spec
<1> QED
  BY <1>2 DEF RootsFollowRows, RootsKept

-----------------------------------------------------------------------------
(* Paths: what is below, and what is above. *)

Rest(s, p) == SubSeq(p, Len(s) + 1, Len(p))

\* A path below s is s and a rest, and what precedes the rest may change.
LEMMA RestOf ==
  ASSUME NEW s \in Seq(STRING), NEW p \in Seq(STRING), Below(s, p)
  PROVE  /\ Rest(s, p) \in Seq(STRING) /\ Rest(s, p) # <<>>
         /\ p = s \o Rest(s, p)
<1>1. Len(s) \in Nat /\ Len(p) \in Nat /\ Len(p) > Len(s)
  BY LenProperties, BelowIsPrefix
<1>2. Rest(s, p) \in Seq(STRING) /\ Len(Rest(s, p)) = Len(p) - Len(s)
  <2>1. Len(s) + 1 \in 1..Len(p) + 1 /\ Len(p) \in Len(s) + 1 - 1..Len(p)
    BY <1>1
  <2> QED
    BY <1>1, <2>1, SubSeqProperties DEF Rest
<1>3. SubSeq(p, 1, Len(s)) \o SubSeq(p, Len(s) + 1, Len(p)) = SubSeq(p, 1, Len(p))
  <2>1. 1 \in 1..Len(p) + 1 /\ Len(s) \in 1 - 1..Len(p) /\ Len(p) \in Len(s)..Len(p)
    BY <1>1
  <2> QED
    BY <2>1, ConcatAdjacentSubSeq
<1>4. SubSeq(p, 1, Len(p)) = p /\ SubSeq(p, 1, Len(s)) = s
  BY SubSeqFull DEF Below
<1>5. Rest(s, p) # <<>>
  BY <1>1, <1>2, EmptySeq
<1> QED
  BY <1>2, <1>3, <1>4, <1>5 DEF Rest

LEMMA RestOfConcat ==
  ASSUME NEW s \in Seq(STRING), NEW u \in Seq(STRING), u # <<>>
  PROVE  s \o u \in Seq(STRING) /\ Below(s, s \o u) /\ Rest(s, s \o u) = u
<1> DEFINE p == s \o u
<1>1. Len(s) \in Nat /\ Len(u) \in Nat \ {0}
  BY LenProperties, EmptySeq
<1>2. /\ p \in Seq(STRING) /\ Len(p) = Len(s) + Len(u)
      /\ \A i \in 1..Len(s) + Len(u) : p[i] = IF i <= Len(s) THEN s[i] ELSE u[i - Len(s)]
  BY ConcatProperties
<1> HIDE DEF p
<1>3. Below(s, p)
  BY <1>1, <1>2, BelowIsPrefix
<1>4. Rest(s, p) \in Seq(STRING) /\ p = s \o Rest(s, p)
  BY <1>2, <1>3, RestOf
<1>5. Rest(s, p) = u
  BY <1>4, ConcatSimplifications DEF p
<1> QED
  BY <1>2, <1>3, <1>5 DEF p

LEMMA ParentOf ==
  ASSUME NEW p \in Seq(STRING), p # <<>>
  PROVE  /\ Parent(p) \in Seq(STRING) /\ Len(Parent(p)) = Len(p) - 1
         /\ \A i \in 1..Len(p) - 1 : Parent(p)[i] = p[i]
<1>1. Len(p) \in Nat \ {0} /\ \A i \in 1..Len(p) : p[i] \in STRING
  BY EmptySeq, ElementOfSeq
<1>2. PICK n \in Nat : n = Len(p) - 1
  BY <1>1
<1>3. \A i \in 1..n : p[i] \in STRING
  BY <1>1, <1>2
<1>4. \A i \in 1..n : 1 + i - 1 = i
  OBVIOUS
<1>5. /\ SubSeq(p, 1, n) \in Seq(STRING) /\ Len(SubSeq(p, 1, n)) = n
      /\ \A i \in 1..n : SubSeq(p, 1, n)[i] = p[i]
  BY <1>3, <1>4, SubSeqProperties
<1> QED
  BY <1>2, <1>5 DEF Parent

LEMMA AboveParent ==
  ASSUME NEW d \in Seq(STRING), NEW p \in Seq(STRING), p # <<>>
  PROVE  Below(d, p) <=> Within(d, Parent(p))
<1>1. Len(d) \in Nat /\ Len(p) \in Nat \ {0}
  BY LenProperties, EmptySeq
<1>2. /\ Parent(p) \in Seq(STRING) /\ Len(Parent(p)) = Len(p) - 1
      /\ \A i \in 1..Len(p) - 1 : Parent(p)[i] = p[i]
  BY ParentOf
<1>3. Below(d, p) <=> Len(p) > Len(d) /\ \A i \in 1..Len(d) : p[i] = d[i]
  BY BelowIsPrefix
<1>4. Within(d, Parent(p)) <=> Len(p) > Len(d) /\ \A i \in 1..Len(d) : Parent(p)[i] = d[i]
  <2>1. Below(d, Parent(p)) <=> Len(Parent(p)) > Len(d) /\ \A i \in 1..Len(d) : Parent(p)[i] = d[i]
    BY <1>2, BelowIsPrefix
  <2>2. d = Parent(p) => Len(p) > Len(d) /\ \A i \in 1..Len(d) : Parent(p)[i] = d[i]
    BY <1>1, <1>2
  <2>3. Len(d) = Len(p) - 1 /\ (\A i \in 1..Len(d) : Parent(p)[i] = d[i]) => d = Parent(p)
    <3> SUFFICES ASSUME Len(d) = Len(p) - 1, \A i \in 1..Len(d) : Parent(p)[i] = d[i]
                 PROVE  d = Parent(p)
      OBVIOUS
    <3>1. Len(d) = Len(Parent(p)) /\ \A i \in 1..Len(d) : d[i] = Parent(p)[i]
      BY <1>2
    <3> QED
      BY <1>2, <3>1, SeqEqual
  <2> QED
    BY <1>1, <1>2, <2>1, <2>2, <2>3 DEF Within
<1>5. \A i \in 1..Len(d) : Len(p) > Len(d) => i \in 1..Len(p) - 1
  BY <1>1
<1> QED
  BY <1>1, <1>2, <1>3, <1>4, <1>5

\* Of two paths above a third one is above the other.
LEMMA AboveAll ==
  ASSUME NEW d \in Seq(STRING), NEW r \in Seq(STRING), NEW t \in Seq(STRING),
         Within(d, t), Within(r, t)
  PROVE  Within(d, r) \/ Below(r, d)
<1>1. Len(d) \in Nat /\ Len(r) \in Nat /\ Len(t) \in Nat
  BY LenProperties
<1>2. /\ Len(d) <= Len(t) /\ \A i \in 1..Len(d) : t[i] = d[i]
      /\ Len(r) <= Len(t) /\ \A i \in 1..Len(r) : t[i] = r[i]
  BY <1>1, BelowIsPrefix DEF Within
<1>3. CASE Len(d) < Len(r)
  BY <1>1, <1>2, <1>3, BelowIsPrefix DEF Within
<1>4. CASE Len(r) < Len(d)
  BY <1>1, <1>2, <1>4, BelowIsPrefix
<1>5. CASE Len(d) = Len(r)
  BY <1>1, <1>2, <1>5, SeqEqual DEF Within
<1> QED
  BY <1>1, <1>3, <1>4, <1>5

LEMMA AboveWithin ==
  ASSUME NEW a \in Seq(STRING), NEW b \in Seq(STRING), NEW c \in Seq(STRING),
         Below(a, b), Within(b, c)
  PROVE  Below(a, c)
  BY BelowWithin DEF Within

-----------------------------------------------------------------------------
(* The tree: what exists is in directories that exist.                      *)

InTree == /\ \A d \in dirs : HasParent(d)
          /\ \A p \in Path : file[p] # None => HasParent(p)
OnTree(p) == p \in dirs \/ (p \in Path /\ file[p] # None)

\* What is above something that exists exists: otherwise the longest of the
\* paths above it that are missing would have a child that exists.
LEMMA Ancestors ==
  ASSUME Types, InTree, NEW p, OnTree(p), NEW d \in Seq(STRING), d # <<>>, Below(d, p)
  PROVE  d \in dirs
<1> DEFINE up(k) == SubSeq(p, 1, Len(p) - k)
           S == {k \in 1..Len(p) - Len(d) : up(k) \notin dirs}
<1>1. p \in Seq(STRING) /\ Len(p) \in Nat /\ Len(d) \in Nat \ {0} /\ Len(p) > Len(d)
  BY PathsAreSequences, LenProperties, EmptySeq, BelowIsPrefix DEF OnTree, Types
<1>2. ASSUME NEW k \in 0..Len(p) - 1
      PROVE  /\ up(k) \in Seq(STRING) /\ Len(up(k)) = Len(p) - k
             /\ \A i \in 1..Len(p) - k : up(k)[i] = p[i]
  <2>1. PICK n \in Nat \ {0} : n = Len(p) - k
    BY <1>1
  <2>2. \A i \in 1..n : p[i] \in STRING /\ 1 + i - 1 = i
    BY <1>1, <2>1, ElementOfSeq
  <2>3. /\ SubSeq(p, 1, n) \in Seq(STRING) /\ Len(SubSeq(p, 1, n)) = n
        /\ \A i \in 1..n : SubSeq(p, 1, n)[i] = p[i]
    BY <2>2, SubSeqProperties
  <2> QED
    BY <2>1, <2>3
<1>3. ASSUME NEW k \in 1..Len(p) - 1, HasParent(up(k - 1)) PROVE up(k) \in dirs
  <2>1. k - 1 \in 0..Len(p) - 1 /\ k \in 0..Len(p) - 1 /\ Len(p) - (k - 1) = Len(p) - k + 1
        /\ Len(p) - k \in Nat \ {0}
    BY <1>1
  <2>2. PICK q : q = up(k - 1)
    OBVIOUS
  <2>3. q \in Seq(STRING) /\ q # <<>> /\ Len(q) = Len(p) - k + 1
        /\ \A i \in 1..Len(p) - k + 1 : q[i] = p[i]
    <3>1. q \in Seq(STRING) /\ Len(q) = Len(p) - k + 1 /\ \A i \in 1..Len(p) - k + 1 : q[i] = p[i]
      <4>1. PICK n \in Nat : n = k - 1 /\ n \in 0..Len(p) - 1 /\ Len(p) - n = Len(p) - k + 1
        BY <2>1
      <4>2. q = up(n)
        BY <2>2, <4>1
      <4> HIDE DEF up
      <4> QED
        BY <1>2, <4>1, <4>2
    <3>2. q # <<>>
      BY <2>1, <3>1, EmptySeq
    <3> QED
      BY <3>1, <3>2
  <2>4. /\ Parent(q) \in Seq(STRING) /\ Len(Parent(q)) = Len(p) - k
        /\ \A i \in 1..Len(p) - k : Parent(q)[i] = p[i]
    <3>0. \A l \in Nat : l = Len(p) - k => Len(q) - 1 = l
      BY <1>1, <2>3
    <3>1. PICK n \in Nat : n = Len(p) - k /\ Len(q) - 1 = n
      BY <2>1, <3>0, Zenon
    <3>2. /\ Parent(q) \in Seq(STRING) /\ Len(Parent(q)) = n
          /\ \A i \in 1..n : Parent(q)[i] = q[i]
      BY <2>3, <3>1, ParentOf
    <3>3. \A i \in 1..n : q[i] = p[i]
      BY <2>3, <3>1
    <3> QED
      BY <3>1, <3>2, <3>3
  <2>5. Parent(q) = up(k)
    <3>1. PICK r : r = up(k)
      OBVIOUS
    <3>2. r \in Seq(STRING) /\ Len(r) = Len(p) - k /\ \A i \in 1..Len(p) - k : r[i] = p[i]
      BY <1>2, <2>1, <3>1
    <3>3. Parent(q) = r
      <4> HIDE DEF up
      <4> QED
        BY <2>4, <3>2, SeqEqual
    <3> QED
      BY <3>1, <3>3
  <2>6. Parent(q) # <<>>
    BY <2>1, <2>4, EmptySeq
  <2> QED
    BY <1>3, <2>2, <2>5, <2>6 DEF HasParent
<1>4. up(0) = p
  BY <1>1, SubSeqFull
<1>5. S = {}
  <2> SUFFICES ASSUME S # {} PROVE FALSE
    OBVIOUS
  <2>1. S \in SUBSET Nat /\ IsFiniteSet(S)
    <3>1. IsFiniteSet(1..Len(p) - Len(d))
      BY <1>1, FS_Interval
    <3> QED
      BY <1>1, <3>1, FS_Subset
  <2>2. Min(S) \in S /\ \A x \in S : Min(S) <= x
    <3> HIDE DEF S
    <3> QED
      BY <2>1, LeastExists
  <2>3. PICK k \in S : \A x \in S : k <= x
    BY <2>2
  <2>4. k \in 1..Len(p) - 1 /\ k \in 1..Len(p) - Len(d) /\ up(k) \notin dirs
    BY <1>1, <2>3
  <2>5. CASE k = 1
    <3>1. HasParent(p) /\ k - 1 = 0
      BY <2>5 DEF InTree, OnTree
    <3>2. HasParent(up(k - 1))
      BY <1>4, <3>1
    <3> QED
      BY <1>3, <2>4, <3>2
  <2>6. CASE k > 1
    <3>1. k - 1 \in 1..Len(p) - Len(d) /\ ~(k <= k - 1)
      BY <1>1, <2>4, <2>6
    <3>2. up(k - 1) \in dirs
      <4> HIDE DEF up
      <4> QED
        BY <2>3, <3>1
    <3>3. HasParent(up(k - 1))
      <4> HIDE DEF up
      <4> QED
        BY <3>2 DEF InTree
    <3> QED
      BY <1>3, <2>4, <3>3
  <2> QED
    BY <2>4, <2>5, <2>6
<1>6. Len(p) - Len(d) \in 1..Len(p) - Len(d) /\ Len(p) - Len(d) \in 0..Len(p) - 1
      /\ Len(p) - (Len(p) - Len(d)) = Len(d)
  BY <1>1
<1>7. up(Len(p) - Len(d)) = d
  <2>1. up(Len(p) - Len(d)) = SubSeq(p, 1, Len(d))
    BY <1>6
  <2> QED
    BY <2>1 DEF Below
<1> QED
  BY <1>5, <1>6, <1>7

\* Moving what is below s takes parents along.
LEMMA MovedParent ==
  ASSUME NEW s \in Seq(STRING), NEW t \in Seq(STRING), NEW p \in Seq(STRING), Below(s, p)
  PROVE  \/ Parent(p) = s /\ Parent(t \o Rest(s, p)) = t
         \/ /\ Below(s, Parent(p))
            /\ Parent(t \o Rest(s, p)) = t \o Rest(s, Parent(p))
<1>1. PICK u \in Seq(STRING) : u # <<>> /\ u = Rest(s, p) /\ p = s \o u
  BY RestOf
<1>2. Parent(u) \in Seq(STRING) /\ Len(Parent(u)) = Len(u) - 1
      /\ \A i \in 1..Len(u) - 1 : Parent(u)[i] = u[i]
  BY <1>1, ParentOf
<1>3. ASSUME NEW q \in Seq(STRING) PROVE Parent(q \o u) = q \o Parent(u)
  <2>1. PICK n \in Nat : n = Len(q)
    BY LenProperties
  <2>2. PICK l \in Nat \ {0} : l = Len(u)
    BY <1>1, EmptySeq
  <2>3. PICK v : v = q \o u
    OBVIOUS
  <2>4. PICK w : w = q \o Parent(u)
    OBVIOUS
  <2>5. /\ v \in Seq(STRING) /\ Len(v) = n + l
        /\ \A i \in 1..n + l : v[i] = IF i <= n THEN q[i] ELSE u[i - n]
    BY <1>1, <2>1, <2>2, <2>3, ConcatProperties, Zenon
  <2>6. /\ w \in Seq(STRING) /\ Len(w) = n + (l - 1)
        /\ \A i \in 1..n + (l - 1) : w[i] = IF i <= n THEN q[i] ELSE Parent(u)[i - n]
    <3>1. Parent(u) \in Seq(STRING) /\ Len(Parent(u)) = l - 1
      BY <1>2, <2>2
    <3>2. PICK x : x = Parent(u)
      OBVIOUS
    <3>3. /\ q \o x \in Seq(STRING) /\ Len(q \o x) = Len(q) + Len(x)
          /\ \A i \in 1..Len(q) + Len(x) : (q \o x)[i] = IF i <= Len(q) THEN q[i] ELSE x[i - Len(q)]
      BY <3>1, <3>2, ConcatProperties
    <3>4. q \o x = w /\ Len(x) = l - 1 /\ Len(q) = n
      BY <2>1, <2>4, <3>1, <3>2
    <3> QED
      BY <3>2, <3>3, <3>4, Zenon
  <2>7. v # <<>>
    BY <2>5, EmptySeq
  <2>8. Parent(v) \in Seq(STRING) /\ Len(Parent(v)) = n + l - 1
        /\ \A i \in 1..n + l - 1 : Parent(v)[i] = v[i]
    <3>1. Parent(v) \in Seq(STRING) /\ Len(Parent(v)) = Len(v) - 1
          /\ \A i \in 1..Len(v) - 1 : Parent(v)[i] = v[i]
      BY <2>5, <2>7, ParentOf
    <3>2. Len(v) - 1 = n + l - 1
      BY <2>5
    <3> QED
      BY <3>1, <3>2, Zenon
  <2>9. \A i \in 1..n + l - 1 : Parent(v)[i] = w[i]
    <3> SUFFICES ASSUME NEW i \in 1..n + l - 1 PROVE Parent(v)[i] = w[i]
      OBVIOUS
    <3>1. i \in 1..n + l /\ i \in 1..n + (l - 1) /\ (~(i <= n) => i - n \in 1..l - 1)
      OBVIOUS
    <3>2. ~(i <= n) => Parent(u)[i - n] = u[i - n]
      BY <1>2, <2>2, <3>1, Zenon
    <3>3. v[i] = IF i <= n THEN q[i] ELSE u[i - n]
      BY <2>5, <3>1, Zenon
    <3>4. w[i] = IF i <= n THEN q[i] ELSE Parent(u)[i - n]
      BY <2>6, <3>1, Zenon
    <3>5. Parent(v)[i] = v[i]
      BY <2>8, Zenon
    <3> QED
      BY <3>2, <3>3, <3>4, <3>5, Zenon
  <2>10. Len(Parent(v)) = Len(w)
    BY <2>6, <2>8
  <2>11. Parent(v) = w
    BY <2>6, <2>8, <2>9, <2>10, SeqEqual, Zenon
  <2> QED
    BY <2>3, <2>4, <2>11
<1>4. Parent(p) = s \o Parent(u) /\ Parent(t \o u) = t \o Parent(u)
  BY <1>1, <1>3
<1>5. CASE Parent(u) = <<>>
  BY <1>1, <1>4, <1>5, ConcatEmptySeq
<1>6. ASSUME Parent(u) # <<>>
      PROVE  Below(s, Parent(p)) /\ Parent(t \o Rest(s, p)) = t \o Rest(s, Parent(p))
  <2>1. Below(s, s \o Parent(u)) /\ Rest(s, s \o Parent(u)) = Parent(u)
    BY <1>2, <1>6, RestOfConcat, Zenon
  <2> QED
    BY <1>1, <1>4, <2>1, Zenon
<1> QED
  BY <1>5, <1>6

\* A directory call's target is a directory of the model in a root.
LEMMA TargetIs ==
  ASSUME Types, NEW m \in DirCall, InRoot(m.dst), Movable(m), Fits(m)
  PROVE  Target(m) \in Dir /\ InRoot(Target(m))
<1>1. /\ m.tool # "move_file" /\ m.src \in dirs
      /\ m.src \in Seq(STRING) /\ m.src # <<>> /\ m.dst \in Seq(STRING)
  BY PathsAreSequences, SourceAssumption, TreeAssumption DEF DirCall, Movable
<1>2. PICK r \in Roots : Within(r, m.dst)
  BY DEF InRoot
<1>3. Target(m) \in Seq(STRING) /\ Within(m.dst, Target(m))
  <2>1. CASE Target(m) = m.dst
    BY <1>1, <2>1 DEF Within
  <2>2. CASE Target(m) = Append(m.dst, m.src[Len(m.src)])
    <3>1. PICK d, n, t : d = m.dst /\ n = m.src[Len(m.src)] /\ t = Append(d, n)
      OBVIOUS
    <3>2. d \in Seq(STRING) /\ n \in STRING
      BY <1>1, <3>1, EmptySeq, ElementOfSeq
    <3>3. /\ t \in Seq(STRING) /\ Len(t) = Len(d) + 1
          /\ \A i \in 1..Len(d) : t[i] = d[i]
      BY <3>1, <3>2, AppendProperties
    <3>4. Below(d, t)
      <4>1. Len(t) > Len(d)
        BY <3>2, <3>3, LenProperties
      <4> QED
        BY <3>2, <3>3, <4>1, BelowIsPrefix, Zenon
    <3> QED
      BY <2>2, <3>1, <3>3, <3>4 DEF Within
  <2> QED
    BY <2>1, <2>2 DEF Target
<1>4. Target(m) \o SubSeq(m.src, Len(m.src) + 1, Len(m.src)) \in Dir
  BY <1>1 DEF Fits, Within
<1>5. SubSeq(m.src, Len(m.src) + 1, Len(m.src)) = <<>>
  BY <1>1, LenProperties, SubSeqEmpty
<1>6. Target(m) \in Dir
  BY <1>3, <1>4, <1>5, ConcatEmptySeq
<1>7. Within(r, Target(m))
  <2>1. r \in Seq(STRING)
    BY PathsAreSequences
  <2>2. CASE Target(m) = m.dst
    BY <1>2, <2>2
  <2>3. CASE Below(m.dst, Target(m))
    BY <1>1, <1>2, <1>3, <2>1, <2>3, BelowWithin DEF Within
  <2> QED
    BY <1>3, <2>2, <2>3 DEF Within
<1> QED
  BY <1>6, <1>7 DEF InRoot

\* What is above a root may exist: it did when the process began.
RootsOnTree == \A r \in Roots : \A d \in Seq(STRING) : d # <<>> /\ Below(d, r) => d \in Dir
TreeInv == InTree /\ RootsOnTree

LEMMA InitTree == Init => TreeInv
<1> SUFFICES ASSUME Init PROVE TreeInv
  OBVIOUS
<1>1. Types /\ Roots \subseteq dirs
  BY InitKeeps DEF FileInv, Init
<1>2. InTree
  BY DEF Init, InTree, HasParent
<1>3. RootsOnTree
  BY <1>1, <1>2, Ancestors DEF RootsOnTree, OnTree, Types
<1> QED
  BY <1>2, <1>3 DEF TreeInv

LEMMA ParentExists ==
  ASSUME Types, InTree, NEW p, OnTree(p)
  PROVE  /\ p \in Seq(STRING) /\ p # <<>> /\ HasParent(p)
         /\ Parent(p) # <<>> => Parent(p) \in dirs
  BY PathsAreSequences, TreeAssumption DEF OnTree, InTree, HasParent, Types

\* Paths up to the target of a directory are directories of the model.
LEMMA UpToTarget ==
  ASSUME RootsOnTree, NEW t \in Dir, InRoot(t), NEW d \in Dir, Within(d, t), Parent(d) # <<>>
  PROVE  Parent(d) \in Dir /\ Within(Parent(d), t)
<1>1. d \in Seq(STRING) /\ d # <<>> /\ t \in Seq(STRING) /\ Parent(d) \in Seq(STRING)
  BY PathsAreSequences, TreeAssumption, ParentOf
<1>2. Below(Parent(d), d)
  BY <1>1, AboveParent DEF Within
<1>3. Below(Parent(d), t)
  BY <1>1, <1>2, AboveWithin
<1>4. PICK r \in Roots : Within(r, t)
  BY DEF InRoot
<1>5. r \in Seq(STRING) /\ r \in Dir
  BY PathsAreSequences, RootsAssumption
<1>6. CASE Below(r, d)
  BY <1>3, <1>5, <1>6, TreeAssumption DEF Within
<1>7. CASE Within(d, r)
  BY <1>1, <1>2, <1>3, <1>5, <1>7, AboveWithin DEF RootsOnTree, Within
<1> QED
  BY <1>1, <1>4, <1>5, <1>6, <1>7, AboveAll

LEMMA DirectoryTree ==
  ASSUME Types, TreeInv, NEW m \in DirCall, InRoot(m.dst), Movable(m), Fits(m), OnDisk(m)
  PROVE  InTree'
<1>a. PICK t : t = Target(m)
  OBVIOUS
<1>b. PICK s : s = m.src
  OBVIOUS
<1>1. /\ m.tool # "move_file" /\ s \in dirs /\ ~Within(s, t)
      /\ s \in Seq(STRING) /\ s # <<>>
  BY <1>a, <1>b, PathsAreSequences, SourceAssumption, TreeAssumption DEF DirCall, Movable
<1>2. t \in Dir /\ InRoot(t) /\ t \in Seq(STRING) /\ t # <<>>
  BY <1>a, TargetIs, PathsAreSequences, TreeAssumption
<1>3. dirs' = {d \in dirs : ~Within(s, d)} \cup {d \in Dir : Within(d, t)}
                \cup {t \o Rest(s, d) : d \in {e \in dirs : Below(s, e)}}
  BY <1>a, <1>b, <1>1 DEF OnDisk, Rest
<1>4. ASSUME NEW p \in Path
      PROVE  file'[p] = IF Below(t, p) THEN IF s \o Rest(t, p) \in Path THEN file[s \o Rest(t, p)] ELSE None
                        ELSE IF Below(s, p) THEN None ELSE file[p]
  BY <1>a, <1>b, <1>1 DEF OnDisk, Rest
<1>5. t \in dirs'
  BY <1>2, <1>3 DEF Within
<1>6. ASSUME NEW p, OnTree(p), ~Below(s, p) PROVE HasParent(p)'
  <2>1. p \in Seq(STRING) /\ p # <<>> /\ (Parent(p) # <<>> => Parent(p) \in dirs)
    BY <1>6, ParentExists DEF TreeInv
  <2>2. Parent(p) # <<>> => ~Within(s, Parent(p))
    BY <1>1, <1>6, <2>1, ParentOf, AboveParent
  <2> QED
    BY <1>3, <2>1, <2>2 DEF HasParent
<1>7. ASSUME NEW p, OnTree(p), Below(s, p) PROVE HasParent(t \o Rest(s, p))'
  <2>1. p \in Seq(STRING) /\ p # <<>> /\ (Parent(p) # <<>> => Parent(p) \in dirs)
    BY <1>7, ParentExists DEF TreeInv
  <2>2. CASE Parent(t \o Rest(s, p)) = t
    BY <1>5, <2>2 DEF HasParent
  <2>3. CASE /\ Below(s, Parent(p))
             /\ Parent(t \o Rest(s, p)) = t \o Rest(s, Parent(p))
    <3>1. Parent(p) # <<>>
      <4>1. Parent(p) \in Seq(STRING)
        BY <2>1, ParentOf
      <4> QED
        BY <1>1, <2>3, <4>1, EmptySeq, LenProperties, BelowIsPrefix
    <3>2. t \o Rest(s, Parent(p)) \in dirs'
      BY <1>3, <2>1, <2>3, <3>1
    <3> QED
      BY <2>3, <3>2 DEF HasParent
  <2> QED
    BY <1>1, <1>2, <1>7, <2>1, <2>2, <2>3, MovedParent
<1>8. ASSUME NEW d \in dirs' PROVE HasParent(d)'
  <2>1. CASE d \in dirs /\ ~Within(s, d)
    BY <1>6, <2>1 DEF OnTree, Within
  <2>2. CASE d \in Dir /\ Within(d, t)
    BY <1>2, <1>3, <2>2, UpToTarget DEF HasParent, TreeInv
  <2>3. CASE \E e \in dirs : Below(s, e) /\ d = t \o Rest(s, e)
    BY <1>7, <2>3 DEF OnTree
  <2> QED
    BY <1>3, <2>1, <2>2, <2>3
<1>9. ASSUME NEW p \in Path, file'[p] # None PROVE HasParent(p)'
  <2>1. CASE ~Below(t, p)
    BY <1>4, <1>6, <1>9, <2>1 DEF OnTree
  <2>2. CASE Below(t, p)
    <3>1. p \in Seq(STRING)
      BY PathsAreSequences
    <3>2. Rest(t, p) \in Seq(STRING) /\ Rest(t, p) # <<>> /\ p = t \o Rest(t, p)
      BY <1>2, <2>2, <3>1, RestOf
    <3>3. PICK q : q = s \o Rest(t, p)
      OBVIOUS
    <3>4. OnTree(q)
      BY <1>4, <1>9, <2>2, <3>3 DEF OnTree
    <3>5. Below(s, q) /\ Rest(s, q) = Rest(t, p)
      BY <1>1, <3>2, <3>3, RestOfConcat
    <3> QED
      BY <1>7, <3>2, <3>4, <3>5
  <2> QED
    BY <2>1, <2>2
<1> QED
  BY <1>8, <1>9 DEF InTree

LEMMA FileTree ==
  ASSUME Types, InTree, NEW m \in FileCall, Movable(m), OnDisk(m)
  PROVE  InTree'
<1>1. /\ m.tool = "move_file" /\ m.src \in Path /\ m.dst \in Path /\ HasParent(m.dst)
      /\ dirs' = dirs
      /\ file' = [file EXCEPT ![m.dst] = file[m.src], ![m.src] = None]
  BY DEF FileCall, Movable, OnDisk, Target
<1>2. ASSUME NEW p \in Path, file'[p] # None PROVE p = m.dst \/ file[p] # None
  BY <1>1, <1>2 DEF Types
<1> QED
  BY <1>1, <1>2 DEF InTree, HasParent

\* The move on disk, of a file or of a directory.
LEMMA DiskTree ==
  ASSUME Types, TreeInv, NEW c \in Call, call[c] # None, Movable(call[c]), Fits(call[c]),
         OnDisk(call[c])
  PROVE  InTree'
<1>1. PICK m : m = call[c]
  OBVIOUS
<1>2. InRoot(m.dst) /\ Movable(m) /\ Fits(m) /\ OnDisk(m)
  BY <1>1 DEF Types
<1>3. m \in FileCall \/ m \in DirCall
  BY <1>1, ReadyCall
<1> QED
  BY <1>2, <1>3, FileTree, DirectoryTree DEF TreeInv

LEMMA DeleteTree ==
  ASSUME Types, InTree, NEW d \in Dir, DeleteDirectory(d)
  PROVE  InTree'
<1>1. /\ dirs' = {e \in dirs : ~Within(d, e)} /\ file' = file
      /\ \A p \in Path : Below(d, p) => file[p] = None
      /\ d \in Seq(STRING)
  BY PathsAreSequences DEF DeleteDirectory
<1>2. ASSUME NEW p, OnTree(p), ~Below(d, p) PROVE HasParent(p)'
  <2>1. p \in Seq(STRING) /\ p # <<>> /\ (Parent(p) # <<>> => Parent(p) \in dirs)
    BY <1>2, ParentExists
  <2>2. ~Within(d, Parent(p))
    BY <1>1, <1>2, <2>1, AboveParent
  <2> QED
    BY <1>1, <2>1, <2>2 DEF HasParent
<1>3. \A e \in dirs' : e \in dirs /\ ~Below(d, e)
  BY <1>1 DEF Within
<1> QED
  BY <1>1, <1>2, <1>3 DEF InTree, OnTree

LEMMA OutsideTree ==
  ASSUME Types, InTree,
         \/ \E p, q \in Path : OutsideMove(p, q)
         \/ \E d \in Dir : CreateDirectory(d)
         \/ UNCHANGED <<dirs, file>>
  PROVE  InTree'
<1>1. ASSUME NEW p \in Path, NEW q \in Path, OutsideMove(p, q) PROVE InTree'
  <2>1. /\ dirs' = dirs /\ Parent(q) \in dirs
        /\ file' = [file EXCEPT ![q] = file[p], ![p] = None]
    BY <1>1 DEF OutsideMove
  <2>2. ASSUME NEW x \in Path, file'[x] # None PROVE x = q \/ file[x] # None
    BY <2>1, <2>2 DEF Types
  <2> QED
    BY <2>1, <2>2 DEF InTree, HasParent
<1>2. ASSUME NEW d \in Dir, CreateDirectory(d) PROVE InTree'
  BY <1>2 DEF CreateDirectory, InTree, HasParent
<1>3. CASE UNCHANGED <<dirs, file>>
  BY <1>3 DEF InTree, HasParent
<1> QED
  BY <1>1, <1>2, <1>3

LEMMA StepTree == FileInv /\ TreeInv /\ [Next]_vars => TreeInv'
<1> SUFFICES ASSUME FileInv, TreeInv, [Next]_vars PROVE InTree'
  BY DEF TreeInv, RootsOnTree
<1>0. Types /\ InTree
  BY DEF FileInv, TreeInv
<1>1. ASSUME NEW c \in Call, Execute(c) \/ Interrupted(c) PROVE InTree'
  BY <1>0, <1>1, DiskTree DEF Execute, Interrupted
<1>2. ASSUME NEW d \in Dir, CreateDirectory(d) \/ DeleteDirectory(d) PROVE InTree'
  BY <1>0, <1>2, OutsideTree, DeleteTree
<1>3. ASSUME NEW p \in Path, NEW q \in Path, OutsideMove(p, q) PROVE InTree'
  BY <1>0, <1>3, OutsideTree
<1>4. ASSUME NEW c \in Call,
             \/ \E p, q \in Path : MoveFile(c, p, q)
             \/ \E s \in Source, d \in Dir : RenameDirectory(c, s, d) \/ MoveDirectory(c, s, d)
             \/ Waited(c) \/ GiveUp(c) \/ Refused(c) \/ WritePayload(c) \/ FailPayload(c)
      PROVE  UNCHANGED <<dirs, file>>
  BY <1>4 DEF MoveFile, RenameDirectory, MoveDirectory, Start, Waited, GiveUp, Refused,
              WritePayload, FailPayload
<1>5. CASE \/ \E p \in Path : Register(p)
           \/ \E d \in Doc : Index(d) \/ DeleteDocument(d)
           \/ Restart \/ UNCHANGED vars
  <2>1. UNCHANGED <<dirs, file>>
    BY <1>5 DEF Register, Index, DeleteDocument, Restart, vars
  <2> QED
    BY <1>0, <2>1, OutsideTree
<1> QED
  BY <1>0, <1>1, <1>2, <1>3, <1>4, <1>5, OutsideTree DEF Next

LEMMA TreeHolds == Spec => []TreeInv
<1>1. FileInv /\ FileInv' /\ TreeInv /\ [Next]_vars => TreeInv'
  BY StepTree
<1> QED
  BY <1>1, InitTree, FilesHold, PTL DEF Spec

\* Every variable keeps its type, one call at most holds the collection lock,
\* and directories and files are in directories that exist: of what a move
\* creates, copies and removes, nothing is left without its parent.
THEOREM TypeCorrect == Spec => []TypeOK
<1>1. FileInv /\ TreeInv /\ faults \in 0..MaxFaults => TypeOK
  BY DEF FileInv, Types, Holds, TreeInv, InTree, TypeOK
<1> QED
  BY <1>1, FilesHold, TreeHolds, FaultsAreCounted, PTL

-----------------------------------------------------------------------------
(* Rows follow their files. *)

\* A file that is the one of the row, to a destination that is absent.
LEMMA FileHome ==
  ASSUME Types, NEW m \in FileCall, InRoot(m.dst), OnDisk(m), row' = NewRows(m), ~Stale(m),
         NEW d \in Doc, AtHome(d)
  PROVE  AtHome(d)'
<1>1. /\ m.tool = "move_file" /\ m.src \in Path /\ m.dst \in Path /\ m.doc \in Doc
      /\ file' = [file EXCEPT ![m.dst] = file[m.src], ![m.src] = None]
  BY DEF FileCall, OnDisk, Target
<1>2. file[m.dst] = None /\ file[m.src] = m.doc /\ HasRow(m.doc) /\ m.doc # None
  BY <1>1, TreeAssumption, NoneIsNone DEF Stale, Absent
<1>3. /\ file'[m.dst] = m.doc
      /\ \A p \in Path \ {m.src, m.dst} : file'[p] = file[p]
  BY <1>1, <1>2 DEF Types
<1>4. /\ NewRows(m)[d] # None
      /\ d # m.doc => NewRows(m)[d] = row[d]
      /\ d = m.doc => NewRows(m)[d].path = m.dst
  BY FileRows DEF AtHome
<1>5. row[d].path \in Path /\ file[row[d].path] = d /\ d # None
  BY NoneIsNone DEF AtHome, HasRow, Types, Row
<1> QED
  BY <1>1, <1>2, <1>3, <1>4, <1>5 DEF AtHome, HasRow

\* A directory, to a destination that is absent: no file was below it.
LEMMA DirectoryHome ==
  ASSUME Types, TreeInv, NEW m \in DirCall, InRoot(m.dst), Movable(m), Fits(m), OnDisk(m),
         row' = NewRows(m), ~Stale(m), NEW d \in Doc, AtHome(d)
  PROVE  AtHome(d)'
<1>b. PICK s, t : s = m.src /\ t = m.dst
  OBVIOUS
<1>1. /\ m.tool # "move_file" /\ t \notin dirs /\ t = Target(m)
      /\ s \in Seq(STRING) /\ t \in Seq(STRING) /\ t # <<>>
  BY <1>b, PathsAreSequences, SourceAssumption, TreeAssumption DEF DirCall, Stale, Absent, Target
<1>2. ASSUME NEW p \in Path
      PROVE  file'[p] = IF Below(t, p) THEN IF s \o Rest(t, p) \in Path THEN file[s \o Rest(t, p)] ELSE None
                        ELSE IF Below(s, p) THEN None ELSE file[p]
  BY <1>1, <1>b DEF OnDisk, Rest
<1>3. PICK p : p = row[d].path
  OBVIOUS
<1>4. p \in Path /\ file[p] = d /\ d # None /\ HasRow(d) /\ p \in Seq(STRING) /\ OnTree(p)
  BY <1>3, NoneIsNone, PathsAreSequences DEF AtHome, HasRow, Types, Row, OnTree
<1>5. row'[d] # None /\ row'[d].path = Moved(p, s, t)
  BY <1>b, <1>3, <1>4, DirectoryRows
<1>6. CASE Below(s, p)
  <2>1. PICK u, q : u = Rest(s, p) /\ q = t \o u
    OBVIOUS
  <2>2. u \in Seq(STRING) /\ u # <<>> /\ p = s \o u
    BY <1>1, <1>4, <1>6, <2>1, RestOf
  <2>3. Below(t, q) /\ Rest(t, q) = u
    BY <1>1, <2>1, <2>2, RestOfConcat
  <2>4. Moved(p, s, t) = q
    BY <1>6, <2>1 DEF Moved, Rest
  <2>5. q \in Path
    BY <1>1, <1>b, <1>3, <1>4, <2>4 DEF Fits
  <2>6. file'[q] = d
    BY <1>2, <1>4, <2>2, <2>3, <2>5
  <2> QED
    BY <1>5, <2>4, <2>6 DEF AtHome, HasRow
<1>7. CASE ~Below(s, p)
  <2>1. ~Below(t, p)
    BY <1>1, <1>4, Ancestors DEF TreeInv
  <2>2. file'[p] = d
    BY <1>2, <1>4, <1>7, <2>1
  <2>3. Moved(p, s, t) = p
    BY <1>7 DEF Moved
  <2> QED
    BY <1>5, <2>2, <2>3 DEF AtHome, HasRow
<1> QED
  BY <1>6, <1>7

\* The body of RowsFollowFiles.
RowsKept ==
  \A d \in Doc : AtHome(d) /\ ~AtHome(d)' =>
    \/ ~HasRow(d)' \/ faults' # faults
    \/ \E c \in Call : /\ call[c] # None /\ call[c].phase = "ready"
                       /\ Stale(call[c]) /\ call'[c] # call[c]

\* Registration moves a row only to where the file is.
LEMMA RegisterHome ==
  ASSUME Types, NEW p \in Path, Register(p), NEW d \in Doc, AtHome(d) PROVE AtHome(d)'
<1>1. file' = file /\ file[p] \in Doc
  BY DEF Register, Types
<1>2. CASE d = file[p]
  <2>1. HasRow(d) /\ row[d] \in Row /\ row' = [row EXCEPT ![d].path = p]
    BY <1>2 DEF AtHome, HasRow, Types, Register
  <2>2. row'[d] \in Row /\ row'[d].path = p
    BY <2>1 DEF Row, Types
  <2> QED
    BY <1>1, <1>2, <2>2, NoneIsNone DEF AtHome, HasRow
<1>3. CASE d # file[p]
  <2>1. row'[d] = row[d]
    BY <1>1, <1>3 DEF Register, Types
  <2> QED
    BY <1>1, <2>1 DEF AtHome, HasRow
<1> QED
  BY <1>2, <1>3

LEMMA ExecuteHome ==
  ASSUME Types, TreeInv, NEW c \in Call, Execute(c), NEW d \in Doc, AtHome(d), ~AtHome(d)'
  PROVE  Stale(call[c]) /\ call'[c] # call[c] /\ call[c] # None /\ call[c].phase = "ready"
<1>1. PICK m : m = call[c]
  OBVIOUS
<1>2. /\ m # None /\ m.phase = "ready" /\ InRoot(m.dst) /\ Movable(m) /\ Fits(m) /\ OnDisk(m)
      /\ row' = NewRows(m)
  BY <1>1 DEF Execute, Types
<1>3. m \in FileCall \/ m \in DirCall
  BY <1>1, <1>2, ReadyCall
<1>4. Stale(m)
  BY <1>2, <1>3, FileHome, DirectoryHome
<1>5. call'[c] # m
  <2>1. CASE call' = [call EXCEPT ![c] = None]
    BY <1>2, <2>1 DEF Types
  <2>2. CASE call' = [call EXCEPT ![c].phase = "payload"]
    <3>1. call'[c] = [m EXCEPT !.phase = "payload"]
      BY <1>1, <2>2 DEF Types
    <3>2. call'[c].phase = "payload"
      BY <1>3, <3>1 DEF FileCall, DirCall
    <3> QED
      BY <1>2, <3>2
  <2> QED
    BY <2>1, <2>2 DEF Execute, Return
<1> QED
  BY <1>1, <1>2, <1>4, <1>5

LEMMA StepKeepsRows == FileInv /\ TreeInv /\ faults \in Nat /\ [Next]_vars => RowsKept
<1> SUFFICES ASSUME FileInv, TreeInv, faults \in Nat, [Next]_vars,
                    NEW d \in Doc, AtHome(d), ~AtHome(d)', HasRow(d)', faults' = faults
             PROVE  \E c \in Call : /\ call[c] # None /\ call[c].phase = "ready"
                                    /\ Stale(call[c]) /\ call'[c] # call[c]
  BY DEF RowsKept
<1>0. Types /\ ~Fault
  BY DEF FileInv, Fault
<1>1. ~UNCHANGED <<file, row>>
  BY DEF AtHome, HasRow
<1>2. CASE \E c \in Call : Execute(c)
  BY <1>0, <1>2, ExecuteHome
<1>3. CASE \E p \in Path : Register(p)
  BY <1>0, <1>3, RegisterHome
<1>4. ASSUME NEW e \in Doc, Index(e) \/ DeleteDocument(e) PROVE FALSE
  <2>1. CASE Index(e)
    BY <1>1, <2>1 DEF Index
  <2>2. CASE DeleteDocument(e)
    <3>1. file' = file /\ (d # e => row'[d] = row[d]) /\ (d = e => row'[d] = None)
      BY <1>0, <2>2 DEF DeleteDocument, Types
    <3> QED
      BY <3>1 DEF AtHome, HasRow
  <2> QED
    BY <1>4, <2>1, <2>2
<1>5. ASSUME NEW c \in Call,
             \/ \E p, q \in Path : MoveFile(c, p, q)
             \/ \E s \in Source, e \in Dir : RenameDirectory(c, s, e) \/ MoveDirectory(c, s, e)
             \/ Waited(c) \/ GiveUp(c) \/ Refused(c) \/ WritePayload(c)
      PROVE  FALSE
  BY <1>1, <1>5 DEF MoveFile, RenameDirectory, MoveDirectory, Start, Waited, GiveUp, Refused,
                    WritePayload
<1>6. CASE \/ \E e \in Dir : CreateDirectory(e) \/ DeleteDirectory(e)
           \/ UNCHANGED vars
  BY <1>1, <1>6 DEF CreateDirectory, DeleteDirectory, vars
<1>7. CASE \/ \E p, q \in Path : OutsideMove(p, q)
           \/ \E c \in Call : Interrupted(c) \/ FailPayload(c)
           \/ Restart
  BY <1>0, <1>7 DEF OutsideMove, Interrupted, FailPayload, Restart
<1> QED
  BY <1>2, <1>3, <1>4, <1>5, <1>6, <1>7 DEF Next

\* Moves take the rows along: a document whose file is where its row says
\* loses that only to a deletion, a fault, or a call whose checks no longer
\* hold, whichever documents appeared below the source while it waited.
THEOREM RowsAgree == Spec => RowsFollowFiles
<1>1. FileInv /\ TreeInv /\ faults \in 0..MaxFaults /\ [Next]_vars => [RowsKept]_vars
  BY StepKeepsRows, BoundAssumption
<1>2. Spec => [][RowsKept]_vars
  BY <1>1, FilesHold, TreeHolds, FaultsAreCounted, PTL DEF Spec
<1> QED
  BY <1>2 DEF RowsFollowFiles, RowsKept

-----------------------------------------------------------------------------
(* What is lost on disk. *)

Stored(d) == \E p \in Path : file[p] = d
LateMove(m, d) == m.tool = "move_file" /\ file[m.dst] = d

\* A file that moves takes the place of the one at its destination only.
LEMMA FileSaves ==
  ASSUME Types, NEW m \in FileCall, OnDisk(m), NEW d \in Doc, Stored(d), ~LateMove(m, d)
  PROVE  Stored(d)'
<1>1. /\ m.tool = "move_file" /\ m.src \in Path /\ m.dst \in Path
      /\ file' = [file EXCEPT ![m.dst] = file[m.src], ![m.src] = None]
  BY DEF FileCall, OnDisk, Target
<1>2. PICK p \in Path : file[p] = d
  BY DEF Stored
<1>3. p # m.dst /\ d # None
  BY <1>1, <1>2, NoneIsNone DEF LateMove
<1>4. CASE p = m.src
  <2>1. file'[m.dst] = d
    BY <1>1, <1>2, <1>3, <1>4 DEF Types
  <2> QED
    BY <1>1, <2>1 DEF Stored
<1>5. CASE p # m.src
  <2>1. file'[p] = d
    BY <1>1, <1>2, <1>3, <1>5 DEF Types
  <2> QED
    BY <2>1 DEF Stored
<1> QED
  BY <1>4, <1>5

\* A directory that moves: its target did not exist, so nothing was below it,
\* and every file below the source has a place below the target.
LEMMA DirectorySaves ==
  ASSUME Types, TreeInv, NEW m \in DirCall, Movable(m), Fits(m), OnDisk(m),
         NEW d \in Doc, Stored(d)
  PROVE  Stored(d)'
<1>b. PICK s, t : s = m.src /\ t = Target(m)
  OBVIOUS
<1>1. /\ m.tool # "move_file" /\ t \notin dirs
      /\ s \in Seq(STRING) /\ t \in Seq(STRING) /\ t # <<>>
  <2>1. m.src \in Dir /\ m.dst \in Dir /\ m.tool # "move_file"
    BY SourceAssumption DEF DirCall
  <2>2. m.src \in Seq(STRING) /\ m.src # <<>> /\ m.dst \in Seq(STRING) /\ m.dst # <<>>
    BY <2>1, TreeAssumption
  <2>3. m.src[Len(m.src)] \in STRING
    BY <2>2, ElementOfSeq, LenProperties, EmptySeq
  <2>4. PICK n, a : n = m.src[Len(m.src)] /\ a = Append(m.dst, n)
    OBVIOUS
  <2>5. a \in Seq(STRING) /\ a # <<>>
    BY <2>2, <2>3, <2>4, AppendProperties, EmptySeq, LenProperties
  <2>6. Target(m) \in Seq(STRING) /\ Target(m) # <<>>
    BY <2>2, <2>4, <2>5 DEF Target
  <2> QED
    BY <1>b, <2>1, <2>2, <2>6 DEF Movable
<1>2. ASSUME NEW p \in Path
      PROVE  file'[p] = IF Below(t, p) THEN IF s \o Rest(t, p) \in Path THEN file[s \o Rest(t, p)] ELSE None
                        ELSE IF Below(s, p) THEN None ELSE file[p]
  BY <1>1, <1>b DEF OnDisk, Rest
<1>3. PICK p \in Path : file[p] = d
  BY DEF Stored
<1>4. d # None /\ p \in Seq(STRING) /\ OnTree(p)
  BY <1>3, NoneIsNone, PathsAreSequences DEF OnTree
<1>5. CASE Below(s, p)
  <2>1. PICK u, q : u = Rest(s, p) /\ q = t \o u
    OBVIOUS
  <2>2. u \in Seq(STRING) /\ u # <<>> /\ p = s \o u
    BY <1>1, <1>4, <1>5, <2>1, RestOf
  <2>3. Below(t, q) /\ Rest(t, q) = u
    BY <1>1, <2>1, <2>2, RestOfConcat
  <2>4. Moved(p, s, t) = q
    BY <1>5, <2>1 DEF Moved, Rest
  <2>5. q \in Path
    BY <1>1, <1>b, <1>3, <1>4, <2>4 DEF Fits
  <2>6. file'[q] = d
    BY <1>2, <1>3, <2>2, <2>3, <2>5
  <2> QED
    BY <2>5, <2>6 DEF Stored
<1>6. CASE ~Below(s, p)
  <2>1. ~Below(t, p)
    BY <1>1, <1>4, Ancestors DEF TreeInv
  <2>2. file'[p] = d
    BY <1>2, <1>3, <1>6, <2>1
  <2> QED
    BY <2>2 DEF Stored
<1> QED
  BY <1>5, <1>6

\* The body of OverwritesAreLate.
LateOnly ==
  \A d \in Doc : (\E p \in Path : file[p] = d) =>
    \/ \E p \in Path : file'[p] = d
    \/ \E c \in Call : /\ call[c] # None /\ call[c].phase = "ready"
                       /\ call[c].tool = "move_file" /\ file[call[c].dst] = d
                       /\ call'[c] # call[c]

LEMMA ExecuteMovesOn ==
  ASSUME Types, NEW c \in Call, Execute(c) \/ Interrupted(c) PROVE call'[c] # call[c]
<1>1. PICK m : m = call[c]
  OBVIOUS
<1>2. m # None /\ m.phase = "ready" /\ (m \in FileCall \/ m \in DirCall)
  BY <1>1, ReadyCall DEF Execute, Interrupted
<1>3. CASE call' = [call EXCEPT ![c] = None]
  BY <1>1, <1>2, <1>3 DEF Types
<1>4. CASE call' = [call EXCEPT ![c].phase = "payload"]
  <2>1. call'[c] = [m EXCEPT !.phase = "payload"]
    BY <1>1, <1>4 DEF Types
  <2>2. call'[c].phase = "payload"
    BY <1>2, <2>1 DEF FileCall, DirCall
  <2> QED
    BY <1>1, <1>2, <2>2
<1> QED
  BY <1>3, <1>4 DEF Execute, Interrupted, Return

LEMMA StepSaves == FileInv /\ TreeInv /\ [Next]_vars => LateOnly
<1> SUFFICES ASSUME FileInv, TreeInv, [Next]_vars, NEW d \in Doc, Stored(d), ~Stored(d)'
             PROVE  \E c \in Call : /\ call[c] # None /\ call[c].phase = "ready"
                                    /\ LateMove(call[c], d) /\ call'[c] # call[c]
  BY DEF LateOnly, Stored, LateMove
<1>0. Types
  BY DEF FileInv
<1>1. file' # file
  BY DEF Stored
<1>2. ASSUME NEW c \in Call, Execute(c) \/ Interrupted(c)
      PROVE  /\ call[c] # None /\ call[c].phase = "ready"
             /\ LateMove(call[c], d) /\ call'[c] # call[c]
  <2>1. PICK m : m = call[c]
    OBVIOUS
  <2>2. m # None /\ m.phase = "ready" /\ Movable(m) /\ Fits(m) /\ OnDisk(m)
    BY <1>2, <2>1 DEF Execute, Interrupted
  <2>3. m \in FileCall \/ m \in DirCall
    BY <1>0, <2>1, <2>2, ReadyCall
  <2>4. LateMove(m, d)
    BY <1>0, <2>2, <2>3, FileSaves, DirectorySaves
  <2> QED
    BY <1>0, <1>2, <2>1, <2>2, <2>4, ExecuteMovesOn
<1>3. ASSUME NEW p \in Path, NEW q \in Path, OutsideMove(p, q) PROVE FALSE
  <2>1. /\ file[q] = None /\ file' = [file EXCEPT ![q] = file[p], ![p] = None] /\ file[p] # None
    BY <1>3 DEF OutsideMove
  <2>2. PICK r \in Path : file[r] = d
    BY DEF Stored
  <2>3. r # q /\ p # q
    BY <2>1, <2>2, NoneIsNone
  <2>4. file'[q] = file[p] /\ (r # p => file'[r] = d)
    BY <1>0, <2>1, <2>2, <2>3 DEF Types
  <2> QED
    BY <2>2, <2>4 DEF Stored
<1>4. ASSUME NEW c \in Call,
             \/ \E p, q \in Path : MoveFile(c, p, q)
             \/ \E s \in Source, e \in Dir : RenameDirectory(c, s, e) \/ MoveDirectory(c, s, e)
             \/ Waited(c) \/ GiveUp(c) \/ Refused(c) \/ WritePayload(c) \/ FailPayload(c)
      PROVE  FALSE
  BY <1>1, <1>4 DEF MoveFile, RenameDirectory, MoveDirectory, Start, Waited, GiveUp, Refused,
                    WritePayload, FailPayload
<1>5. CASE \/ \E p \in Path : Register(p)
           \/ \E e \in Doc : Index(e) \/ DeleteDocument(e)
           \/ \E e \in Dir : CreateDirectory(e) \/ DeleteDirectory(e)
           \/ Restart \/ UNCHANGED vars
  BY <1>1, <1>5 DEF Register, Index, DeleteDocument, CreateDirectory, DeleteDirectory, Restart, vars
<1> QED
  BY <1>2, <1>3, <1>4, <1>5 DEF Next

\* What the code keeps of its conflict checks: content is lost only to a
\* move_file call whose destination came to exist after the call had looked,
\* for every tree, any number of calls, and after failures and restarts.
THEOREM OverwritesHappenLate == Spec => OverwritesAreLate
<1>1. FileInv /\ TreeInv /\ [Next]_vars => [LateOnly]_vars
  BY StepSaves
<1>2. Spec => [][LateOnly]_vars
  BY <1>1, FilesHold, TreeHolds, PTL DEF Spec
<1> QED
  BY <1>2 DEF OverwritesAreLate, LateOnly
=============================================================================

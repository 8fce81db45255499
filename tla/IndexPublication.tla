------------------------- MODULE IndexPublication --------------------------
(***************************************************************************)
(* The operations of indexing/indexer.py on the points of documents and on *)
(* the vocabulary they share with other indexes.  A document is a summary  *)
(* point, which carries the completion marker, and one point per passage.  *)
(* Operations hold the collection lock, so one runs at a time; each await  *)
(* of a request to Qdrant, the embedder or a hashing thread ends a step,   *)
(* and any of them may fail.  Files, and the extraction status of a row,   *)
(* change outside of the lock.                                             *)
(***************************************************************************)
EXTENDS Integers, FiniteSets

CONSTANTS Doc,        \* documents
          None,       \* no document
          Term,       \* vocabulary terms
          MaxVersion, \* bound: the contents a file may have
          MaxSize,    \* bound: passages of a document
          Size,       \* how many passages a version is cut into
          SlotTerms,  \* the terms of a version's i-th passage
          Meta,       \* lists of tags
          MetaTerms,  \* the terms of the summary for such a list
          Editable,   \* the documents whose files change
          Taggable,   \* the documents a user may tag
          Askable,    \* the documents a user may have indexed one by one
          MaxOps      \* bound: operations

Version == 1..MaxVersion
Slot == 1..MaxSize

ASSUME DocAssumption == IsFiniteSet(Doc) /\ None \notin Doc
ASSUME UserAssumption == Editable \subseteq Doc /\ Taggable \subseteq Doc /\ Askable \subseteq Doc
ASSUME BoundAssumption == MaxVersion \in Nat \ {0} /\ MaxSize \in Nat /\ MaxOps \in Nat
ASSUME MetaAssumption == Meta \subseteq Nat \ {0} /\ 1 \in Meta
ASSUME TermAssumption == /\ Size \in [Version -> 0..MaxSize]
                         /\ SlotTerms \in [Version -> [Slot -> SUBSET Term]]
                         /\ MetaTerms \in [Meta -> SUBSET Term]

Status == {"pending", "extracted", "indexed", "gone"}

VARIABLES
  file,    \* which version is on disk
  reading, \* what an index_document call knows before it takes the lock
  hash,    \* documents.content_hash: the version a scan registered
  meta,    \* documents.tags
  status,  \* "pending" stands for queued, processing, failed and cancelled
  late,    \* index_document calls that have yet to repeat the row's status
  body,    \* the version of each passage in Qdrant, 0 for no point
  summary, \* the summary point: tags, content hash, completion marker
  freq,    \* document frequency of each term in the docs contribution
  count,   \* its document count
  drift,   \* history: why the contribution may be wrong, if it may
  pc,      \* where the operation that holds the lock awaits
  kind,    \* which operation it is
  cur,     \* its document
  batch,   \* the documents index_all has still to publish
  todo,    \* those of them it has still to extract
  text,    \* the version extracted for a document, 0 for none
  slot,    \* the next passage to write
  applied, \* whether its vocabulary delta reached the database
  repair,  \* the documents it found INDEXED, whose source it verifies
  back,    \* history: those whose file, once read, came back to the registered version
  ops

elsewhere == <<file, reading>>
registry == <<hash, meta, status, late>>
points == <<body, summary>>
vocabulary == <<freq, count, drift>>
sources == <<todo, repair, back>>
operation == <<pc, kind, cur, batch, text, slot, applied, sources>>
vars == <<elsewhere, registry, points, vocabulary, operation, ops>>

-----------------------------------------------------------------------------
NoBody == [i \in Slot |-> 0]
Whole(v) == [i \in Slot |-> IF i <= Size[v] THEN v ELSE 0]
NoReading == [hash |-> 0, text |-> 0, back |-> FALSE]
NoSummary == [meta |-> 0, version |-> 0, marked |-> FALSE]

HasSummary(d) == summary[d] # NoSummary
Stored(d) == HasSummary(d) \/ body[d] # NoBody

BodyTerms(b) == UNION {SlotTerms[b[i]][i] : i \in {j \in Slot : b[j] # 0}}

\* _indexed_token_set: the terms read back from a document's points.
StoredTerms ==
  [d \in Doc |-> BodyTerms(body[d])
                   \cup (IF HasSummary(d) THEN MetaTerms[summary[d].meta] ELSE {})]

\* The terms of what the operation is about to store.
NewTerms ==
  [d \in Doc |-> MetaTerms[meta[d]] \cup
     (IF kind = "retag" THEN BodyTerms(body[d])
      ELSE IF text[d] = 0 THEN {} ELSE BodyTerms(Whole(text[d])))]

\* The hash in the completion marker's point is the one of the row.
Certified(d) == summary[d] = [meta |-> meta[d], version |-> hash[d], marked |-> TRUE]

\* _verify_registered_source: the file on disk is the registered one.
\* Fault: it is not looked at.
Unverified(d) == TRUE
SourceVerified(d) == file[d] = hash[d]

-----------------------------------------------------------------------------
(* The vocabulary database (vector-core), as the indexer uses it: counts   *)
(* are floored at zero, and a write is applied wholly or not at all.       *)

\* How many documents of D have each term in the sets f assigns them.
Tally(D, f) == [t \in Term |-> Cardinality({d \in D : t \in f[d]})]

Minus(a, b) == IF a > b THEN a - b ELSE 0

ApplyDelta(added, removed, net) ==
  /\ freq' = [t \in Term |-> Minus(freq[t] + added[t], removed[t])]
  /\ count' = Minus(count + net, 0)

\* The delta of publishing D: the new terms for the stored ones.
\* Fault: the passages are left to be registered later.
RegisterLater(D) ==
  ApplyDelta(Tally(D, [d \in Doc |-> MetaTerms[meta[d]]]), Tally(D, StoredTerms),
             Cardinality({d \in D : ~Stored(d)}))
Register(D) == ApplyDelta(Tally(D, NewTerms), Tally(D, StoredTerms),
                          Cardinality({d \in D : ~Stored(d)}))

\* _revert_vocabulary_update: make the contribution describe what is stored.
\* Fault: the delta is taken back although other points are stored by now.
TakeBack(d) == ApplyDelta(Tally({}, NewTerms), Tally({d}, NewTerms), -1)
Restore(d) == ApplyDelta(Tally({d}, StoredTerms), Tally({d}, NewTerms),
                         IF Stored(d) THEN 0 ELSE -1)

-----------------------------------------------------------------------------
Init ==
  /\ file = [d \in Doc |-> 1]
  /\ reading = [d \in Doc |-> NoReading]
  /\ hash = [d \in Doc |-> 1]
  /\ meta = [d \in Doc |-> 1]
  /\ status = [d \in Doc |-> "pending"]
  /\ late = {}
  /\ body = [d \in Doc |-> NoBody]
  /\ summary = [d \in Doc |-> NoSummary]
  /\ freq = [t \in Term |-> 0]
  /\ count = 0
  /\ drift = "none"
  /\ pc = "idle"
  /\ kind = "none"
  /\ cur = None
  /\ batch = {} /\ todo = {} /\ back = {}
  /\ text = [d \in Doc |-> 0]
  /\ slot = 1
  /\ applied = FALSE
  /\ repair = {}
  /\ ops = 0

(* Outside of the lock. *)

\* Other programs write a file at any time, and what they write may be what it
\* held before.
Edit(d, v) ==
  /\ d \in Editable /\ v # file[d]
  /\ file' = [file EXCEPT ![d] = v]
  /\ reading' = [reading EXCEPT ![d].back = @ \/ (reading[d].text # 0 /\ v = reading[d].hash)]
  /\ back' = IF pc = "verify" /\ d = cur /\ v = hash[d] THEN back \cup {d} ELSE back
  /\ UNCHANGED <<registry, points, vocabulary, pc, kind, cur, batch, text, slot, applied,
                 todo, repair, ops>>

\* enqueue: the row leaves what index_all selects, until a worker is done.
Requeue(d) ==
  /\ status[d] \in {"extracted", "indexed"}
  /\ status' = [status EXCEPT ![d] = "pending"]
  /\ UNCHANGED <<elsewhere, hash, meta, late, points, vocabulary, operation, ops>>

\* The index_document tool writes INDEXED once more after the lock's release.
RepeatStatus(d) ==
  /\ d \in late
  /\ late' = late \ {d}
  /\ status' = [status EXCEPT ![d] = IF @ = "gone" THEN @ ELSE "indexed"]
  /\ UNCHANGED <<elsewhere, hash, meta, points, vocabulary, operation, ops>>

\* Bound: the number of operations.
Begin == ops < MaxOps /\ ops' = ops + 1

\* The index_document tool reads the row and has its file extracted, before it
\* asks for the lock.
ReadRow(d) ==
  /\ d \in Askable /\ reading[d] = NoReading /\ status[d] \in {"extracted", "indexed"}
  /\ Begin
  /\ reading' = [reading EXCEPT ![d].hash = hash[d]]
  /\ UNCHANGED <<file, registry, points, vocabulary, operation>>

ExtractAsked(d) ==
  /\ reading[d].hash # 0 /\ reading[d].text = 0
  /\ \/ reading' = [reading EXCEPT ![d].text = file[d]]
     \/ reading' = [reading EXCEPT ![d] = NoReading] \* missing or broken
  /\ UNCHANGED <<file, registry, points, vocabulary, operation, ops>>

-----------------------------------------------------------------------------
(* The lock is taken. *)

Acquire == pc = "idle" /\ Begin

EndOperation ==
  /\ pc' = "idle" /\ kind' = "none" /\ cur' = None
  /\ batch' = {} /\ text' = [d \in Doc |-> 0] /\ slot' = 1
  /\ applied' = FALSE /\ todo' = {} /\ repair' = {} /\ back' = {}

\* The operation goes on to its next document, or ends.
NextDocument ==
  \/ batch = {} /\ EndOperation
  \/ \E d \in batch : /\ pc' = "embed" /\ cur' = d /\ batch' = batch \ {d} /\ slot' = 1
                      /\ UNCHANGED <<kind, text, applied, sources>>

\* A scan registers the version it finds.
Scan(d) ==
  /\ pc = "idle" /\ status[d] # "gone" /\ hash[d] # file[d]
  /\ hash' = [hash EXCEPT ![d] = file[d]]
  /\ UNCHANGED <<elsewhere, meta, status, late, points, vocabulary, operation, ops>>

\* A worker publishes what it extracted, unverified, some time before: any
\* version, if the file is one that changes.
StartIndex(d, v) ==
  /\ Acquire /\ status[d] # "gone" /\ (v = file[d] \/ d \in Editable)
  /\ status' = [status EXCEPT ![d] = "extracted"]
  /\ pc' = "account" /\ kind' = "index" /\ cur' = d
  /\ text' = [text EXCEPT ![d] = v]
  /\ UNCHANGED <<elsewhere, hash, meta, late, points, vocabulary, batch, slot, applied, sources>>

\* The index_document tool publishes what it extracted if, under the lock, the
\* row has the hash that it read and so has the file.
StartReindex(d) ==
  /\ pc = "idle" /\ reading[d].text # 0
  /\ reading' = [reading EXCEPT ![d] = NoReading]
  /\ IF status[d] # "gone" /\ hash[d] = reading[d].hash /\ SourceVerified(d)
     THEN /\ pc' = "account" /\ kind' = "reindex" /\ cur' = d
          /\ text' = [text EXCEPT ![d] = reading[d].text]
          /\ back' = IF reading[d].back THEN {d} ELSE {}
     ELSE UNCHANGED <<pc, kind, cur, text, back>>
  /\ UNCHANGED <<file, registry, points, vocabulary, batch, slot, applied, todo, repair, ops>>

\* index_all selects the extracted and indexed rows; an incremental run skips
\* those whose marker certifies them, if the markers can be read.
StartIndexAll(k) ==
  LET selected == {d \in Doc : status[d] \in {"extracted", "indexed"}}
  IN /\ Acquire
     /\ \/ batch' = selected
        \/ k = "all" /\ batch' = {d \in selected : ~Certified(d)}
     /\ batch' # {}
     /\ todo' = batch' /\ repair' = {d \in batch' : status[d] = "indexed"}
     /\ pc' = "extract" /\ kind' = k
     /\ UNCHANGED <<elsewhere, registry, points, vocabulary, cur, text, slot, applied, back>>

\* delete_document, or a scan that misses the file and keeps the row; applied
\* says whether there is a contribution to retire and it could be read.
StartDelete(d, k) ==
  /\ Acquire /\ status[d] # "gone"
  /\ pc' = "delete" /\ kind' = k /\ cur' = d
  /\ applied' \in {Stored(d), FALSE}
  /\ UNCHANGED <<elsewhere, registry, points, vocabulary, batch, text, slot, sources>>

\* update_document_tags: only an INDEXED row has its summary refreshed.
StartRetag(d, m) ==
  /\ Acquire /\ d \in Taggable /\ status[d] # "gone"
  /\ meta' = [meta EXCEPT ![d] = m]
  /\ IF status[d] = "indexed"
     THEN pc' = "read" /\ kind' = "retag" /\ cur' = d
     ELSE UNCHANGED <<pc, kind, cur>>
  /\ UNCHANGED <<elsewhere, hash, status, late, points, vocabulary, batch, text, slot, applied, sources>>

-----------------------------------------------------------------------------
(* Accounting, before anything is vectorized. *)

\* One document.  If its points cannot be read the error ends the operation;
\* a vocabulary that cannot be written does not.
Account ==
  /\ pc = "account"
  /\ \/ EndOperation /\ UNCHANGED <<freq, count>>
     \/ /\ pc' = "embed"
        /\ \/ applied' = TRUE /\ Register({cur})
           \/ applied' = FALSE /\ UNCHANGED <<freq, count>>
        /\ UNCHANGED <<kind, cur, batch, text, slot, sources>>
  /\ UNCHANGED <<elsewhere, registry, points, drift, ops>>

(* Pass 1 of index_all extracts what it selected, one document at a time; one  *)
(* whose file is missing or broken is left out.                               *)

\* An indexed row goes on only if its file is the registered one.
CheckBefore(d) ==
  /\ pc = "extract" /\ d \in todo /\ todo' = todo \ {d}
  /\ IF d \in repair => SourceVerified(d)
     THEN pc' = "source" /\ cur' = d ELSE UNCHANGED <<pc, cur>>
  /\ UNCHANGED <<elsewhere, registry, points, vocabulary, kind, batch, text, slot, applied,
                 repair, back, ops>>

ReadSource ==
  /\ pc = "source"
  /\ \/ /\ text' = [text EXCEPT ![cur] = file[cur]]
        /\ IF cur \in repair THEN pc' = "verify" /\ UNCHANGED cur ELSE pc' = "extract" /\ cur' = None
     \/ pc' = "extract" /\ cur' = None /\ UNCHANGED text
  /\ UNCHANGED <<elsewhere, registry, points, vocabulary, kind, batch, slot, applied, sources, ops>>

\* And it is kept only if its file still is.
CheckAfter ==
  /\ pc = "verify" /\ pc' = "extract" /\ cur' = None
  /\ text' = IF SourceVerified(cur) THEN text ELSE [text EXCEPT ![cur] = 0]
  /\ UNCHANGED <<elsewhere, registry, points, vocabulary, kind, batch, slot, applied, sources, ops>>

Extracted ==
  /\ pc = "extract" /\ todo = {}
  /\ IF \A d \in Doc : text[d] = 0 THEN EndOperation
     ELSE pc' = "register" /\ UNCHANGED <<kind, cur, batch, text, slot, applied, sources>>
  /\ UNCHANGED <<elsewhere, registry, points, vocabulary, ops>>

Units == {d \in batch : text[d] # 0}

\* Pass 2 begins with one of the extracted documents.
StartPublishing ==
  \E d \in Units : /\ pc' = "embed" /\ cur' = d /\ batch' = Units \ {d}
                   /\ UNCHANGED <<kind, text, slot, sources>>

\* _register_batch_vocabulary, incremental: a delta for the extracted ones.
RegisterDelta ==
  /\ pc = "register" /\ kind = "all"
  /\ applied' = TRUE /\ StartPublishing
  /\ Register(Units)
  /\ UNCHANGED <<elsewhere, registry, points, drift, ops>>

\* A forced run replaces the contribution by the extracted documents and the
\* stored points of the selected ones that could not be extracted.
RegisterAnew ==
  LET retained == {d \in batch \ Units : Stored(d)}
  IN /\ pc = "register" /\ kind = "force"
     /\ applied' = TRUE /\ StartPublishing
     /\ freq' = [t \in Term |-> Tally(Units, NewTerms)[t] + Tally(retained, StoredTerms)[t]]
     /\ count' = Cardinality(Units) + Cardinality(retained)
     /\ drift' = IF \A d \in Doc : Stored(d) => d \in batch THEN "none" ELSE "unexcused"
     /\ UNCHANGED <<elsewhere, registry, points, ops>>

\* The points cannot be read, which ends the run, or the vocabulary cannot be
\* written, which does not.
RegistrationFails ==
  /\ pc = "register"
  /\ \/ EndOperation
     \/ applied' = FALSE /\ StartPublishing
  /\ UNCHANGED <<elsewhere, registry, points, vocabulary, ops>>

-----------------------------------------------------------------------------
(* Publication: _build_points and _replace_document_points. *)

\* _build_points.
Embed ==
  /\ pc = "embed"
  /\ pc' = "invalidate"
  /\ UNCHANGED <<elsewhere, registry, points, vocabulary, kind, cur, batch, text, slot,
                 applied, sources, ops>>

\* Fault: the marker stays on while passages are replaced.
KeepMarker(s) == s
WithoutMarker(s) == [s EXCEPT !.marked = FALSE]

\* index_all looks at the source once more before it touches the points.  If the
\* delta was lost the contribution is wrong from here on.
Invalidate ==
  /\ pc = "invalidate"
  /\ cur \in repair => SourceVerified(cur)
  /\ pc' = "write"
  /\ summary' = [summary EXCEPT ![cur] = WithoutMarker(@)]
  /\ drift' = IF applied THEN drift ELSE "excused"
  /\ UNCHANGED <<elsewhere, registry, body, freq, count, kind, cur, batch, text, slot,
                 applied, sources, ops>>

\* Fault: the loop runs one passage too far.
OneTooFar(v) == slot <= Size[v] + 1
Remaining(v) == slot <= Size[v]

WriteChunk ==
  /\ pc = "write" /\ Remaining(text[cur])
  /\ body' = [body EXCEPT ![cur][slot] = text[cur]]
  /\ slot' = slot + 1
  /\ UNCHANGED <<elsewhere, registry, summary, vocabulary, pc, kind, cur, batch, text,
                 applied, sources, ops>>

\* Points beyond the new body are deleted.
\* Fault: they are kept.
KeepStale(b, v) == b
WithoutStale(b, v) == [i \in Slot |-> IF i <= Size[v] THEN b[i] ELSE 0]

Prune ==
  /\ pc = "write" /\ ~Remaining(text[cur])
  /\ pc' = "publish"
  /\ body' = [body EXCEPT ![cur] = WithoutStale(@, text[cur])]
  /\ UNCHANGED <<elsewhere, registry, summary, vocabulary, kind, cur, batch, text, slot,
                 applied, sources, ops>>

\* The summary comes last, with the marker, under the row's hash and tags.
WriteSummary ==
  summary' = [summary EXCEPT ![cur] =
                [meta |-> meta[cur], version |-> hash[cur], marked |-> TRUE]]

\* Then the row becomes INDEXED, whatever it says by now.
Publish ==
  /\ pc = "publish" /\ WriteSummary
  /\ status' = [status EXCEPT ![cur] = "indexed"]
  /\ late' = IF kind = "reindex" THEN late \cup {cur} ELSE late
  /\ NextDocument
  /\ UNCHANGED <<elsewhere, hash, meta, body, vocabulary, ops>>

\* An error at any request: the delta, if it was applied, is repaired.
Compensate ==
  \/ applied /\ pc' = "revert" /\ UNCHANGED <<kind, cur, batch, text, slot, applied, sources>>
  \/ ~applied /\ NextDocument

PublicationFails ==
  /\ pc \in {"embed", "invalidate", "write", "publish"}
  /\ UNCHANGED summary \/ (pc = "publish" /\ WriteSummary) \* applied, reply lost
  /\ Compensate
  /\ UNCHANGED <<elsewhere, registry, body, vocabulary, ops>>

\* _revert_vocabulary_update, for a retag or for a document.
Revert ==
  /\ pc = "revert"
  /\ \/ Restore(cur) /\ UNCHANGED drift
     \/ drift' = "excused" /\ UNCHANGED <<freq, count>>
  /\ NextDocument
  /\ UNCHANGED <<elsewhere, registry, points, ops>>

-----------------------------------------------------------------------------
(* Deletion: delete_document_index and _delete_document_points. *)

RemovePoints(d) == /\ body' = [body EXCEPT ![d] = NoBody]
                   /\ summary' = [summary EXCEPT ![d] = NoSummary]

\* The contribution is retired once the points are known to be gone.
\* Fault: a failed deletion is taken for a successful one.
AlwaysDeleted(gone, known) == known
Deleted(gone, known) == gone /\ known

\* gone: the points went.  known: the reply, or a read after it was lost, says
\* whether they did.  The row goes in any case when the user deletes.
Delete(gone, known) ==
  LET retire == Deleted(gone, known) /\ applied
  IN /\ pc = "delete"
     /\ IF gone THEN RemovePoints(cur) ELSE UNCHANGED points
     /\ \/ /\ retire
           /\ ApplyDelta(Tally({}, StoredTerms), Tally({cur}, StoredTerms), -1)
           /\ UNCHANGED drift
        \/ /\ drift' = IF gone /\ Stored(cur) THEN "excused" ELSE drift
           /\ UNCHANGED <<freq, count>>
     /\ status' = [status EXCEPT ![cur] = IF kind = "delete" THEN "gone" ELSE @]
     /\ EndOperation
     /\ UNCHANGED <<elsewhere, hash, meta, late, ops>>

-----------------------------------------------------------------------------
(* Tags: _refresh_indexed_summary and _refresh_summary. *)

\* The delta of the new summary, if there are points, they can be read, their
\* terms change and the vocabulary can be written.
AccountRefresh ==
  /\ pc = "read" /\ pc' = "rewrite"
  /\ \/ /\ Stored(cur) /\ NewTerms[cur] # StoredTerms[cur]
        /\ applied' = TRUE /\ Register({cur})
     \/ applied' = FALSE /\ UNCHANGED <<freq, count>>
  /\ UNCHANGED <<elsewhere, registry, points, drift, kind, cur, batch, text, slot, sources, ops>>

\* The summary keeps its marker and takes the row's hash; a document without
\* points gains one.
RewriteSummary ==
  /\ summary' = [summary EXCEPT ![cur] =
       [meta |-> meta[cur], version |-> hash[cur], marked |-> @.marked]]
  /\ drift' = CASE drift = "none" /\ ~Stored(cur) -> "unexcused"
                [] ~applied /\ Stored(cur) /\ NewTerms[cur] # StoredTerms[cur] -> "excused"
                [] OTHER -> drift

Refresh ==
  /\ pc = "rewrite" /\ RewriteSummary /\ EndOperation
  /\ UNCHANGED <<elsewhere, registry, body, freq, count, ops>>

RefreshFails ==
  /\ pc = "rewrite"
  /\ UNCHANGED <<summary, drift>> \/ RewriteSummary
  /\ Compensate
  /\ UNCHANGED <<elsewhere, registry, body, freq, count, ops>>

-----------------------------------------------------------------------------
\* The process ends, or the request is cancelled, which no handler of an
\* Exception sees.  A deletion may have been served by then.
Abandon ==
  /\ pc # "idle" /\ EndOperation
  /\ UNCHANGED points \/ (pc = "delete" /\ RemovePoints(cur))
  /\ drift' = "excused"
  /\ \/ UNCHANGED <<late, reading>>
     \/ late' = {} /\ reading' = [d \in Doc |-> NoReading]
  /\ UNCHANGED <<file, hash, meta, status, freq, count, ops>>

Next ==
  \/ \E d \in Doc : \/ Requeue(d) \/ RepeatStatus(d) \/ Scan(d)
                    \/ ReadRow(d) \/ ExtractAsked(d) \/ StartReindex(d) \/ CheckBefore(d)
                    \/ \E v \in Version : Edit(d, v) \/ StartIndex(d, v)
                    \/ \E k \in {"delete", "purge"} : StartDelete(d, k)
                    \/ \E m \in Meta : StartRetag(d, m)
  \/ \E k \in {"all", "force"} : StartIndexAll(k)
  \/ ReadSource \/ CheckAfter \/ Extracted
  \/ Account \/ RegisterDelta \/ RegisterAnew \/ RegistrationFails
  \/ Embed \/ Invalidate \/ WriteChunk \/ Prune \/ Publish \/ PublicationFails \/ Revert
  \/ \E gone, known \in BOOLEAN : Delete(gone, known)
  \/ AccountRefresh \/ Refresh \/ RefreshFails
  \/ Abandon

Spec == Init /\ [][Next]_vars

-----------------------------------------------------------------------------
(* Properties. *)

Working == {"account", "extract", "source", "verify", "register", "embed", "invalidate", "write", "publish",
            "revert", "delete", "read", "rewrite"}

RegistryTyped ==
  /\ file \in [Doc -> Version] /\ hash \in [Doc -> Version] /\ meta \in [Doc -> Meta]
  /\ status \in [Doc -> Status] /\ late \subseteq Doc
  /\ reading \in [Doc -> [hash : 0..MaxVersion, text : 0..MaxVersion, back : BOOLEAN]]

PointsTyped ==
  /\ body \in [Doc -> [Slot -> 0..MaxVersion]]
  /\ summary \in [Doc -> [meta : Meta \cup {0}, version : 0..MaxVersion, marked : BOOLEAN]]

VocabularyTyped ==
  /\ freq \in [Term -> Nat] /\ count \in Nat
  /\ drift \in {"none", "excused", "unexcused"}

OperationTyped ==
  /\ pc \in Working \cup {"idle"}
  /\ kind \in {"none", "index", "reindex", "all", "force", "delete", "purge", "retag"}
  /\ cur \in Doc \cup {None} /\ batch \subseteq Doc /\ todo \subseteq batch
  /\ repair \subseteq Doc /\ back \subseteq Doc
  /\ text \in [Doc -> 0..MaxVersion] /\ slot \in 1..(MaxSize + 1)
  /\ applied \in BOOLEAN /\ ops \in 0..MaxOps

\* Every variable has its type; the vocabulary's counts are natural numbers,
\* whatever removals reach it after a drift.
TypeOK == RegistryTyped /\ PointsTyped /\ VocabularyTyped /\ OperationTyped

Exact == /\ freq = Tally(Doc, StoredTerms)
         /\ count = Cardinality({d \in Doc : Stored(d)})

\* Between operations the vocabulary contribution describes exactly the stored
\* points, unless a best-effort step failed, the process ended within an
\* operation, or one of the two cases of OnlyFailuresDrift occurred: failed
\* and half-done publications, deletions and refreshes leave the counts right.
Accounted == pc = "idle" /\ drift = "none" => Exact

\* "The contribution describes exactly the currently indexed corpus"
\* (indexer.py:134): only a failure of the vocabulary or of a read, or an
\* operation that never finished, makes it wrong.
OnlyFailuresDrift == pc = "idle" /\ drift # "excused" => Exact

\* When points are vectorized every term of theirs has been registered, so
\* none is dropped from the sparse vector, even if other documents of the
\* batch were rolled back meanwhile.
KnownWhenVectorized ==
  pc \in {"embed", "rewrite"} /\ applied /\ drift = "none" =>
    \A t \in NewTerms[cur] : freq[t] > 0

\* A completion marker is never seen beside a mixture of an old and a new
\* body, at any moment and after any failure.
MarkedIsWhole == \A d \in Doc : summary[d].marked =>
                   \E v \in Version : body[d] = Whole(v)

\* A verified operation publishes what the row registers, whichever file was
\* read at its await and however often the file and the row change before and
\* after, unless the file came back to the registered version in the meantime:
\* a hash cannot tell that it was ever away.
RepairsAreVerified ==
  pc = "publish" /\ (kind = "reindex" \/ cur \in repair) /\ cur \notin back =>
    text[cur] = hash[cur]

\* Nothing is published if the source changed after its extraction
\* (indexer.py:256): false for a file that came back.
ChangesAreNoticed ==
  pc = "publish" /\ (kind = "reindex" \/ cur \in repair) => text[cur] = hash[cur]

\* A change of tags never makes the marker of a body speak for another source
\* version than the one it was published for.
TagsCertifyNothing ==
  [][pc = "rewrite" => \A d \in Doc : summary[d].marked =>
       summary'[d].version = summary[d].version]_vars

\* The points a search sees implement the abstract publication of documents.
Shown == [d \in Doc |->
  IF summary[d].marked THEN [state |-> "complete", body |-> body[d]]
  ELSE [state |-> IF Stored(d) THEN "open" ELSE "absent", body |-> NoBody]]

Promise == INSTANCE Publication
             WITH Bodies <- {Whole(v) : v \in Version}, Nothing <- NoBody, shown <- Shown

\* One complete body takes another's place only through an open repair.
PublishesWholeBodies == Promise!Spec
=============================================================================

---------------------- MODULE IndexPublicationProofs -----------------------
(***************************************************************************)
(* Theorems about IndexPublication, for any documents, versions, terms,    *)
(* tags and number of operations.                                          *)
(***************************************************************************)
EXTENDS IndexPublication, FiniteSetTheorems, TLAPS

Publishing == {"embed", "invalidate", "write", "publish"}
ExtractingSteps == {"extract", "source", "verify"}

\* What goes on beside the operation that holds the lock, and pass 1 of index_all.
Beside(d) ==
  \/ Requeue(d) \/ RepeatStatus(d) \/ Scan(d) \/ ReadRow(d) \/ ExtractAsked(d)
  \/ \E v \in Version : Edit(d, v)
Extracting == (\E d \in Doc : CheckBefore(d)) \/ ReadSource \/ CheckAfter \/ Extracted

USE DEF elsewhere, sources

\* How the variables of an operation go together.
OperationOK ==
  /\ pc = "idle" => /\ batch = {} /\ text = [d \in Doc |-> 0] /\ repair = {} /\ back = {}
                    /\ slot = 1 /\ ~applied /\ kind = "none"
  /\ pc \notin {"idle", "extract", "register"} => cur \in Doc
  /\ pc \in ExtractingSteps \cup {"register"} => kind \in {"all", "force"} /\ ~applied
  /\ pc \in {"account", "delete", "read", "rewrite"} => batch = {}
  /\ pc = "revert" /\ kind = "retag" => batch = {}
  /\ pc \in {"account"} \cup Publishing => text[cur] # 0 /\ kind # "retag"
  /\ pc \in Publishing \cup {"revert"} => \A d \in batch : text[d] # 0
  /\ pc \in {"account", "register", "embed", "invalidate"} \cup ExtractingSteps => slot = 1
  /\ pc \notin ExtractingSteps => todo = {}
  /\ pc \in {"source", "verify"} => cur \in batch
  /\ pc = "write" => slot <= Size[text[cur]] + 1

Typed == TypeOK /\ OperationOK

-----------------------------------------------------------------------------
LEMMA InitTyped == Init => Typed
<1> SUFFICES ASSUME Init PROVE Typed
  OBVIOUS
<1> USE BoundAssumption, MetaAssumption
<1>1. /\ file \in [Doc -> Version] /\ hash \in [Doc -> Version] /\ meta \in [Doc -> Meta]
      /\ status \in [Doc -> Status] /\ text \in [Doc -> 0..MaxVersion]
  BY DEF Init, Version, Status
<1>2. body \in [Doc -> [Slot -> 0..MaxVersion]]
  BY DEF Init, NoBody
<1>3. summary \in [Doc -> [meta : Meta \cup {0}, version : 0..MaxVersion, marked : BOOLEAN]]
  BY DEF Init, NoSummary
<1>4. OperationOK
  BY DEF Init, OperationOK, Publishing, ExtractingSteps
<1>5. /\ late \subseteq Doc /\ batch \subseteq Doc /\ repair \subseteq Doc
      /\ todo \subseteq batch /\ back \subseteq Doc
      /\ freq \in [Term -> Nat] /\ count \in Nat /\ drift \in {"none", "excused", "unexcused"}
      /\ cur \in Doc \cup {None} /\ slot \in 1..(MaxSize + 1)
      /\ ops \in 0..MaxOps
  BY DEF Init
<1>6. /\ pc \in Working \cup {"idle"}
      /\ kind \in {"none", "index", "reindex", "all", "force", "delete", "purge", "retag"}
  BY DEF Init, Working
<1>7. applied \in BOOLEAN
  BY DEF Init
<1>8. reading \in [Doc -> [hash : 0..MaxVersion, text : 0..MaxVersion, back : BOOLEAN]]
  BY DEF Init, NoReading
<1>9. TypeOK
  BY <1>1, <1>2, <1>3, <1>5, <1>6, <1>7, <1>8
  DEF TypeOK, RegistryTyped, PointsTyped, VocabularyTyped, OperationTyped
<1> QED
  BY <1>4, <1>9 DEF Typed

LEMMA TallyType ==
  ASSUME NEW D, D \subseteq Doc, NEW f
  PROVE  Tally(D, f) \in [Term -> Nat]
<1>1. ASSUME NEW t \in Term PROVE Cardinality({d \in D : t \in f[d]}) \in Nat
  BY FS_Subset, FS_CardinalityType, DocAssumption
<1> QED
  BY <1>1 DEF Tally

LEMMA DeltaType ==
  ASSUME freq \in [Term -> Nat], count \in Nat,
         NEW added \in [Term -> Nat], NEW removed \in [Term -> Nat], NEW net \in Int,
         ApplyDelta(added, removed, net)
  PROVE  freq' \in [Term -> Nat] /\ count' \in Nat
<1>1. ASSUME NEW t \in Term PROVE Minus(freq[t] + added[t], removed[t]) \in Nat
  BY DEF Minus
<1>2. Minus(count + net, 0) \in Nat
  BY DEF Minus
<1> QED
  BY <1>1, <1>2 DEF ApplyDelta

Reading == [hash : 0..MaxVersion, text : 0..MaxVersion, back : BOOLEAN]

LEMMA NoReadingTyped == NoReading \in Reading
BY BoundAssumption DEF NoReading, Reading

LEMMA RegistryStep == Typed /\ [Next]_vars => RegistryTyped'
<1> SUFFICES ASSUME Typed, [Next]_vars PROVE RegistryTyped'
  OBVIOUS
<1> USE DEF Typed, TypeOK, RegistryTyped, registry
<1>1. ASSUME NEW d \in Doc, Beside(d)
      PROVE  RegistryTyped'
  <2>1. CASE \/ Requeue(d) \/ RepeatStatus(d) \/ Scan(d)
    BY <2>1 DEF Requeue, RepeatStatus, Scan, Status
  <2>2. reading[d] \in Reading /\ file[d] \in 0..MaxVersion /\ hash[d] \in 0..MaxVersion
    BY DEF Version, Reading
  <2>3. CASE ReadRow(d)
    <3>1. [reading[d] EXCEPT !.hash = hash[d]] \in Reading
      BY <2>2 DEF Reading
    <3> QED
      BY <2>3, <3>1 DEF ReadRow, Reading
  <2>4. CASE ExtractAsked(d)
    <3>1. [reading[d] EXCEPT !.text = file[d]] \in Reading /\ NoReading \in Reading
      BY <2>2, NoReadingTyped DEF Reading
    <3> QED
      BY <2>4, <3>1 DEF ExtractAsked, Reading
  <2>5. ASSUME NEW v \in Version, Edit(d, v) PROVE RegistryTyped'
    <3> DEFINE returned == reading[d].text # 0 /\ v = reading[d].hash
    <3>1. [reading[d] EXCEPT !.back = @ \/ returned] \in Reading
      BY <2>2 DEF Reading
    <3>2. reading' \in [Doc -> Reading] /\ file' \in [Doc -> Version]
      BY <2>5, <3>1 DEF Edit, Reading
    <3> QED
      BY <2>5, <3>2 DEF Edit, Reading
  <2> QED
    BY <1>1, <2>1, <2>3, <2>4, <2>5 DEF Beside
<1>2. ASSUME NEW d \in Doc, StartReindex(d) \/ \E v \in Version : StartIndex(d, v)
      PROVE  RegistryTyped'
  <2>1. CASE StartReindex(d)
    BY <2>1, NoReadingTyped DEF StartReindex, Reading
  <2>2. CASE \E v \in Version : StartIndex(d, v)
    BY <2>2 DEF StartIndex, Status
  <2> QED
    BY <1>2, <2>1, <2>2
<1>3. ASSUME NEW d \in Doc, NEW m \in Meta, StartRetag(d, m)
      PROVE  RegistryTyped'
  BY <1>3 DEF StartRetag
<1>4. ASSUME Publish PROVE RegistryTyped'
  BY <1>4 DEF Publish, OperationOK, Publishing, Status
<1>5. ASSUME NEW gone, NEW known, Delete(gone, known) PROVE RegistryTyped'
  BY <1>5 DEF Delete, OperationOK, Status
<1>6. ASSUME Abandon PROVE RegistryTyped'
  <2>1. [d \in Doc |-> NoReading] \in [Doc -> Reading]
    BY NoReadingTyped
  <2> QED
    BY <1>6, <2>1 DEF Abandon, Reading
<1>7. ASSUME UNCHANGED <<elsewhere, registry>> PROVE RegistryTyped'
  BY <1>7
<1> QED
  BY <1>1, <1>2, <1>3, <1>4, <1>5, <1>6, <1>7
  DEF Next, vars, Beside, StartIndexAll, StartDelete, Account, CheckBefore, ReadSource,
      CheckAfter, Extracted, RegisterDelta, RegisterAnew, RegistrationFails, Embed, Invalidate,
      WriteChunk, Prune, PublicationFails, Revert, AccountRefresh, Refresh, RefreshFails

LEMMA PointsStep == Typed /\ [Next]_vars => PointsTyped'
<1> SUFFICES ASSUME Typed, [Next]_vars PROVE PointsTyped'
  OBVIOUS
<1> USE DEF Typed, TypeOK, PointsTyped, points
<1>1. ASSUME Invalidate PROVE PointsTyped'
  <2>1. cur \in Doc
    BY <1>1 DEF Invalidate, OperationOK
  <2>2. WithoutMarker(summary[cur]) \in
          [meta : Meta \cup {0}, version : 0..MaxVersion, marked : BOOLEAN]
    BY <2>1 DEF WithoutMarker
  <2> QED
    BY <1>1, <2>1, <2>2 DEF Invalidate
<1>2. ASSUME WriteChunk \/ Prune PROVE PointsTyped'
  <2>1. cur \in Doc /\ text[cur] \in Version
    BY <1>2, BoundAssumption
    DEF WriteChunk, Prune, OperationTyped, OperationOK, Publishing, Version
  <2>2. CASE WriteChunk
    <3>1. slot \in Slot
      BY <2>1, <2>2, TermAssumption, BoundAssumption
      DEF WriteChunk, Remaining, OperationTyped, Slot
    <3>2. [body[cur] EXCEPT ![slot] = text[cur]] \in [Slot -> 0..MaxVersion]
      BY <2>1, <3>1 DEF Version
    <3> QED
      BY <2>1, <2>2, <3>2 DEF WriteChunk
  <2>3. CASE Prune
    <3>1. WithoutStale(body[cur], text[cur]) \in [Slot -> 0..MaxVersion]
      BY <2>1, BoundAssumption DEF WithoutStale
    <3> QED
      BY <2>1, <2>3, <3>1 DEF Prune
  <2> QED
    BY <1>2, <2>2, <2>3
<1>3. ASSUME Publish \/ PublicationFails PROVE PointsTyped'
  <2>1. cur \in Doc
    BY <1>3 DEF Publish, PublicationFails, OperationOK
  <2>2. [meta |-> meta[cur], version |-> hash[cur], marked |-> TRUE] \in
          [meta : Meta \cup {0}, version : 0..MaxVersion, marked : BOOLEAN]
    BY <2>1 DEF RegistryTyped, Version
  <2>3. WriteSummary => PointsTyped' \/ body' # body
    BY <2>1, <2>2 DEF WriteSummary
  <2> QED
    BY <1>3, <2>3 DEF Publish, PublicationFails
<1>4. ASSUME NEW d \in Doc, RemovePoints(d) PROVE PointsTyped'
  BY <1>4, BoundAssumption DEF RemovePoints, NoBody, NoSummary
<1>5. ASSUME Refresh \/ RefreshFails PROVE PointsTyped'
  <2>1. cur \in Doc
    BY <1>5 DEF Refresh, RefreshFails, OperationOK
  <2>2. [meta |-> meta[cur], version |-> hash[cur], marked |-> summary[cur].marked] \in
          [meta : Meta \cup {0}, version : 0..MaxVersion, marked : BOOLEAN]
    BY <2>1 DEF RegistryTyped, Version
  <2>3. RewriteSummary => PointsTyped' \/ body' # body
    BY <2>1, <2>2 DEF RewriteSummary
  <2> QED
    BY <1>5, <2>3 DEF Refresh, RefreshFails
<1>6. ASSUME UNCHANGED points PROVE PointsTyped'
  BY <1>6
<1>7. ASSUME NEW gone, NEW known, Delete(gone, known) PROVE PointsTyped'
  BY <1>4, <1>6, <1>7 DEF Delete, OperationOK
<1>8. ASSUME Abandon PROVE PointsTyped'
  BY <1>4, <1>6, <1>8 DEF Abandon, OperationOK
<1> QED
  BY <1>1, <1>2, <1>3, <1>5, <1>6, <1>7, <1>8
  DEF Next, vars, Beside, Edit, Requeue, RepeatStatus, Scan, ReadRow, ExtractAsked, StartIndex,
      StartReindex, StartIndexAll, StartDelete, StartRetag, Account, Extracting, CheckBefore,
      ReadSource, CheckAfter, Extracted, RegisterDelta, RegisterAnew, RegistrationFails, Embed,
      Revert, AccountRefresh

\* A part of the documents is counted by a natural number.
LEMMA PartType ==
  ASSUME NEW D, D \subseteq Doc, NEW S, S \subseteq D
  PROVE  IsFiniteSet(S) /\ Cardinality(S) \in Nat
BY FS_Subset, FS_CardinalityType, DocAssumption

LEMMA RegisterType ==
  ASSUME freq \in [Term -> Nat], count \in Nat, NEW D, D \subseteq Doc, Register(D)
  PROVE  freq' \in [Term -> Nat] /\ count' \in Nat
<1>1. Tally(D, NewTerms) \in [Term -> Nat] /\ Tally(D, StoredTerms) \in [Term -> Nat]
  BY TallyType
<1>2. Cardinality({d \in D : ~Stored(d)}) \in Int
  BY PartType
<1> QED
  BY <1>1, <1>2, DeltaType DEF Register

LEMMA RestoreType ==
  ASSUME freq \in [Term -> Nat], count \in Nat, NEW d \in Doc, Restore(d)
  PROVE  freq' \in [Term -> Nat] /\ count' \in Nat
<1>1. Tally({d}, NewTerms) \in [Term -> Nat] /\ Tally({d}, StoredTerms) \in [Term -> Nat]
  BY TallyType
<1>2. (IF Stored(d) THEN 0 ELSE -1) \in Int
  OBVIOUS
<1> QED
  BY <1>1, <1>2, DeltaType DEF Restore

LEMMA VocabularyStep == Typed /\ [Next]_vars => VocabularyTyped'
<1> SUFFICES ASSUME Typed, [Next]_vars PROVE VocabularyTyped'
  OBVIOUS
<1> USE DEF Typed, TypeOK, VocabularyTyped, vocabulary
<1>1. ASSUME Account \/ AccountRefresh PROVE VocabularyTyped'
  <2>1. {cur} \subseteq Doc
    BY <1>1 DEF Account, AccountRefresh, OperationOK
  <2>2. Register({cur}) => freq' \in [Term -> Nat] /\ count' \in Nat
    BY <2>1, RegisterType
  <2> QED
    BY <1>1, <2>2 DEF Account, AccountRefresh
<1>2. ASSUME RegisterDelta PROVE VocabularyTyped'
  <2>1. Units \subseteq Doc
    BY DEF Units, OperationTyped
  <2>2. Register(Units) => freq' \in [Term -> Nat] /\ count' \in Nat
    BY <2>1, RegisterType
  <2> QED
    BY <1>2, <2>2 DEF RegisterDelta
<1>3. ASSUME RegisterAnew PROVE VocabularyTyped'
  <2> DEFINE retained == {d \in batch \ Units : Stored(d)}
  <2>1. Units \subseteq Doc /\ retained \subseteq Doc
    BY DEF Units, OperationTyped
  <2>2. Tally(Units, NewTerms) \in [Term -> Nat] /\ Tally(retained, StoredTerms) \in [Term -> Nat]
    BY <2>1, TallyType
  <2>3. Cardinality(Units) \in Nat /\ Cardinality(retained) \in Nat
    BY <2>1, PartType
  <2> HIDE DEF retained
  <2>4. /\ freq' = [t \in Term |-> Tally(Units, NewTerms)[t] + Tally(retained, StoredTerms)[t]]
        /\ count' = Cardinality(Units) + Cardinality(retained)
        /\ drift' \in {"none", "unexcused"}
    BY <1>3 DEF RegisterAnew, retained
  <2> QED
    BY <2>2, <2>3, <2>4
<1>4. ASSUME Revert PROVE VocabularyTyped'
  <2>1. cur \in Doc
    BY <1>4 DEF Revert, OperationOK
  <2>2. Restore(cur) => freq' \in [Term -> Nat] /\ count' \in Nat
    BY <2>1, RestoreType
  <2> QED
    BY <1>4, <2>2 DEF Revert
<1>5. ASSUME NEW gone, NEW known, Delete(gone, known) PROVE VocabularyTyped'
  <2>1. {cur} \subseteq Doc
    BY <1>5 DEF Delete, OperationOK
  <2>2. /\ Tally({cur}, StoredTerms) \in [Term -> Nat]
        /\ Tally({}, StoredTerms) \in [Term -> Nat]
    BY <2>1, TallyType
  <2>3. ApplyDelta(Tally({}, StoredTerms), Tally({cur}, StoredTerms), -1)
          => freq' \in [Term -> Nat] /\ count' \in Nat
    <3>1. -1 \in Int
      OBVIOUS
    <3> QED
      BY <2>2, <3>1, DeltaType
  <2> QED
    BY <1>5, <2>3 DEF Delete
<1>6. ASSUME Invalidate \/ Refresh \/ RefreshFails \/ Abandon PROVE VocabularyTyped'
  BY <1>6 DEF Invalidate, Refresh, RefreshFails, RewriteSummary, Abandon
<1>7. ASSUME UNCHANGED vocabulary PROVE VocabularyTyped'
  BY <1>7
<1> QED
  BY <1>1, <1>2, <1>3, <1>4, <1>5, <1>6, <1>7
  DEF Next, vars, Beside, Edit, Requeue, RepeatStatus, Scan, ReadRow, ExtractAsked, StartIndex,
      StartReindex, StartIndexAll, StartDelete, StartRetag, Extracting, CheckBefore,
      ReadSource, CheckAfter, Extracted, RegistrationFails, Embed, WriteChunk, Prune, Publish,
      PublicationFails

\* The end of an operation, and its passage to the next document.
LEMMA EndStep ==
  ASSUME Typed, EndOperation, ops' \in 0..MaxOps
  PROVE  OperationTyped' /\ OperationOK'
<1>1. /\ pc' = "idle" /\ kind' = "none" /\ cur' = None /\ batch' = {}
      /\ text' = [d \in Doc |-> 0] /\ slot' = 1 /\ todo' = {} /\ repair' = {} /\ back' = {}
  BY DEF EndOperation
<1>2. applied' \in BOOLEAN /\ ~applied'
  BY DEF EndOperation
<1>3. text' \in [Doc -> 0..MaxVersion] /\ slot' \in 1..(MaxSize + 1)
  BY <1>1, BoundAssumption
<1>4. OperationTyped'
  BY <1>1, <1>2, <1>3 DEF OperationTyped
<1> QED
  BY <1>1, <1>2, <1>4 DEF OperationOK, Publishing, ExtractingSteps

LEMMA NextDocumentStep ==
  ASSUME Typed, NextDocument, ops' = ops, pc \in Publishing \cup {"revert", "rewrite"}
  PROVE  OperationTyped' /\ OperationOK'
<1>1. CASE EndOperation
  BY <1>1, EndStep DEF Typed, TypeOK, OperationTyped
<1>2. ASSUME NEW d \in batch,
             pc' = "embed", cur' = d, batch' = batch \ {d}, slot' = 1,
             UNCHANGED <<kind, text, applied, sources>>
      PROVE  OperationTyped' /\ OperationOK'
  <2>1. text[d] # 0 /\ kind # "retag" /\ d \in Doc /\ todo = {}
    BY <1>2 DEF Typed, TypeOK, OperationTyped, OperationOK, Publishing, ExtractingSteps
  <2>2. slot' \in 1..(MaxSize + 1)
    BY <1>2, BoundAssumption
  <2>3. applied' \in BOOLEAN
    BY <1>2 DEF Typed, TypeOK, OperationTyped
  <2>4. OperationTyped'
    BY <1>2, <2>1, <2>2, <2>3 DEF Typed, TypeOK, OperationTyped, Working
  <2>5. \A e \in batch' : text'[e] # 0
    BY <1>2 DEF Typed, OperationOK, Publishing, ExtractingSteps
  <2> QED
    BY <1>2, <2>1, <2>4, <2>5 DEF OperationOK, Publishing, ExtractingSteps
<1> QED
  BY <1>1, <1>2 DEF NextDocument

\* A failed publication or refresh.
LEMMA CompensateStep ==
  ASSUME Typed, Compensate, ops' = ops, pc \in Publishing \cup {"rewrite"}
  PROVE  OperationTyped' /\ OperationOK'
<1>1. CASE ~applied /\ NextDocument
  BY <1>1, NextDocumentStep
<1>2. CASE pc' = "revert" /\ UNCHANGED <<kind, cur, batch, text, slot, applied, sources>>
  <2>1. applied' \in BOOLEAN
    BY <1>2 DEF Typed, TypeOK, OperationTyped
  <2>2. OperationTyped'
    BY <1>2, <2>1 DEF Typed, TypeOK, OperationTyped, Working
  <2>3. OperationOK'
    BY <1>2 DEF Typed, OperationOK, Publishing, ExtractingSteps
  <2> QED
    BY <2>2, <2>3
<1> QED
  BY <1>1, <1>2 DEF Compensate

LEMMA OperationStep == Typed /\ [Next]_vars => OperationTyped' /\ OperationOK'
<1> SUFFICES ASSUME Typed, [Next]_vars PROVE OperationTyped' /\ OperationOK'
  OBVIOUS
<1>0. ops \in 0..MaxOps
  BY DEF Typed, TypeOK, OperationTyped
<1>1. ASSUME NEW d \in Doc, StartReindex(d) \/ \E v \in Version : StartIndex(d, v)
      PROVE  OperationTyped' /\ OperationOK'
  <2>1. ops' \in 0..MaxOps
    BY <1>0, <1>1, BoundAssumption DEF StartIndex, StartReindex, Acquire, Begin
  <2>2. CASE UNCHANGED operation
    <3>1. applied' \in BOOLEAN
      BY <2>2 DEF operation, Typed, TypeOK, OperationTyped
    <3> QED
      BY <2>1, <2>2, <3>1
      DEF operation, Typed, TypeOK, OperationTyped, OperationOK, Publishing, ExtractingSteps
  <2>3. ASSUME NEW v \in Version,
               pc = "idle", pc' = "account", kind' \in {"index", "reindex"}, cur' = d,
               text' = [text EXCEPT ![d] = v], back' \subseteq Doc,
               UNCHANGED <<batch, slot, applied, todo, repair>>
        PROVE  OperationTyped' /\ OperationOK'
    <3>1. text' \in [Doc -> 0..MaxVersion] /\ text'[d] = v /\ v # 0
      BY <2>3, BoundAssumption DEF Typed, TypeOK, OperationTyped, Version
    <3>2. applied' \in BOOLEAN
      BY <2>3 DEF Typed, TypeOK, OperationTyped
    <3>3. OperationTyped'
      BY <2>1, <2>3, <3>1, <3>2 DEF Typed, TypeOK, OperationTyped, Working
    <3> QED
      BY <2>3, <3>1, <3>3 DEF Typed, OperationOK, Publishing, ExtractingSteps
  <2>4. CASE StartReindex(d) /\ ~UNCHANGED operation
    <3>1. reading[d].text \in Version
      BY <2>4, BoundAssumption DEF StartReindex, Typed, TypeOK, RegistryTyped, Version
    <3> QED
      BY <2>3, <2>4, <3>1 DEF StartReindex, operation
  <2>5. CASE \E v \in Version : StartIndex(d, v)
    BY <2>3, <2>5 DEF StartIndex, Acquire, Typed, TypeOK, OperationTyped
  <2> QED
    BY <1>1, <2>2, <2>4, <2>5
<1>2. ASSUME NEW k \in {"all", "force"}, StartIndexAll(k)
      PROVE  OperationTyped' /\ OperationOK'
  <2>1. ops' \in 0..MaxOps
    BY <1>0, <1>2, BoundAssumption DEF StartIndexAll, Acquire, Begin
  <2>2. /\ pc = "idle" /\ pc' = "extract" /\ kind' = k /\ batch' \subseteq Doc
        /\ todo' = batch' /\ repair' \subseteq Doc
        /\ UNCHANGED <<cur, text, slot, applied, back>>
    BY <1>2 DEF StartIndexAll, Acquire
  <2>3. applied' \in BOOLEAN
    BY <2>2 DEF Typed, TypeOK, OperationTyped
  <2>4. OperationTyped'
    BY <2>1, <2>2, <2>3 DEF Typed, TypeOK, OperationTyped, Working
  <2> QED
    BY <2>2, <2>4 DEF Typed, OperationOK, Publishing, ExtractingSteps
<1>3. ASSUME NEW d \in Doc, NEW k \in {"delete", "purge"}, StartDelete(d, k)
      PROVE  OperationTyped' /\ OperationOK'
  <2>1. ops' \in 0..MaxOps
    BY <1>0, <1>3, BoundAssumption DEF StartDelete, Acquire, Begin
  <2>2. /\ pc = "idle" /\ pc' = "delete" /\ kind' = k /\ cur' = d
        /\ UNCHANGED <<batch, text, slot, sources>>
    BY <1>3 DEF StartDelete, Acquire
  <2>3. applied' \in BOOLEAN
    BY <1>3 DEF StartDelete, Stored
  <2>4. OperationTyped'
    BY <2>1, <2>2, <2>3 DEF Typed, TypeOK, OperationTyped, Working
  <2> QED
    BY <2>2, <2>4 DEF Typed, OperationOK, Publishing, ExtractingSteps
<1>4. ASSUME NEW d \in Doc, NEW m \in Meta, StartRetag(d, m)
      PROVE  OperationTyped' /\ OperationOK'
  <2>1. ops' \in 0..MaxOps
    BY <1>0, <1>4, BoundAssumption DEF StartRetag, Acquire, Begin
  <2>2. /\ pc = "idle" /\ UNCHANGED <<batch, text, slot, applied, sources>>
        /\ \/ pc' = "read" /\ kind' = "retag" /\ cur' = d
           \/ UNCHANGED <<pc, kind, cur>>
    BY <1>4 DEF StartRetag, Acquire
  <2>3. applied' \in BOOLEAN
    BY <2>2 DEF Typed, TypeOK, OperationTyped
  <2>4. OperationTyped'
    BY <2>1, <2>2, <2>3 DEF Typed, TypeOK, OperationTyped, Working
  <2> QED
    BY <2>2, <2>4 DEF Typed, OperationOK, Publishing, ExtractingSteps
<1>5. ASSUME Account \/ AccountRefresh PROVE OperationTyped' /\ OperationOK'
  <2>1. CASE EndOperation
    BY <1>0, <1>5, <2>1, EndStep DEF Account, AccountRefresh
  <2>2. CASE ~EndOperation
    <3>1. /\ \/ pc = "account" /\ pc' = "embed"
             \/ pc = "read" /\ pc' = "rewrite"
          /\ UNCHANGED <<kind, cur, batch, text, slot, sources, ops>>
      BY <1>5, <2>2 DEF Account, AccountRefresh
    <3>2. applied' \in BOOLEAN
      BY <1>5, <2>2 DEF Account, AccountRefresh
    <3>3. OperationTyped'
      BY <3>1, <3>2 DEF Typed, TypeOK, OperationTyped, Working
    <3> QED
      BY <3>1, <3>3 DEF Typed, OperationOK, Publishing, ExtractingSteps
  <2> QED
    BY <2>1, <2>2
<1>6. ASSUME Extracting PROVE OperationTyped' /\ OperationOK'
  <2>0. /\ pc \in ExtractingSteps /\ ops' = ops
        /\ applied \in BOOLEAN /\ text \in [Doc -> 0..MaxVersion]
    BY <1>6
    DEF Extracting, CheckBefore, ReadSource, CheckAfter, Extracted, ExtractingSteps, Typed,
        TypeOK, OperationTyped
  <2>1. CASE EndOperation
    BY <1>0, <2>0, <2>1, EndStep
  <2>2. ASSUME pc' \in ExtractingSteps \cup {"register"},
               pc' \in {"source", "verify"} => cur' \in batch,
               pc' = "register" => todo = {},
               cur' \in Doc \cup {None}, todo' \subseteq todo,
               text' \in [Doc -> 0..MaxVersion],
               UNCHANGED <<kind, batch, slot, applied, repair, back>>
        PROVE  OperationTyped' /\ OperationOK'
    <3>1. applied' \in BOOLEAN
      BY <2>0, <2>2
    <3>2. OperationTyped'
      BY <2>0, <2>2, <3>1 DEF Typed, TypeOK, OperationTyped, Working, ExtractingSteps
    <3> QED
      BY <2>0, <2>2, <3>2
      DEF Typed, TypeOK, OperationTyped, OperationOK, Publishing, ExtractingSteps
  <2>3. CASE \E d \in Doc : CheckBefore(d)
    BY <2>0, <2>2, <2>3 DEF CheckBefore, ExtractingSteps, Typed, TypeOK, OperationTyped
  <2>4. CASE ReadSource
    <3>1. cur \in batch /\ file[cur] \in 0..MaxVersion
      BY <2>4
      DEF ReadSource, Typed, TypeOK, OperationOK, OperationTyped, RegistryTyped, Version
    <3>2. text' \in [Doc -> 0..MaxVersion]
      BY <2>0, <2>4, <3>1 DEF ReadSource
    <3> QED
      BY <2>0, <2>2, <2>4, <3>1, <3>2
      DEF ReadSource, ExtractingSteps, Typed, TypeOK, OperationTyped
  <2>5. CASE CheckAfter
    <3>0. text' = text \/ text' = [text EXCEPT ![cur] = 0]
      BY <2>5 DEF CheckAfter
    <3>1. text' \in [Doc -> 0..MaxVersion]
      BY <2>0, <3>0, BoundAssumption
    <3>2. /\ pc' = "extract" /\ cur' = None /\ todo' = todo
          /\ UNCHANGED <<kind, batch, slot, applied, repair, back>>
      BY <2>5 DEF CheckAfter
    <3> QED
      BY <2>2, <3>1, <3>2 DEF ExtractingSteps
  <2>6. CASE Extracted /\ ~EndOperation
    <3>1. /\ pc' = "register" /\ todo = {}
          /\ UNCHANGED <<kind, cur, batch, text, slot, applied, sources>>
      BY <2>6 DEF Extracted
    <3> QED
      BY <2>0, <2>2, <3>1 DEF Typed, TypeOK, OperationTyped
  <2> QED
    BY <1>6, <2>1, <2>3, <2>4, <2>5, <2>6 DEF Extracting
<1>7. ASSUME RegisterDelta \/ RegisterAnew \/ RegistrationFails
      PROVE  OperationTyped' /\ OperationOK'
  <2>1. CASE EndOperation
    BY <1>0, <1>7, <2>1, EndStep DEF RegisterDelta, RegisterAnew, RegistrationFails
  <2>2. CASE StartPublishing
    <3>1. PICK d \in Units : pc' = "embed" /\ cur' = d /\ batch' = Units \ {d}
                             /\ UNCHANGED <<kind, text, slot, sources>>
      BY <2>2 DEF StartPublishing
    <3>2. pc = "register" /\ ops' = ops
      BY <1>7 DEF RegisterDelta, RegisterAnew, RegistrationFails
    <3>3. applied' \in BOOLEAN
      BY <1>7, <3>1 DEF RegisterDelta, RegisterAnew, RegistrationFails, EndOperation
    <3>4. Units \subseteq Doc /\ (\A e \in Units : text[e] # 0) /\ todo = {}
      BY <3>2 DEF Units, Typed, TypeOK, OperationTyped, OperationOK, ExtractingSteps
    <3>5. OperationTyped'
      BY <3>1, <3>2, <3>3, <3>4 DEF Typed, TypeOK, OperationTyped, Working
    <3> QED
      BY <3>1, <3>2, <3>4, <3>5 DEF Typed, OperationOK, Publishing, ExtractingSteps
  <2> QED
    BY <1>7, <2>1, <2>2 DEF RegisterDelta, RegisterAnew, RegistrationFails
<1>8. ASSUME Embed \/ Invalidate \/ WriteChunk \/ Prune PROVE OperationTyped' /\ OperationOK'
  <2>1. /\ UNCHANGED <<kind, cur, batch, text, applied, sources, ops>>
        /\ pc \in Publishing /\ pc' \in Publishing
        /\ pc' \in {"embed", "invalidate"} => pc = "embed"
        /\ pc' = "write" => pc \in {"invalidate", "write"}
    BY <1>8 DEF Embed, Invalidate, WriteChunk, Prune, Publishing
  <2>2. applied' \in BOOLEAN
    BY <2>1 DEF Typed, TypeOK, OperationTyped
  <2>3. cur \in Doc /\ text[cur] \in Version /\ Size[text[cur]] \in 0..MaxSize
    BY <2>1, TermAssumption, BoundAssumption
    DEF Typed, TypeOK, OperationTyped, OperationOK, Publishing, Version
  <2>4. /\ slot' \in 1..(MaxSize + 1)
        /\ pc' = "write" => slot' <= Size[text'[cur']] + 1
        /\ pc' = "invalidate" => slot' = 1
        /\ pc' # "embed"
    BY <1>8, <2>1, <2>3, BoundAssumption
    DEF Embed, Invalidate, WriteChunk, Remaining, Prune, Typed, TypeOK, OperationTyped,
        OperationOK, Publishing
  <2>5. OperationTyped'
    BY <2>1, <2>2, <2>4 DEF Typed, TypeOK, OperationTyped, Working, Publishing
  <2> QED
    BY <2>1, <2>4, <2>5 DEF Typed, OperationOK, Publishing, ExtractingSteps
<1>9. ASSUME Publish \/ Revert PROVE OperationTyped' /\ OperationOK'
  BY <1>9, NextDocumentStep DEF Publish, Revert, Publishing
<1>10. ASSUME PublicationFails \/ RefreshFails PROVE OperationTyped' /\ OperationOK'
  BY <1>10, CompensateStep DEF PublicationFails, RefreshFails, Publishing
<1>11. ASSUME NEW gone, NEW known, Delete(gone, known) PROVE OperationTyped' /\ OperationOK'
  BY <1>0, <1>11, EndStep DEF Delete
<1>12. ASSUME Refresh \/ Abandon PROVE OperationTyped' /\ OperationOK'
  BY <1>0, <1>12, EndStep DEF Refresh, Abandon
<1>13. ASSUME UNCHANGED <<pc, kind, cur, batch, text, slot, applied, todo, repair>>,
              back' \subseteq Doc, pc = "idle" => back' = back, ops' \in 0..MaxOps
       PROVE  OperationTyped' /\ OperationOK'
  <2>1. applied' \in BOOLEAN
    BY <1>13 DEF Typed, TypeOK, OperationTyped
  <2> QED
    BY <1>13, <2>1 DEF Typed, TypeOK, OperationTyped, OperationOK, Publishing, ExtractingSteps
<1>14. ASSUME NEW d \in Doc, Beside(d) PROVE OperationTyped' /\ OperationOK'
  <2>1. back \subseteq Doc
    BY DEF Typed, TypeOK, OperationTyped
  <2>2. CASE \E v \in Version : Edit(d, v)
    BY <1>0, <1>13, <2>1, <2>2 DEF Edit
  <2>3. CASE UNCHANGED operation
    <3>1. ops' \in 0..MaxOps
      BY <1>0, <1>14, BoundAssumption
      DEF Beside, Edit, Requeue, RepeatStatus, Scan, ReadRow, ExtractAsked, Begin
    <3> QED
      BY <1>13, <2>1, <2>3, <3>1 DEF operation
  <2> QED
    BY <1>14, <2>2, <2>3 DEF Beside, Requeue, RepeatStatus, Scan, ReadRow, ExtractAsked
<1>15. ASSUME UNCHANGED vars PROVE OperationTyped' /\ OperationOK'
  BY <1>0, <1>13, <1>15 DEF vars, operation, Typed, TypeOK, OperationTyped
<1> QED
  BY <1>1, <1>2, <1>3, <1>4, <1>5, <1>6, <1>7, <1>8, <1>9, <1>10, <1>11, <1>12, <1>14, <1>15
  DEF Next, Beside, Extracting

LEMMA TypedStep == Typed /\ [Next]_vars => Typed'
BY RegistryStep, PointsStep, VocabularyStep, OperationStep DEF Typed, TypeOK

\* In every reachable state each variable has its type and the counts of the
\* vocabulary contribution are natural numbers.
THEOREM TypeCorrect == Spec => []TypeOK
<1>1. Typed => TypeOK
  BY DEF Typed
<1> QED
  BY InitTyped, TypedStep, <1>1, PTL DEF Spec

LEMMA AlwaysTyped == Spec => []Typed
BY InitTyped, TypedStep, PTL DEF Spec

-----------------------------------------------------------------------------
\* What makes MarkedIsWhole inductive: while the passages of a document are
\* written its marker is off, the first ones are of the new version, and when
\* its summary is written all of them are.
WholeInv ==
  /\ MarkedIsWhole
  /\ pc = "write" => /\ ~summary[cur].marked
                     /\ \A i \in Slot : i < slot => body[cur][i] = text[cur]
  /\ pc = "publish" => ~summary[cur].marked /\ body[cur] = Whole(text[cur])

\* A step that disturbs no document's points, and neither begins nor continues
\* the writing of passages.
LEMMA WholeKept ==
  ASSUME WholeInv, UNCHANGED points, pc' \notin {"write", "publish"}
  PROVE  WholeInv'
BY DEF WholeInv, MarkedIsWhole, points

\* A step after which every marked document is whole.
LEMMA WholeMarked ==
  ASSUME Typed, WholeInv, NEW d \in Doc, pc' \notin {"write", "publish"},
         \A e \in Doc \ {d} : body'[e] = body[e] /\ summary'[e] = summary[e],
         summary'[d].marked => \E v \in Version : body'[d] = Whole(v)
  PROVE  WholeInv'
BY DEF WholeInv, MarkedIsWhole

LEMMA NotWriting ==
  ASSUME EndOperation \/ NextDocument \/ Compensate
  PROVE  pc' \notin {"write", "publish"}
BY DEF EndOperation, NextDocument, Compensate

LEMMA RemovedStep ==
  ASSUME Typed, WholeInv, NEW d \in Doc, RemovePoints(d), pc' \notin {"write", "publish"}
  PROVE  WholeInv'
<1>1. ~summary'[d].marked
  BY DEF RemovePoints, NoSummary, Typed, TypeOK, PointsTyped
<1>2. \A e \in Doc \ {d} : body'[e] = body[e] /\ summary'[e] = summary[e]
  BY DEF RemovePoints, Typed, TypeOK, PointsTyped
<1> QED
  BY <1>1, <1>2, WholeMarked

LEMMA WholeStep == Typed /\ WholeInv /\ [Next]_vars => WholeInv'
<1> SUFFICES ASSUME Typed, WholeInv, [Next]_vars PROVE WholeInv'
  OBVIOUS
<1>0. pc \in Publishing \cup {"rewrite", "delete"} => cur \in Doc
  BY DEF Typed, OperationOK, Publishing, ExtractingSteps
<1>1. ASSUME Invalidate PROVE WholeInv'
  <2>1. /\ cur \in Doc /\ slot = 1 /\ cur' = cur /\ slot' = slot /\ pc' = "write" /\ body' = body
        /\ summary' = [summary EXCEPT ![cur] = WithoutMarker(@)]
    BY <1>0, <1>1 DEF Invalidate, Typed, OperationOK, Publishing
  <2>2. /\ ~summary'[cur].marked
        /\ \A d \in Doc \ {cur} : summary'[d] = summary[d]
    BY <2>1 DEF WithoutMarker, Typed, TypeOK, PointsTyped
  <2>3. \A i \in Slot : ~(i < slot)
    BY <2>1 DEF Slot
  <2> QED
    BY <2>1, <2>2, <2>3 DEF WholeInv, MarkedIsWhole
<1>2. ASSUME WriteChunk PROVE WholeInv'
  <2>1. /\ cur \in Doc /\ slot \in Nat /\ cur' = cur /\ text' = text /\ slot' = slot + 1
        /\ pc = "write" /\ pc' = "write" /\ summary' = summary
        /\ body' = [body EXCEPT ![cur][slot] = text[cur]]
    BY <1>0, <1>2 DEF WriteChunk, Publishing, Typed, TypeOK, OperationTyped
  <2>2. ASSUME NEW i \in Slot, i < slot' PROVE body'[cur][i] = text[cur]
    <3>1. i < slot \/ i = slot
      BY <2>1, <2>2 DEF Slot
    <3> QED
      BY <2>1, <3>1 DEF WholeInv, Typed, TypeOK, PointsTyped
  <2>3. \A d \in Doc \ {cur} : body'[d] = body[d]
    BY <2>1 DEF Typed, TypeOK, PointsTyped
  <2> QED
    BY <2>1, <2>2, <2>3 DEF WholeInv, MarkedIsWhole
<1>3. ASSUME Prune PROVE WholeInv'
  <2>1. /\ cur \in Doc /\ slot \in Nat /\ cur' = cur /\ text' = text /\ ~(slot <= Size[text[cur]])
        /\ pc = "write" /\ pc' = "publish" /\ summary' = summary
        /\ body' = [body EXCEPT ![cur] = WithoutStale(@, text[cur])]
    BY <1>0, <1>3 DEF Prune, Remaining, Publishing, Typed, TypeOK, OperationTyped
  <2>2. Size[text[cur]] \in Nat
    BY <2>1, TermAssumption, BoundAssumption
    DEF Typed, TypeOK, OperationTyped, OperationOK, Publishing, Version
  <2>3. \A i \in Slot : i <= Size[text[cur]] => body[cur][i] = text[cur]
    BY <2>1, <2>2 DEF WholeInv, Slot
  <2>4. body'[cur] = Whole(text[cur])
    BY <2>1, <2>3 DEF WithoutStale, Whole, Typed, TypeOK, PointsTyped
  <2>5. \A d \in Doc \ {cur} : body'[d] = body[d]
    BY <2>1 DEF Typed, TypeOK, PointsTyped
  <2> QED
    BY <2>1, <2>4, <2>5 DEF WholeInv, MarkedIsWhole
<1>4. ASSUME pc = "publish", WriteSummary, body' = body, pc' \notin {"write", "publish"}
      PROVE  WholeInv'
  <2>1. cur \in Doc /\ text[cur] \in Version /\ body'[cur] = Whole(text[cur])
    BY <1>0, <1>4 DEF WholeInv, Typed, TypeOK, OperationTyped, OperationOK, Publishing, Version
  <2>2. \A d \in Doc \ {cur} : summary'[d] = summary[d]
    BY <1>4 DEF WriteSummary, Typed, TypeOK, PointsTyped
  <2> QED
    BY <1>4, <2>1, <2>2, WholeMarked
<1>5. ASSUME pc = "rewrite", RewriteSummary, body' = body, pc' \notin {"write", "publish"}
      PROVE  WholeInv'
  <2>1. cur \in Doc
    BY <1>0, <1>5
  <2>2. /\ summary'[cur].marked = summary[cur].marked
        /\ \A d \in Doc \ {cur} : summary'[d] = summary[d]
    BY <1>5, <2>1 DEF RewriteSummary, Typed, TypeOK, PointsTyped
  <2>3. summary'[cur].marked => \E v \in Version : body'[cur] = Whole(v)
    BY <1>5, <2>1, <2>2 DEF WholeInv, MarkedIsWhole
  <2> QED
    BY <1>5, <2>1, <2>2, <2>3, WholeMarked
<1>6. ASSUME Publish \/ PublicationFails \/ Refresh \/ RefreshFails PROVE WholeInv'
  <2>1. pc' \notin {"write", "publish"} /\ body' = body
    BY <1>6, NotWriting DEF Publish, PublicationFails, Refresh, RefreshFails
  <2>2. CASE summary' = summary
    BY <2>1, <2>2, WholeKept DEF points
  <2> QED
    BY <1>4, <1>5, <1>6, <2>1, <2>2 DEF Publish, PublicationFails, Refresh, RefreshFails
<1>7. ASSUME NEW gone, NEW known, Delete(gone, known) PROVE WholeInv'
  <2>1. cur \in Doc /\ pc' \notin {"write", "publish"}
    BY <1>0, <1>7, NotWriting DEF Delete
  <2> QED
    BY <1>7, <2>1, RemovedStep, WholeKept DEF Delete
<1>8. ASSUME Abandon PROVE WholeInv'
  <2>1. pc' \notin {"write", "publish"} /\ (pc = "delete" => cur \in Doc)
    BY <1>0, <1>8, NotWriting DEF Abandon
  <2> QED
    BY <1>8, <2>1, RemovedStep, WholeKept DEF Abandon
<1>9. ASSUME UNCHANGED <<points, pc, cur, text, slot>> PROVE WholeInv'
  BY <1>9 DEF points, WholeInv, MarkedIsWhole
<1>10. ASSUME \/ Account \/ Extracting \/ RegisterDelta \/ RegisterAnew \/ RegistrationFails
              \/ Embed \/ Revert \/ AccountRefresh
       PROVE  WholeInv'
  <2>1. UNCHANGED points
    BY <1>10
    DEF Account, Extracting, CheckBefore, ReadSource, CheckAfter, Extracted, RegisterDelta,
        RegisterAnew, RegistrationFails, Embed, Revert, AccountRefresh
  <2>2. pc' \notin {"write", "publish"}
    BY <1>10, NotWriting
    DEF Account, Extracting, CheckBefore, ReadSource, CheckAfter, Extracted, RegisterDelta,
        RegisterAnew, RegistrationFails, Embed, Revert, AccountRefresh, StartPublishing
  <2> QED
    BY <2>1, <2>2, WholeKept
<1>11. ASSUME NEW d \in Doc, NEW m \in Meta, StartRetag(d, m) PROVE WholeInv'
  <2>1. UNCHANGED points /\ pc' \notin {"write", "publish"}
    BY <1>11 DEF StartRetag, Acquire
  <2> QED
    BY <2>1, WholeKept
<1>12. ASSUME NEW d \in Doc, Beside(d)
       PROVE  WholeInv'
  <2>1. UNCHANGED <<points, pc, cur, text, slot>>
    BY <1>12 DEF Beside, Edit, Requeue, RepeatStatus, Scan, ReadRow, ExtractAsked, operation
  <2> QED
    BY <1>9, <2>1
<1>13. ASSUME NEW d \in Doc, StartReindex(d) \/ \E v \in Version : StartIndex(d, v)
       PROVE  WholeInv'
  BY <1>13, WholeKept DEF StartIndex, StartReindex
<1>14. ASSUME NEW d \in Doc, NEW k, StartDelete(d, k) PROVE WholeInv'
  BY <1>14, WholeKept DEF StartDelete
<1>15. ASSUME NEW k, StartIndexAll(k) PROVE WholeInv'
  BY <1>15, WholeKept DEF StartIndexAll
<1>16. ASSUME UNCHANGED vars PROVE WholeInv'
  BY <1>9, <1>16 DEF vars, operation
<1> QED
  BY <1>1, <1>2, <1>3, <1>6, <1>7, <1>8, <1>10, <1>11, <1>12, <1>13, <1>14, <1>15, <1>16
  DEF Next, Beside, Extracting

LEMMA InitWhole == Init => WholeInv
BY DEF Init, WholeInv, MarkedIsWhole, NoSummary

LEMMA AlwaysWhole == Spec => []WholeInv
<1>1. Init => Typed /\ WholeInv
  BY InitTyped, InitWhole
<1>2. Typed /\ WholeInv /\ [Next]_vars => (Typed /\ WholeInv)'
  BY TypedStep, WholeStep
<1> QED
  BY <1>1, <1>2, PTL DEF Spec

\* No completion marker is ever seen beside a mixture of two bodies, whatever
\* the number of documents, versions and passages and wherever requests fail.
THEOREM MarkedBodiesAreWhole == Spec => []MarkedIsWhole
<1>1. WholeInv => MarkedIsWhole
  BY DEF WholeInv
<1> QED
  BY AlwaysWhole, <1>1, PTL

-----------------------------------------------------------------------------
(* The refinement: Shown follows Publication. *)

\* A step that rewrites the points of one document: a body becomes complete
\* only as a whole, and a complete body changes only after its marker went.
LEMMA ShownStep ==
  ASSUME Typed, NEW d \in Doc,
         \A e \in Doc \ {d} : body'[e] = body[e] /\ summary'[e] = summary[e],
         summary'[d].marked => \/ summary[d].marked /\ body'[d] = body[d]
                               \/ ~summary[d].marked /\ \E v \in Version : body'[d] = Whole(v),
         Typed'
  PROVE  [Promise!Next]_Shown
<1>1. \A e \in Doc \ {d} : Shown'[e] = Shown[e]
  BY DEF Shown, Stored, HasSummary
<1>2. Shown' = [Shown EXCEPT ![d] = Shown'[d]]
  BY <1>1 DEF Shown
<1>3. CASE summary'[d].marked /\ summary[d].marked
  <2>1. Shown'[d] = Shown[d]
    BY <1>3 DEF Shown
  <2> QED
    BY <1>2, <2>1 DEF Shown
<1>4. CASE summary'[d].marked /\ ~summary[d].marked
  <2>1. PICK v \in Version : body'[d] = Whole(v)
    BY <1>4
  <2>2. Shown'[d] = Promise!Complete(Whole(v)) /\ Shown[d].state # "complete"
    BY <1>4, <2>1 DEF Shown, Promise!Complete
  <2>3. Promise!Mark(d, Whole(v))
    BY <1>2, <2>2 DEF Promise!Mark
  <2> QED
    BY <2>3 DEF Promise!Next
<1>5. CASE ~summary'[d].marked
  <2>1. Shown'[d] = Promise!Open \/ Shown'[d] = Promise!Absent
    BY <1>5 DEF Shown, Promise!Open, Promise!Absent
  <2>2. CASE Shown'[d] = Shown[d]
    BY <1>2, <2>2 DEF Shown
  <2>3. CASE Shown'[d] # Shown[d]
    BY <1>2, <2>1, <2>3 DEF Promise!Next, Promise!Unmark, Promise!Remove
  <2> QED
    BY <2>2, <2>3
<1> QED
  BY <1>3, <1>4, <1>5

LEMMA ShownKept ==
  ASSUME UNCHANGED points
  PROVE  [Promise!Next]_Shown
BY DEF points, Shown, Stored, HasSummary

LEMMA PublicationStep == Typed /\ WholeInv /\ [Next]_vars => [Promise!Next]_Shown
<1> SUFFICES ASSUME Typed, WholeInv, [Next]_vars PROVE [Promise!Next]_Shown
  OBVIOUS
<1>0. /\ pc \in Publishing \cup {"rewrite", "delete"} => cur \in Doc
      /\ Typed'
  BY TypedStep DEF Typed, OperationOK, Publishing, ExtractingSteps
<1>1. ASSUME Invalidate PROVE [Promise!Next]_Shown
  <2>1. cur \in Doc
    BY <1>0, <1>1 DEF Invalidate, Publishing
  <2>2. /\ ~summary'[cur].marked
        /\ \A d \in Doc \ {cur} : body'[d] = body[d] /\ summary'[d] = summary[d]
    BY <1>1, <2>1 DEF Invalidate, WithoutMarker, Typed, TypeOK, PointsTyped
  <2> QED
    BY <1>0, <2>1, <2>2, ShownStep
<1>2. ASSUME WriteChunk \/ Prune PROVE [Promise!Next]_Shown
  <2>1. cur \in Doc /\ summary' = summary /\ ~summary[cur].marked
    BY <1>0, <1>2 DEF WriteChunk, Prune, WholeInv, Publishing
  <2>2. \A d \in Doc \ {cur} : body'[d] = body[d]
    BY <1>2, <2>1 DEF WriteChunk, Prune, Typed, TypeOK, PointsTyped
  <2> QED
    BY <1>0, <2>1, <2>2, ShownStep
<1>3. ASSUME pc = "publish", WriteSummary, body' = body PROVE [Promise!Next]_Shown
  <2>1. cur \in Doc /\ text[cur] \in Version /\ ~summary[cur].marked
        /\ body'[cur] = Whole(text[cur])
    BY <1>0, <1>3 DEF WholeInv, Typed, TypeOK, OperationTyped, OperationOK, Publishing, Version
  <2>2. \A d \in Doc \ {cur} : body'[d] = body[d] /\ summary'[d] = summary[d]
    BY <1>3 DEF WriteSummary, Typed, TypeOK, PointsTyped
  <2> QED
    BY <1>0, <2>1, <2>2, ShownStep
<1>4. ASSUME pc = "rewrite", RewriteSummary, body' = body PROVE [Promise!Next]_Shown
  <2>1. cur \in Doc
    BY <1>0, <1>4
  <2>2. /\ summary'[cur].marked = summary[cur].marked
        /\ \A d \in Doc \ {cur} : body'[d] = body[d] /\ summary'[d] = summary[d]
    BY <1>4, <2>1 DEF RewriteSummary, Typed, TypeOK, PointsTyped
  <2> QED
    BY <1>0, <1>4, <2>1, <2>2, ShownStep
<1>5. ASSUME Publish \/ PublicationFails \/ Refresh \/ RefreshFails
      PROVE  [Promise!Next]_Shown
  <2>1. body' = body
    BY <1>5 DEF Publish, PublicationFails, Refresh, RefreshFails
  <2>2. CASE summary' = summary
    BY <2>1, <2>2, ShownKept DEF points
  <2> QED
    BY <1>3, <1>4, <1>5, <2>1, <2>2 DEF Publish, PublicationFails, Refresh, RefreshFails
<1>6. ASSUME cur \in Doc, RemovePoints(cur) PROVE [Promise!Next]_Shown
  <2>1. /\ ~summary'[cur].marked
        /\ \A d \in Doc \ {cur} : body'[d] = body[d] /\ summary'[d] = summary[d]
    BY <1>6 DEF RemovePoints, NoSummary, Typed, TypeOK, PointsTyped
  <2> QED
    BY <1>0, <1>6, <2>1, ShownStep
<1>7. ASSUME NEW gone, NEW known, Delete(gone, known) PROVE [Promise!Next]_Shown
  BY <1>0, <1>6, <1>7, ShownKept DEF Delete
<1>8. ASSUME Abandon PROVE [Promise!Next]_Shown
  BY <1>0, <1>6, <1>8, ShownKept DEF Abandon
<1>9. ASSUME UNCHANGED points PROVE [Promise!Next]_Shown
  BY <1>9, ShownKept
<1> QED
  BY <1>1, <1>2, <1>5, <1>7, <1>8, <1>9
  DEF Next, vars, points, Beside, Edit, Requeue, RepeatStatus, Scan, ReadRow, ExtractAsked,
      StartIndex, StartReindex, StartIndexAll, StartDelete, StartRetag, Account, Extracting,
      CheckBefore, ReadSource, CheckAfter, Extracted, RegisterDelta, RegisterAnew,
      RegistrationFails, Embed, Revert, AccountRefresh

\* What a search can see of a document's points follows the abstract
\* publication: one whole body replaces another only through an open repair.
THEOREM PublicationRefined == Spec => PublishesWholeBodies
<1>1. Init => Promise!Init
  BY DEF Init, Shown, Stored, HasSummary, NoSummary, Promise!Init, Promise!Absent
<1>2. Typed /\ WholeInv /\ [Next]_vars => [Promise!Next]_Shown
  BY PublicationStep
<1> QED
  BY AlwaysTyped, AlwaysWhole, <1>1, <1>2, PTL DEF Spec, PublishesWholeBodies, Promise!Spec

-----------------------------------------------------------------------------
\* What makes RepairsAreVerified inductive: what an index_document call has
\* extracted before it takes the lock,
ReadingInv ==
  \A d \in Doc : reading[d].text # 0 =>
    \/ reading[d].text = reading[d].hash \/ reading[d].back
    \/ file[d] # reading[d].hash

\* and what is extracted, and verified, under the lock.
Genuine(d) == text[d] = hash[d] \/ d \in back
VerifiedInv ==
  /\ kind = "reindex" => batch = {} /\ Genuine(cur)
  /\ \A d \in repair : text[d] # 0 =>
       Genuine(d) \/ (pc = "verify" /\ cur = d /\ file[d] # hash[d])

LEMMA ReadingStep == Typed /\ ReadingInv /\ [Next]_vars => ReadingInv'
<1> SUFFICES ASSUME Typed, ReadingInv, [Next]_vars PROVE ReadingInv'
  OBVIOUS
<1>0. /\ file \in [Doc -> Version]
      /\ reading \in [Doc -> [hash : 0..MaxVersion, text : 0..MaxVersion, back : BOOLEAN]]
  BY DEF Typed, TypeOK, RegistryTyped
<1>1. ASSUME NEW d \in Doc, NEW v \in Version, Edit(d, v) PROVE ReadingInv'
  <2>1. /\ file' = [file EXCEPT ![d] = v]
        /\ reading' = [reading EXCEPT ![d].back = @ \/ (reading[d].text # 0 /\ v = reading[d].hash)]
    BY <1>1 DEF Edit
  <2>2. \A e \in Doc \ {d} : file'[e] = file[e] /\ reading'[e] = reading[e]
    BY <1>0, <2>1
  <2>3. /\ file'[d] = v
        /\ reading'[d] = [reading[d] EXCEPT !.back =
                            @ \/ (reading[d].text # 0 /\ v = reading[d].hash)]
    BY <1>0, <2>1
  <2>4. /\ reading'[d].text = reading[d].text /\ reading'[d].hash = reading[d].hash
        /\ reading[d].back => reading'[d].back
        /\ reading[d].text # 0 /\ v = reading[d].hash => reading'[d].back
    BY <1>0, <2>3
  <2> QED
    BY <2>2, <2>3, <2>4 DEF ReadingInv
<1>2. ASSUME NEW d \in Doc, ReadRow(d) PROVE ReadingInv'
  <2>1. reading' = [reading EXCEPT ![d].hash = hash[d]] /\ reading[d].text = 0 /\ file' = file
    BY <1>2 DEF ReadRow, NoReading
  <2>2. reading'[d].text = 0 /\ \A e \in Doc \ {d} : reading'[e] = reading[e]
    BY <1>0, <2>1
  <2> QED
    BY <2>1, <2>2 DEF ReadingInv
<1>3. ASSUME NEW d \in Doc, ExtractAsked(d) PROVE ReadingInv'
  <2>1. /\ file' = file
        /\ \/ reading' = [reading EXCEPT ![d].text = file[d]]
           \/ reading' = [reading EXCEPT ![d] = NoReading]
    BY <1>3 DEF ExtractAsked
  <2>2. /\ \A e \in Doc \ {d} : reading'[e] = reading[e]
        /\ reading'[d].text = 0 \/ (reading'[d].text = file[d] /\ reading'[d].hash = reading[d].hash)
    BY <1>0, <2>1 DEF NoReading
  <2> QED
    BY <2>1, <2>2 DEF ReadingInv
<1>4. ASSUME NEW d \in Doc, StartReindex(d) PROVE ReadingInv'
  <2>1. reading' = [reading EXCEPT ![d] = NoReading] /\ file' = file
    BY <1>4 DEF StartReindex
  <2> QED
    BY <1>0, <2>1 DEF ReadingInv, NoReading
<1>5. ASSUME Abandon PROVE ReadingInv'
  BY <1>5 DEF Abandon, ReadingInv, NoReading
<1>6. ASSUME UNCHANGED elsewhere PROVE ReadingInv'
  BY <1>6 DEF ReadingInv
<1> QED
  BY <1>1, <1>2, <1>3, <1>4, <1>5, <1>6
  DEF Next, vars, Requeue, RepeatStatus, Scan, StartIndex, StartIndexAll, StartDelete,
      StartRetag, CheckBefore, ReadSource, CheckAfter, Extracted, Account, RegisterDelta,
      RegisterAnew, RegistrationFails, Embed, Invalidate, WriteChunk, Prune, Publish,
      PublicationFails, Revert, Delete, AccountRefresh, Refresh, RefreshFails

LEMMA VerifiedEnd ==
  ASSUME EndOperation \/ (kind' = "none" /\ repair' = {})
  PROVE  VerifiedInv'
BY DEF EndOperation, VerifiedInv

LEMMA VerifiedKept ==
  ASSUME VerifiedInv, pc = "verify" => UNCHANGED <<pc, cur, file>>,
         UNCHANGED <<hash, kind, text, repair, back>>, batch' \subseteq batch,
         kind = "reindex" => cur' = cur
  PROVE  VerifiedInv'
BY DEF VerifiedInv, Genuine

LEMMA VerifiedNext ==
  ASSUME VerifiedInv, NextDocument, hash' = hash, pc # "verify"
  PROVE  VerifiedInv'
<1>1. CASE EndOperation
  BY <1>1, VerifiedEnd
<1>2. ASSUME NEW d \in batch, cur' = d, batch' = batch \ {d},
             UNCHANGED <<kind, text, repair, back>>
      PROVE  VerifiedInv'
  BY <1>2, VerifiedKept DEF VerifiedInv
<1> QED
  BY <1>1, <1>2 DEF NextDocument

LEMMA VerifiedCompensate ==
  ASSUME VerifiedInv, Compensate, hash' = hash, pc # "verify"
  PROVE  VerifiedInv'
BY VerifiedNext, VerifiedKept DEF Compensate

\* Pass 1 of index_all.
LEMMA VerifiedExtracting ==
  ASSUME Typed, VerifiedInv, Extracting
  PROVE  VerifiedInv'
<1>0. /\ kind # "reindex" /\ UNCHANGED <<hash, file>>
      /\ text \in [Doc -> 0..MaxVersion] /\ repair \subseteq Doc
  BY DEF Extracting, CheckBefore, ReadSource, CheckAfter, Extracted, registry, Typed, TypeOK,
         OperationTyped, OperationOK, ExtractingSteps
<1>1. CASE (\E d \in Doc : CheckBefore(d)) \/ Extracted
  BY <1>0, <1>1, VerifiedEnd, VerifiedKept DEF CheckBefore, Extracted
<1>2. CASE ReadSource
  <2>1. kind' = kind /\ repair' = repair /\ back' = back /\ pc = "source"
    BY <1>2 DEF ReadSource
  <2>2. CASE UNCHANGED text
    BY <1>0, <2>1, <2>2 DEF VerifiedInv, Genuine
  <2>3. CASE text' = [text EXCEPT ![cur] = file[cur]] /\ cur \in repair /\ pc' = "verify" /\ cur' = cur
    <3>1. \A d \in repair : text'[d] = IF d = cur THEN file[d] ELSE text[d]
      BY <1>0, <2>3
    <3> QED
      BY <1>0, <2>1, <2>3, <3>1 DEF VerifiedInv, Genuine
  <2>4. CASE text' = [text EXCEPT ![cur] = file[cur]] /\ cur \notin repair
    <3>1. \A d \in repair : text'[d] = text[d]
      BY <1>0, <2>4
    <3> QED
      BY <1>0, <2>1, <2>4, <3>1 DEF VerifiedInv, Genuine
  <2> QED
    BY <1>2, <2>2, <2>3, <2>4 DEF ReadSource
<1>3. CASE CheckAfter
  <2>1. kind' = kind /\ repair' = repair /\ back' = back
    BY <1>3 DEF CheckAfter
  <2>2. CASE file[cur] = hash[cur] /\ text' = text
    BY <1>0, <2>1, <2>2 DEF VerifiedInv, Genuine
  <2>3. CASE text' = [text EXCEPT ![cur] = 0]
    <3>1. \A d \in repair : text'[d] = IF d = cur THEN 0 ELSE text[d]
      BY <1>0, <2>3
    <3> QED
      BY <1>0, <2>1, <3>1 DEF VerifiedInv, Genuine
  <2> QED
    BY <1>3, <2>2, <2>3 DEF CheckAfter, SourceVerified
<1> QED
  BY <1>1, <1>2, <1>3 DEF Extracting

LEMMA VerifiedStep == Typed /\ ReadingInv /\ VerifiedInv /\ [Next]_vars => VerifiedInv'
<1> SUFFICES ASSUME Typed, ReadingInv, VerifiedInv, [Next]_vars PROVE VerifiedInv'
  OBVIOUS
<1>0. pc = "idle" => kind = "none" /\ batch = {} /\ repair = {} /\ text = [d \in Doc |-> 0]
  BY DEF Typed, OperationOK
<1>1. ASSUME NEW d \in Doc, Scan(d) PROVE VerifiedInv'
  BY <1>0, <1>1, VerifiedEnd DEF Scan, operation
<1>2. ASSUME NEW d \in Doc, NEW v \in Version, StartIndex(d, v) PROVE VerifiedInv'
  BY <1>0, <1>2 DEF StartIndex, Acquire, VerifiedInv
<1>3. ASSUME NEW d \in Doc, StartReindex(d) PROVE VerifiedInv'
  <2>1. pc = "idle" /\ batch' = batch /\ repair' = repair /\ hash' = hash /\ reading[d].text # 0
    BY <1>3 DEF StartReindex, registry
  <2>2. CASE kind' = kind
    BY <1>0, <2>1, <2>2 DEF VerifiedInv
  <2>3. CASE /\ hash[d] = reading[d].hash /\ SourceVerified(d)
             /\ kind' = "reindex" /\ cur' = d
             /\ text' = [text EXCEPT ![d] = reading[d].text]
             /\ back' = IF reading[d].back THEN {d} ELSE {}
    <3>1. reading[d].text = hash[d] \/ reading[d].back
      BY <2>1, <2>3 DEF ReadingInv, SourceVerified
    <3>2. text'[d] = reading[d].text
      BY <2>3 DEF Typed, TypeOK, OperationTyped
    <3> QED
      BY <1>0, <2>1, <2>3, <3>1, <3>2 DEF VerifiedInv, Genuine
  <2> QED
    BY <1>3, <2>2, <2>3 DEF StartReindex
<1>4. ASSUME NEW d \in Doc, NEW k \in {"delete", "purge"}, StartDelete(d, k)
      PROVE  VerifiedInv'
  BY <1>0, <1>4 DEF StartDelete, Acquire, VerifiedInv
<1>5. ASSUME NEW k \in {"all", "force"}, StartIndexAll(k) PROVE VerifiedInv'
  <2>1. kind' = k /\ text' = [d \in Doc |-> 0] /\ repair' \subseteq Doc
    BY <1>0, <1>5 DEF StartIndexAll, Acquire
  <2> QED
    BY <2>1 DEF VerifiedInv
<1>6. ASSUME NEW d \in Doc, NEW m \in Meta, StartRetag(d, m) PROVE VerifiedInv'
  <2>1. repair' = {} /\ kind' \in {"none", "retag"}
    BY <1>0, <1>6 DEF StartRetag, Acquire
  <2> QED
    BY <2>1 DEF VerifiedInv
<1>7. ASSUME Extracting PROVE VerifiedInv'
  BY <1>7, VerifiedExtracting
<1>8. ASSUME RegisterDelta \/ RegisterAnew \/ RegistrationFails PROVE VerifiedInv'
  <2>1. hash' = hash /\ kind # "reindex" /\ pc = "register"
    BY <1>8 DEF RegisterDelta, RegisterAnew, RegistrationFails, registry, Typed, OperationOK
  <2>2. CASE StartPublishing
    BY <2>1, <2>2 DEF StartPublishing, VerifiedInv, Genuine
  <2> QED
    BY <1>8, <2>2, VerifiedEnd DEF RegisterDelta, RegisterAnew, RegistrationFails
<1>9. ASSUME Publish \/ Revert \/ PublicationFails \/ RefreshFails PROVE VerifiedInv'
  BY <1>9, VerifiedNext, VerifiedCompensate
  DEF Publish, Revert, PublicationFails, RefreshFails, registry
<1>10. ASSUME \/ Account \/ Embed \/ Invalidate \/ WriteChunk \/ Prune \/ AccountRefresh
       PROVE  VerifiedInv'
  BY <1>10, VerifiedEnd, VerifiedKept
  DEF Account, Embed, Invalidate, WriteChunk, Prune, AccountRefresh, registry
<1>11. ASSUME NEW gone, NEW known, Delete(gone, known) PROVE VerifiedInv'
  BY <1>11, VerifiedEnd DEF Delete
<1>12. ASSUME Refresh \/ Abandon PROVE VerifiedInv'
  BY <1>12, VerifiedEnd DEF Refresh, Abandon
<1>13. ASSUME NEW d \in Doc, NEW v \in Version, Edit(d, v) PROVE VerifiedInv'
  <2>1. /\ file' = [file EXCEPT ![d] = v]
        /\ back' = IF pc = "verify" /\ d = cur /\ v = hash[d] THEN back \cup {d} ELSE back
        /\ UNCHANGED <<hash, kind, cur, batch, text, repair, pc>>
    BY <1>13 DEF Edit, registry
  <2>2. \A e \in Doc : file'[e] = IF e = d THEN v ELSE file[e]
    BY <2>1 DEF Typed, TypeOK, RegistryTyped
  <2>3. repair \subseteq Doc
    BY DEF Typed, TypeOK, OperationTyped
  <2> QED
    BY <2>1, <2>2, <2>3 DEF VerifiedInv, Genuine
<1>14. ASSUME NEW d \in Doc, Requeue(d) \/ RepeatStatus(d) \/ ReadRow(d) \/ ExtractAsked(d)
       PROVE  VerifiedInv'
  BY <1>14, VerifiedKept DEF Requeue, RepeatStatus, ReadRow, ExtractAsked, registry, operation
<1>15. ASSUME UNCHANGED vars PROVE VerifiedInv'
  BY <1>15, VerifiedKept DEF vars, registry, operation
<1> QED
  BY <1>1, <1>2, <1>3, <1>4, <1>5, <1>6, <1>7, <1>8, <1>9, <1>10, <1>11, <1>12, <1>13, <1>14,
     <1>15
  DEF Next, Extracting

\* What index_document and a repair of an INDEXED document publish is the
\* version the row registers, however the file and the row change around the
\* extraction, unless the file is back at that version when its hash is taken.
THEOREM RepairsVerified == Spec => []RepairsAreVerified
<1>1. Init => ReadingInv /\ VerifiedInv
  BY DEF Init, ReadingInv, VerifiedInv, NoReading
<1>2. Typed /\ VerifiedInv => RepairsAreVerified
  BY DEF Typed, OperationOK, Publishing, VerifiedInv, Genuine, RepairsAreVerified
<1> QED
  BY AlwaysTyped, ReadingStep, VerifiedStep, <1>1, <1>2, PTL DEF Spec

-----------------------------------------------------------------------------
(* The vocabulary contribution. *)

\* A document of which the delta is applied is owed its new terms, until its
\* points are published or the delta is reverted; others, the stored ones.
Pending == IF applied /\ pc \in Publishing \cup {"revert", "rewrite"} THEN batch \cup {cur} ELSE {}
Owed == [d \in Doc |-> IF d \in Pending THEN NewTerms[d] ELSE StoredTerms[d]]
Counted == {d \in Doc : d \in Pending \/ Stored(d)}

Balanced == freq = Tally(Doc, Owed) /\ count = Cardinality(Counted)

\* What an operation knows of its own delta.
DeltaOK ==
  /\ pc \in {"write", "publish"} /\ ~applied => drift # "none"
  /\ pc \in {"delete", "rewrite"} /\ applied => Stored(cur)
  /\ pc \in {"read", "rewrite"} => kind = "retag"
  /\ pc = "revert" => applied
  /\ pc \in Publishing \cup {"revert", "rewrite"} => cur \notin batch

\* What makes Accounted inductive.
AccountInv == DeltaOK /\ (drift = "none" => Balanced)

\* Taking from a set what it has in D, for what another set has there.
LEMMA SwitchCount ==
  ASSUME NEW A, A \subseteq Doc, NEW B, B \subseteq Doc, NEW D, A \ D = B \ D
  PROVE  /\ Cardinality(A) \in Nat /\ Cardinality(B) \in Nat
         /\ Cardinality(A \cap D) \in Nat /\ Cardinality(B \cap D) \in Nat
         /\ Cardinality(A) + Cardinality(B \cap D) - Cardinality(A \cap D) = Cardinality(B)
<1>1. IsFiniteSet(A) /\ IsFiniteSet(B)
  BY FS_Subset, DocAssumption
<1>2. /\ Cardinality(A) \in Nat /\ Cardinality(B) \in Nat
      /\ Cardinality(A \cap D) \in Nat /\ Cardinality(B \cap D) \in Nat
  <2>1. Cardinality(A) \in Nat
    BY PartType
  <2>2. Cardinality(B) \in Nat
    BY PartType
  <2>3. Cardinality(A \cap D) \in Nat
    BY A \cap D \subseteq Doc, PartType
  <2>4. Cardinality(B \cap D) \in Nat
    BY B \cap D \subseteq Doc, PartType
  <2> QED
    BY <2>1, <2>2, <2>3, <2>4
<1>3. /\ Cardinality(A \ D) = Cardinality(A) - Cardinality(A \cap D)
      /\ Cardinality(B \ D) = Cardinality(B) - Cardinality(B \cap D)
  BY <1>1, FS_Difference
<1>4. Cardinality(A \ D) = Cardinality(B \ D)
  OBVIOUS
<1> QED
  BY <1>2, <1>3, <1>4

LEMMA TallySame ==
  ASSUME NEW D, NEW f, NEW g, \A d \in D : f[d] = g[d]
  PROVE  Tally(D, f) = Tally(D, g)
<1>1. ASSUME NEW t \in Term PROVE {d \in D : t \in f[d]} = {d \in D : t \in g[d]}
  OBVIOUS
<1> QED
  BY <1>1 DEF Tally

\* The delta of D, from the old terms to the new ones, turns the tally of all
\* documents into the tally of all documents.
LEMMA SwitchTally ==
  ASSUME NEW D, D \subseteq Doc, NEW t \in Term,
         NEW f, NEW g, \A d \in Doc \ D : f[d] = g[d]
  PROVE  Minus(Tally(Doc, f)[t] + Tally(D, g)[t], Tally(D, f)[t]) = Tally(Doc, g)[t]
<1> DEFINE A == {d \in Doc : t \in f[d]}
           B == {d \in Doc : t \in g[d]}
<1>1. A \subseteq Doc /\ B \subseteq Doc /\ A \ D = B \ D
  OBVIOUS
<1>2. {d \in D : t \in f[d]} = A \cap D /\ {d \in D : t \in g[d]} = B \cap D
  OBVIOUS
<1>3. /\ Tally(Doc, f)[t] = Cardinality(A) /\ Tally(Doc, g)[t] = Cardinality(B)
      /\ Tally(D, f)[t] = Cardinality(A \cap D) /\ Tally(D, g)[t] = Cardinality(B \cap D)
  BY <1>2 DEF Tally
<1> HIDE DEF A, B
<1>4. /\ Cardinality(A) \in Nat /\ Cardinality(B) \in Nat
      /\ Cardinality(A \cap D) \in Nat /\ Cardinality(B \cap D) \in Nat
      /\ Cardinality(A) + Cardinality(B \cap D) - Cardinality(A \cap D) = Cardinality(B)
  BY <1>1, SwitchCount
<1> QED
  BY <1>3, <1>4 DEF Minus

\* A delta that takes the documents D from what they were owed to what they
\* are owed now keeps the contribution balanced.
LEMMA BalanceSwitch ==
  ASSUME Balanced, NEW D, D \subseteq Doc,
         \A d \in Doc \ D : Owed'[d] = Owed[d] /\ (d \in Counted' <=> d \in Counted),
         NEW added, NEW removed, NEW net, ApplyDelta(added, removed, net),
         added = Tally(D, Owed'), removed = Tally(D, Owed),
         net = Cardinality(Counted' \cap D) - Cardinality(Counted \cap D)
  PROVE  Balanced'
<1>1. freq' = Tally(Doc, Owed')
  <2> DEFINE new == Owed'
  <2>0. \A d \in Doc \ D : Owed[d] = new[d]
    OBVIOUS
  <2> HIDE DEF new
  <2>1. ASSUME NEW t \in Term
        PROVE  Minus(freq[t] + added[t], removed[t]) = Tally(Doc, new)[t]
    <3>1. Minus(Tally(Doc, Owed)[t] + Tally(D, new)[t], Tally(D, Owed)[t])
            = Tally(Doc, new)[t]
      BY <2>0, SwitchTally
    <3>2. freq[t] = Tally(Doc, Owed)[t]
      BY DEF Balanced
    <3> QED
      BY <3>1, <3>2 DEF new
  <2>2. freq' = [t \in Term |-> Tally(Doc, new)[t]]
    BY <2>1 DEF ApplyDelta
  <2> QED
    BY <2>2 DEF Tally, new
<1>2. count' = Cardinality(Counted')
  <2>1. Counted \subseteq Doc /\ Counted' \subseteq Doc /\ Counted \ D = Counted' \ D
    BY DEF Counted
  <2>2. /\ Cardinality(Counted) \in Nat /\ Cardinality(Counted') \in Nat
        /\ Cardinality(Counted \cap D) \in Nat /\ Cardinality(Counted' \cap D) \in Nat
        /\ Cardinality(Counted) + Cardinality(Counted' \cap D) - Cardinality(Counted \cap D)
             = Cardinality(Counted')
    BY <2>1, SwitchCount
  <2>3. count' = Minus(Cardinality(Counted) + net, 0)
    BY DEF ApplyDelta, Balanced
  <2> QED
    BY <2>2, <2>3 DEF Minus
<1> QED
  BY <1>1, <1>2 DEF Balanced

LEMMA BalanceKept ==
  ASSUME Balanced, UNCHANGED <<freq, count>>,
         \A d \in Doc : Owed'[d] = Owed[d] /\ (d \in Counted' <=> d \in Counted)
  PROVE  Balanced'
<1>1. Tally(Doc, Owed') = Tally(Doc, Owed)
  BY TallySame
<1>2. Counted' = Counted
  BY DEF Counted
<1> QED
  BY <1>1, <1>2 DEF Balanced

\* What a document is owed after a step.
LEMMA OwedStored ==
  ASSUME NEW d \in Doc, body'[d] = body[d], summary'[d] = summary[d]
  PROVE  StoredTerms'[d] = StoredTerms[d] /\ (Stored(d)' <=> Stored(d))
BY DEF StoredTerms, Stored, HasSummary

LEMMA OwedNew ==
  ASSUME NEW d \in Doc, UNCHANGED <<meta, kind, text>>, kind = "retag" => body'[d] = body[d]
  PROVE  NewTerms'[d] = NewTerms[d]
BY DEF NewTerms

\* A step that keeps the pending documents, and the points of the others.
LEMMA PendingKept ==
  ASSUME Balanced, UNCHANGED <<freq, count>>, Pending' = Pending,
         Pending # {} => UNCHANGED <<meta, kind, text>> /\ (kind = "retag" => body' = body),
         \A d \in Doc \ Pending : body'[d] = body[d] /\ summary'[d] = summary[d]
  PROVE  Balanced'
<1>1. ASSUME NEW d \in Doc PROVE Owed'[d] = Owed[d] /\ (d \in Counted' <=> d \in Counted)
  <2>1. CASE d \in Pending
    <3>1. NewTerms'[d] = NewTerms[d]
      BY <2>1, OwedNew
    <3> QED
      BY <2>1, <3>1 DEF Owed, Counted
  <2>2. CASE d \notin Pending
    <3>1. StoredTerms'[d] = StoredTerms[d] /\ (Stored(d)' <=> Stored(d))
      BY <2>2, OwedStored
    <3> QED
      BY <2>2, <3>1 DEF Owed, Counted
  <2> QED
    BY <2>1, <2>2
<1> QED
  BY <1>1, BalanceKept

\* Registration, while nothing is pending.
LEMMA BalanceRegister ==
  ASSUME Balanced, NEW D, D \subseteq Doc, Register(D), Pending = {}, Pending' = D,
         UNCHANGED <<meta, kind, text, body, summary>>
  PROVE  Balanced'
<1>1. ASSUME NEW d \in Doc
      PROVE  /\ NewTerms'[d] = NewTerms[d] /\ StoredTerms'[d] = StoredTerms[d]
             /\ Stored(d)' <=> Stored(d)
  BY OwedNew, OwedStored
<1>2. ASSUME NEW d \in Doc \ D
      PROVE  Owed'[d] = Owed[d] /\ (d \in Counted' <=> d \in Counted)
  BY <1>1 DEF Owed, Counted
<1>3. Tally(D, NewTerms) = Tally(D, Owed')
  <2>1. \A d \in D : NewTerms[d] = Owed'[d]
    BY <1>1 DEF Owed
  <2> QED
    BY <2>1, TallySame
<1>4. Tally(D, StoredTerms) = Tally(D, Owed)
  <2>1. \A d \in D : StoredTerms[d] = Owed[d]
    BY DEF Owed
  <2> QED
    BY <2>1, TallySame
<1>5. Cardinality({d \in D : ~Stored(d)})
        = Cardinality(Counted' \cap D) - Cardinality(Counted \cap D)
  <2> DEFINE S == {d \in D : Stored(d)}
  <2>1. Counted' \cap D = D /\ Counted \cap D = S
    BY DEF Counted
  <2>2. {d \in D : ~Stored(d)} = D \ S /\ D \cap S = S
    OBVIOUS
  <2> HIDE DEF S
  <2>3. Cardinality(D \ S) = Cardinality(D) - Cardinality(D \cap S)
    BY PartType, FS_Difference
  <2> QED
    BY <2>1, <2>2, <2>3
<1> QED
  BY <1>2, <1>3, <1>4, <1>5, BalanceSwitch DEF Register

\* What is pending when the operation goes on to its next document.
LEMMA NextPending ==
  ASSUME NextDocument
  PROVE  /\ Pending' = IF applied THEN batch ELSE {}
         /\ Pending' # {} => UNCHANGED <<kind, text>>
<1>1. CASE batch = {} /\ EndOperation
  BY <1>1 DEF EndOperation, Pending
<1>2. ASSUME NEW d \in batch, pc' = "embed", cur' = d, batch' = batch \ {d},
             UNCHANGED <<kind, text, applied, sources>>
      PROVE  /\ Pending' = IF applied THEN batch ELSE {}
             /\ Pending' # {} => UNCHANGED <<kind, text>>
  BY <1>2 DEF Pending, Publishing
<1> QED
  BY <1>1, <1>2 DEF NextDocument

LEMMA EndPending ==
  ASSUME EndOperation
  PROVE  Pending' = {}
BY DEF EndOperation, Pending

\* The current document is not pending any longer; the rest of the batch is.
LEMMA BalanceSettled ==
  ASSUME Balanced, UNCHANGED <<freq, count, meta, body>>, NEW c \in Doc, c \notin batch,
         Pending \in {{}, batch \cup {c}}, Pending' = batch \cap Pending,
         Pending' # {} => UNCHANGED <<kind, text>>,
         \A d \in Doc \ {c} : summary'[d] = summary[d],
         StoredTerms'[c] = Owed[c], Stored(c)', c \in Counted
  PROVE  Balanced'
<1>1. Owed'[c] = Owed[c] /\ (c \in Counted' <=> c \in Counted)
  BY DEF Owed, Counted
<1>2. ASSUME NEW d \in Doc \ {c}
      PROVE  Owed'[d] = Owed[d] /\ (d \in Counted' <=> d \in Counted)
  <2>1. StoredTerms'[d] = StoredTerms[d] /\ (Stored(d)' <=> Stored(d))
    BY <1>2, OwedStored
  <2>2. CASE d \in Pending
    <3>1. d \in Pending' /\ NewTerms'[d] = NewTerms[d]
      BY <1>2, <2>2, OwedNew
    <3> QED
      BY <1>2, <2>2, <3>1 DEF Owed, Counted
  <2>3. CASE d \notin Pending
    BY <1>2, <2>1, <2>3 DEF Owed, Counted
  <2> QED
    BY <2>2, <2>3
<1> QED
  BY <1>1, <1>2, BalanceKept

LEMMA BalancePublish ==
  ASSUME Typed, WholeInv, DeltaOK, Balanced, applied, pc = "publish", NEW c, c = cur,
         WriteSummary, NextDocument, UNCHANGED <<freq, count, meta, body>>
  PROVE  Balanced'
<1>1. /\ c \in Doc /\ text[c] \in Version /\ text[c] # 0 /\ kind # "retag"
      /\ c \notin batch /\ body[c] = Whole(text[c])
  BY DEF Typed, TypeOK, OperationTyped, OperationOK, Publishing, Version, WholeInv, DeltaOK
<1>2. Pending = batch \cup {c} /\ Pending' = batch /\ (Pending' # {} => UNCHANGED <<kind, text>>)
  BY NextPending DEF Pending, Publishing
<1>3. /\ summary'[c] = [meta |-> meta[c], version |-> hash[c], marked |-> TRUE]
      /\ \A d \in Doc \ {c} : summary'[d] = summary[d]
  BY <1>1 DEF WriteSummary, Typed, TypeOK, PointsTyped
<1>4. HasSummary(c)' /\ Stored(c)'
  <2>1. summary'[c].marked # NoSummary.marked
    BY <1>3 DEF NoSummary
  <2> QED
    BY <2>1 DEF HasSummary, Stored
<1>5. StoredTerms'[c] = NewTerms[c]
  BY <1>1, <1>3, <1>4 DEF StoredTerms, NewTerms
<1>6. NewTerms[c] = Owed[c] /\ c \in Counted
  BY <1>1, <1>2 DEF Owed, Counted
<1> QED
  BY <1>1, <1>2, <1>3, <1>4, <1>5, <1>6, BalanceSettled

LEMMA BalanceRewrite ==
  ASSUME Typed, DeltaOK, Balanced, pc = "rewrite", NEW c, c = cur, RewriteSummary, drift' = "none",
         EndOperation, UNCHANGED <<freq, count, meta, body>>
  PROVE  Balanced'
<1>1. c \in Doc /\ kind = "retag" /\ batch = {} /\ meta[c] \in Meta
  BY DEF Typed, TypeOK, RegistryTyped, OperationOK, DeltaOK
<1>2. Pending = (IF applied THEN {c} ELSE {}) /\ Pending' = {}
  BY <1>1, EndPending DEF Pending
<1>3. /\ summary'[c] = [meta |-> meta[c], version |-> hash[c], marked |-> summary[c].marked]
      /\ \A d \in Doc \ {c} : summary'[d] = summary[d]
  BY <1>1 DEF RewriteSummary, Typed, TypeOK, PointsTyped
<1>4. HasSummary(c)' /\ Stored(c)'
  <2>1. summary'[c].meta # NoSummary.meta
    BY <1>1, <1>3, MetaAssumption DEF NoSummary
  <2> QED
    BY <2>1 DEF HasSummary, Stored
<1>5. StoredTerms'[c] = NewTerms[c]
  BY <1>1, <1>3, <1>4 DEF StoredTerms, NewTerms
<1>6. Stored(c) /\ (applied \/ NewTerms[c] = StoredTerms[c])
  BY DEF RewriteSummary, DeltaOK
<1>7. NewTerms[c] = Owed[c] /\ c \in Counted
  BY <1>1, <1>2, <1>6 DEF Owed, Counted
<1> QED
  BY <1>1, <1>2, <1>3, <1>4, <1>5, <1>7, BalanceSettled

\* _revert_vocabulary_update.
LEMMA BalanceRestore ==
  ASSUME Typed, DeltaOK, Balanced, pc = "revert", NEW c, c = cur, Restore(cur), NextDocument,
         UNCHANGED <<meta, body, summary>>
  PROVE  Balanced'
<1>1. c \in Doc /\ applied /\ c \notin batch
  BY DEF Typed, OperationOK, DeltaOK, Publishing
<1>2. Pending = batch \cup {c} /\ Pending' = batch /\ (Pending' # {} => UNCHANGED <<kind, text>>)
  BY <1>1, NextPending DEF Pending
<1>3. ASSUME NEW d \in Doc PROVE StoredTerms'[d] = StoredTerms[d] /\ (Stored(d)' <=> Stored(d))
  BY OwedStored
<1>4. ASSUME NEW d \in Doc \ {c}
      PROVE  Owed'[d] = Owed[d] /\ (d \in Counted' <=> d \in Counted)
  <2>1. CASE d \in Pending
    <3>1. d \in Pending' /\ NewTerms'[d] = NewTerms[d]
      BY <1>2, <1>4, <2>1, OwedNew
    <3> QED
      BY <1>4, <2>1, <3>1 DEF Owed, Counted
  <2>2. CASE d \notin Pending
    BY <1>2, <1>3, <1>4, <2>2 DEF Owed, Counted
  <2> QED
    BY <2>1, <2>2
<1>5. Tally({c}, StoredTerms) = Tally({c}, Owed')
  <2>1. \A d \in {c} : StoredTerms[d] = Owed'[d]
    BY <1>1, <1>2, <1>3 DEF Owed
  <2> QED
    BY <2>1, TallySame
<1>6. Tally({c}, NewTerms) = Tally({c}, Owed)
  <2>1. \A d \in {c} : NewTerms[d] = Owed[d]
    BY <1>1, <1>2 DEF Owed
  <2> QED
    BY <2>1, TallySame
<1>7. (IF Stored(c) THEN 0 ELSE -1)
        = Cardinality(Counted' \cap {c}) - Cardinality(Counted \cap {c})
  <2>1. Counted \cap {c} = {c}
    BY <1>1, <1>2 DEF Counted
  <2>2. Counted' \cap {c} = IF Stored(c) THEN {c} ELSE {}
    BY <1>1, <1>2, <1>3 DEF Counted
  <2>3. Cardinality({c}) = 1 /\ Cardinality({}) = 0
    BY FS_Singleton, FS_EmptySet
  <2> QED
    BY <2>1, <2>2, <2>3
<1>8. ApplyDelta(Tally({c}, StoredTerms), Tally({c}, NewTerms), IF Stored(c) THEN 0 ELSE -1)
  BY DEF Restore
<1> QED
  BY <1>1, <1>4, <1>5, <1>6, <1>7, <1>8, BalanceSwitch

LEMMA NoTerms ==
  ASSUME NEW d \in Doc, ~Stored(d)
  PROVE  StoredTerms[d] = {}
<1>1. ~HasSummary(d) /\ BodyTerms(body[d]) = {}
  BY DEF Stored, BodyTerms, NoBody
<1> QED
  BY <1>1 DEF StoredTerms

\* A deletion retires the contribution with the points.
LEMMA BalanceRetire ==
  ASSUME Typed, DeltaOK, Balanced, pc = "delete", applied, NEW c, c = cur, RemovePoints(cur),
         ApplyDelta(Tally({}, StoredTerms), Tally({cur}, StoredTerms), -1), EndOperation
  PROVE  Balanced'
<1>1. c \in Doc /\ Stored(c) /\ Pending = {} /\ Pending' = {}
  BY EndPending DEF Typed, OperationOK, DeltaOK, Pending, Publishing
<1>2. /\ ~Stored(c)'
      /\ \A d \in Doc \ {c} : body'[d] = body[d] /\ summary'[d] = summary[d]
  BY <1>1 DEF RemovePoints, Stored, HasSummary, Typed, TypeOK, PointsTyped
<1>3. ASSUME NEW d \in Doc \ {c}
      PROVE  Owed'[d] = Owed[d] /\ (d \in Counted' <=> d \in Counted)
  BY <1>1, <1>2, <1>3, OwedStored DEF Owed, Counted
<1>4. StoredTerms'[c] = {}
  <2>1. body'[c] = NoBody /\ ~HasSummary(c)'
    BY <1>1 DEF RemovePoints, HasSummary, Typed, TypeOK, PointsTyped
  <2>2. BodyTerms(NoBody) = {}
    BY DEF BodyTerms, NoBody
  <2> QED
    BY <1>1, <2>1, <2>2 DEF StoredTerms
<1>5. Tally({}, StoredTerms) = Tally({c}, Owed')
  <2>1. Owed'[c] = {}
    BY <1>1, <1>4 DEF Owed
  <2>2. ASSUME NEW t \in Term
        PROVE  {d \in {} : t \in StoredTerms[d]} = {d \in {c} : t \in Owed'[d]}
    BY <2>1
  <2> QED
    BY <2>2 DEF Tally
<1>6. Tally({c}, StoredTerms) = Tally({c}, Owed)
  <2>1. \A d \in {c} : StoredTerms[d] = Owed[d]
    BY <1>1 DEF Owed
  <2> QED
    BY <2>1, TallySame
<1>7. -1 = Cardinality(Counted' \cap {c}) - Cardinality(Counted \cap {c})
  <2>1. Counted \cap {c} = {c} /\ Counted' \cap {c} = {}
    BY <1>1, <1>2 DEF Counted
  <2>2. Cardinality({c}) = 1 /\ Cardinality({}) = 0
    BY FS_Singleton, FS_EmptySet
  <2> QED
    BY <2>1, <2>2
<1> QED
  BY <1>1, <1>3, <1>5, <1>6, <1>7, BalanceSwitch

\* A forced run that selected every document with points.
LEMMA BalanceAnew ==
  ASSUME Typed, RegisterAnew, drift' = "none"
  PROVE  Balanced'
<1> DEFINE retained == {d \in batch \ Units : Stored(d)}
<1>1. /\ Units \subseteq Doc /\ retained \subseteq Doc /\ Units \cap retained = {}
      /\ \A d \in Doc : Stored(d) => d \in Units \cup retained
  BY DEF RegisterAnew, Units, Typed, TypeOK, OperationTyped
<1>2. Pending' = Units /\ UNCHANGED <<meta, kind, text, body, summary>>
  <2>1. PICK d \in Units : pc' = "embed" /\ cur' = d /\ batch' = Units \ {d}
                           /\ UNCHANGED <<kind, text>>
    BY DEF RegisterAnew, StartPublishing
  <2>2. applied' /\ UNCHANGED <<meta, body, summary>>
    BY DEF RegisterAnew, registry, points
  <2> QED
    BY <2>1, <2>2 DEF Pending, Publishing
<1>3. ASSUME NEW d \in Doc
      PROVE  /\ NewTerms'[d] = NewTerms[d] /\ StoredTerms'[d] = StoredTerms[d]
             /\ Stored(d)' <=> Stored(d)
  BY <1>2, OwedNew, OwedStored
<1>4. ASSUME NEW d \in Doc
      PROVE  Owed'[d] = IF d \in Units THEN NewTerms[d]
                        ELSE IF d \in retained THEN StoredTerms[d] ELSE {}
  <2>1. d \notin Units \cup retained => StoredTerms[d] = {}
    BY <1>1, NoTerms
  <2> QED
    BY <1>2, <1>3, <2>1 DEF Owed
<1>5. Counted' = Units \cup retained
  BY <1>1, <1>2, <1>3 DEF Counted
<1>6. /\ freq' = [t \in Term |-> Tally(Units, NewTerms)[t] + Tally(retained, StoredTerms)[t]]
      /\ count' = Cardinality(Units) + Cardinality(retained)
  BY DEF RegisterAnew
<1> HIDE DEF retained
<1>7. ASSUME NEW X, X \subseteq Units, NEW Y, Y \subseteq retained
      PROVE  Cardinality(X) + Cardinality(Y) = Cardinality(X \cup Y)
  <2>1. IsFiniteSet(X) /\ Cardinality(X) \in Nat
    BY <1>1, <1>7, PartType
  <2>2. IsFiniteSet(Y) /\ Cardinality(Y) \in Nat
    BY <1>1, <1>7, PartType
  <2>3. Cardinality(X \cap Y) = 0
    <3>1. X \cap Y = {}
      BY <1>1, <1>7
    <3> QED
      BY <3>1, FS_EmptySet
  <2>4. Cardinality(X \cup Y) = Cardinality(X) + Cardinality(Y) - Cardinality(X \cap Y)
    BY <2>1, <2>2, FS_Union
  <2> QED
    BY <2>1, <2>2, <2>3, <2>4
<1>8. ASSUME NEW t \in Term
      PROVE  Tally(Units, NewTerms)[t] + Tally(retained, StoredTerms)[t]
               = Cardinality({d \in Doc : t \in Owed'[d]})
  <2> DEFINE X == {d \in Units : t \in NewTerms[d]}
             Y == {d \in retained : t \in StoredTerms[d]}
  <2>1. {d \in Doc : t \in Owed'[d]} = X \cup Y
    BY <1>1, <1>4
  <2>2. Tally(Units, NewTerms)[t] = Cardinality(X) /\ Tally(retained, StoredTerms)[t] = Cardinality(Y)
    BY DEF Tally
  <2>3. X \subseteq Units /\ Y \subseteq retained
    OBVIOUS
  <2> QED
    BY <1>7, <2>1, <2>2, <2>3
<1>9. count' = Cardinality(Counted')
  BY <1>5, <1>6, <1>7
<1>10. freq' = Tally(Doc, Owed')
  BY <1>6, <1>8 DEF Tally
<1> QED
  BY <1>9, <1>10 DEF Balanced

LEMMA DeltaIdle ==
  ASSUME pc' \in {"idle", "account", "register"} \cup ExtractingSteps
  PROVE  DeltaOK'
BY DEF DeltaOK, Publishing, ExtractingSteps

LEMMA DeltaNext ==
  ASSUME NextDocument
  PROVE  DeltaOK'
<1>1. CASE EndOperation
  BY <1>1, DeltaIdle DEF EndOperation
<1>2. ASSUME NEW d \in batch, pc' = "embed", cur' = d, batch' = batch \ {d}
      PROVE  DeltaOK'
  BY <1>2 DEF DeltaOK
<1> QED
  BY <1>1, <1>2 DEF NextDocument

LEMMA DeltaCompensate ==
  ASSUME Typed, DeltaOK, Compensate, pc \in Publishing \cup {"rewrite"}
  PROVE  DeltaOK'
<1>1. CASE applied /\ pc' = "revert" /\ UNCHANGED <<kind, cur, batch, text, slot, applied, sources>>
  BY <1>1 DEF DeltaOK
<1> QED
  BY <1>1, DeltaNext DEF Compensate

LEMMA DeltaStep == Typed /\ DeltaOK /\ [Next]_vars => DeltaOK'
<1> SUFFICES ASSUME Typed, DeltaOK, [Next]_vars PROVE DeltaOK'
  OBVIOUS
<1>1. ASSUME NEW d \in Doc, StartReindex(d) \/ \E v \in Version : StartIndex(d, v)
      PROVE  DeltaOK'
  BY <1>1, DeltaIdle DEF StartIndex, StartReindex
<1>2. ASSUME NEW k \in {"all", "force"}, StartIndexAll(k) PROVE DeltaOK'
  BY <1>2, DeltaIdle DEF StartIndexAll, ExtractingSteps
<1>3. ASSUME NEW d \in Doc, NEW k \in {"delete", "purge"}, StartDelete(d, k) PROVE DeltaOK'
  <2>1. /\ cur' = d /\ pc' = "delete" /\ (applied' => Stored(d)) /\ body' = body
        /\ summary' = summary
    BY <1>3 DEF StartDelete, points
  <2>2. applied' => Stored(cur)'
    BY <2>1 DEF Stored, HasSummary
  <2> QED
    BY <2>1, <2>2 DEF DeltaOK, Publishing
<1>4. ASSUME NEW d \in Doc, NEW m \in Meta, StartRetag(d, m) PROVE DeltaOK'
  <2>1. pc' = "idle" \/ (pc' = "read" /\ kind' = "retag")
    BY <1>4 DEF StartRetag, Acquire
  <2> QED
    BY <2>1 DEF DeltaOK, Publishing
<1>5. ASSUME Account PROVE DeltaOK'
  <2>1. CASE EndOperation
    BY <2>1, DeltaIdle DEF EndOperation
  <2>2. CASE ~EndOperation
    BY <1>5, <2>2 DEF Account, DeltaOK, Typed, OperationOK
  <2> QED
    BY <2>1, <2>2
<1>6. ASSUME AccountRefresh PROVE DeltaOK'
  <2>1. /\ pc = "read" /\ pc' = "rewrite" /\ cur' = cur /\ batch' = batch /\ batch = {}
        /\ kind' = kind /\ (applied' => Stored(cur)) /\ body' = body /\ summary' = summary
    BY <1>6 DEF AccountRefresh, points, Typed, OperationOK
  <2>2. applied' => Stored(cur)'
    BY <2>1 DEF Stored, HasSummary
  <2> QED
    BY <2>1, <2>2 DEF DeltaOK
<1>7. ASSUME Extracting PROVE DeltaOK'
  <2>1. pc' \in ExtractingSteps \cup {"register", "idle"}
    BY <1>7
    DEF Extracting, CheckBefore, ReadSource, CheckAfter, Extracted, ExtractingSteps,
        EndOperation
  <2> QED
    BY <2>1, DeltaIdle DEF ExtractingSteps
<1>8. ASSUME RegisterDelta \/ RegisterAnew \/ RegistrationFails PROVE DeltaOK'
  <2>1. CASE EndOperation
    BY <2>1, DeltaIdle DEF EndOperation
  <2>2. CASE StartPublishing
    BY <2>2 DEF StartPublishing, DeltaOK
  <2> QED
    BY <1>8, <2>1, <2>2 DEF RegisterDelta, RegisterAnew, RegistrationFails
<1>9. ASSUME Embed \/ Invalidate \/ WriteChunk \/ Prune PROVE DeltaOK'
  <2>1. /\ UNCHANGED <<cur, batch, applied>> /\ pc \in Publishing
        /\ pc' \in {"invalidate", "write", "publish"}
    BY <1>9 DEF Embed, Invalidate, WriteChunk, Prune, Publishing
  <2>2. pc' \in {"write", "publish"} /\ ~applied => drift' # "none"
    BY <1>9 DEF Embed, Invalidate, WriteChunk, Prune, vocabulary, DeltaOK
  <2> QED
    BY <2>1, <2>2 DEF DeltaOK
<1>10. ASSUME Publish \/ Revert PROVE DeltaOK'
  BY <1>10, DeltaNext DEF Publish, Revert
<1>11. ASSUME PublicationFails \/ RefreshFails PROVE DeltaOK'
  BY <1>11, DeltaCompensate DEF PublicationFails, RefreshFails, Publishing
<1>12. ASSUME NEW gone, NEW known, Delete(gone, known) PROVE DeltaOK'
  BY <1>12, DeltaIdle DEF Delete, EndOperation
<1>13. ASSUME Refresh \/ Abandon PROVE DeltaOK'
  BY <1>13, DeltaIdle DEF Refresh, Abandon, EndOperation
<1>14. ASSUME UNCHANGED <<points, vocabulary, pc, kind, cur, batch, applied>> PROVE DeltaOK'
  <2>1. Stored(cur)' <=> Stored(cur)
    BY <1>14 DEF points, Stored, HasSummary
  <2> QED
    BY <1>14, <2>1 DEF vocabulary, DeltaOK
<1>15. ASSUME NEW d \in Doc, Beside(d) PROVE DeltaOK'
  <2>1. UNCHANGED <<points, vocabulary, pc, kind, cur, batch, applied>>
    BY <1>15 DEF Beside, Edit, Requeue, RepeatStatus, Scan, ReadRow, ExtractAsked, operation
  <2> QED
    BY <1>14, <2>1
<1>16. ASSUME UNCHANGED vars PROVE DeltaOK'
  BY <1>14, <1>16 DEF vars, operation
<1> QED
  BY <1>1, <1>2, <1>3, <1>4, <1>5, <1>6, <1>7, <1>8, <1>9, <1>10, <1>11, <1>12, <1>13, <1>15,
     <1>16
  DEF Next, Beside, Extracting

\* Nothing is pending before the step or after it.
LEMMA NothingPending ==
  ASSUME Balanced, UNCHANGED <<freq, count, body, summary>>, Pending = {}, Pending' = {}
  PROVE  Balanced'
BY PendingKept

LEMMA NotPending ==
  /\ pc \notin Publishing \cup {"revert", "rewrite"} => Pending = {}
  /\ ~applied => Pending = {}
BY DEF Pending

LEMMA NotPendingNext ==
  /\ pc' \notin Publishing \cup {"revert", "rewrite"} => Pending' = {}
  /\ ~applied' => Pending' = {}
BY DEF Pending

\* An operation begins, or index_all extracts.
LEMMA BalanceStart ==
  ASSUME Balanced, NEW d \in Doc, NEW v \in Version, NEW m \in Meta, NEW k, NEW h,
         \/ StartIndex(d, v) \/ StartReindex(d) \/ StartIndexAll(k) \/ StartDelete(d, h)
         \/ StartRetag(d, m) \/ Extracting
  PROVE  Balanced'
<1>1. /\ pc \in {"idle"} \cup ExtractingSteps
      /\ pc' \in {"idle", "account", "delete", "read", "register"} \cup ExtractingSteps
      /\ UNCHANGED <<freq, count, body, summary>>
  BY DEF StartIndex, StartReindex, StartIndexAll, StartDelete, StartRetag, Extracting,
         CheckBefore, ReadSource, CheckAfter, Extracted, EndOperation, Acquire, ExtractingSteps,
         points, vocabulary
<1>2. Pending = {} /\ Pending' = {}
  BY <1>1, NotPending, NotPendingNext DEF Publishing, ExtractingSteps
<1> QED
  BY <1>1, <1>2, NothingPending

LEMMA BalanceAccount ==
  ASSUME Typed, Balanced, Account \/ AccountRefresh
  PROVE  Balanced'
<1>1. /\ pc \in {"account", "read"} /\ cur \in Doc /\ Pending = {} /\ batch = {}
      /\ UNCHANGED <<meta, body, summary>>
  BY NotPending
  DEF Account, AccountRefresh, Publishing, registry, points, Typed, OperationOK
<1>2. CASE UNCHANGED <<freq, count>> /\ (EndOperation \/ ~applied')
  <2>1. Pending' = {}
    BY <1>2, EndPending, NotPendingNext
  <2> QED
    BY <1>1, <1>2, <2>1, NothingPending
<1>3. CASE applied' /\ Register({cur}) /\ pc' \in {"embed", "rewrite"}
           /\ UNCHANGED <<kind, cur, batch, text>>
  <2>1. Pending' = {cur}
    BY <1>1, <1>3 DEF Pending, Publishing
  <2> QED
    BY <1>1, <1>3, <2>1, BalanceRegister
<1> QED
  BY <1>2, <1>3 DEF Account, AccountRefresh

LEMMA BalanceBatch ==
  ASSUME Typed, Balanced, drift' = "none", RegisterDelta \/ RegisterAnew \/ RegistrationFails
  PROVE  Balanced'
<1>1. Pending = {} /\ Units \subseteq Doc
  BY NotPending
  DEF RegisterDelta, RegisterAnew, RegistrationFails, Publishing, Units, Typed, TypeOK,
      OperationTyped
<1>2. CASE RegisterDelta
  <2>1. PICK d \in Units : pc' = "embed" /\ cur' = d /\ batch' = Units \ {d}
                           /\ UNCHANGED <<kind, text>>
    BY <1>2 DEF RegisterDelta, StartPublishing
  <2>2. applied' /\ Register(Units) /\ UNCHANGED <<meta, body, summary>>
    BY <1>2 DEF RegisterDelta, registry, points
  <2>3. Pending' = Units
    BY <2>1, <2>2 DEF Pending, Publishing
  <2> QED
    BY <1>1, <2>1, <2>2, <2>3, BalanceRegister
<1>3. CASE RegisterAnew
  BY <1>3, BalanceAnew
<1>4. CASE RegistrationFails
  <2>1. Pending' = {} /\ UNCHANGED <<freq, count, body, summary>>
    BY <1>4, EndPending, NotPendingNext DEF RegistrationFails, points, vocabulary
  <2> QED
    BY <1>1, <2>1, NothingPending
<1> QED
  BY <1>2, <1>3, <1>4

\* The current document's points are rewritten while its delta is applied.
LEMMA BalanceWrite ==
  ASSUME Typed, DeltaOK, Balanced, drift = "none", drift' = "none",
         Embed \/ Invalidate \/ WriteChunk \/ Prune
  PROVE  Balanced'
<1>1. /\ UNCHANGED <<freq, count, meta, kind, text, cur, batch, applied>> /\ kind # "retag"
      /\ pc \in Publishing /\ pc' \in Publishing /\ cur \in Doc
  BY DEF Embed, Invalidate, WriteChunk, Prune, registry, vocabulary, Publishing, Typed,
         OperationOK
<1>2. Pending' = Pending
  BY <1>1 DEF Pending
<1>3. CASE Embed
  BY <1>1, <1>2, <1>3, PendingKept DEF Embed, points
<1>4. CASE ~Embed
  <2>1. applied /\ Pending = batch \cup {cur}
    BY <1>1, <1>4 DEF Invalidate, WriteChunk, Prune, DeltaOK, Pending
  <2>2. \A d \in Doc \ {cur} : body'[d] = body[d] /\ summary'[d] = summary[d]
    BY <1>1, <1>4 DEF Invalidate, WriteChunk, Prune, Typed, TypeOK, PointsTyped
  <2> QED
    BY <1>1, <1>2, <2>1, <2>2, PendingKept
<1> QED
  BY <1>3, <1>4

LEMMA BalanceFailure ==
  ASSUME Typed, WholeInv, DeltaOK, Balanced, drift = "none", drift' = "none",
         PublicationFails \/ RefreshFails
  PROVE  Balanced'
<1>1. /\ pc \in Publishing \cup {"rewrite"} /\ cur \in Doc
      /\ UNCHANGED <<freq, count, meta, body>> /\ Compensate
  BY DEF PublicationFails, RefreshFails, registry, vocabulary, Publishing, Typed, OperationOK
<1>2. \A d \in Doc \ {cur} : summary'[d] = summary[d]
  BY <1>1
  DEF PublicationFails, RefreshFails, WriteSummary, RewriteSummary, Typed, TypeOK, PointsTyped
<1>3. CASE applied
  <2>1. pc' = "revert" /\ UNCHANGED <<kind, cur, batch, text, applied>>
    BY <1>1, <1>3 DEF Compensate
  <2>2. Pending = batch \cup {cur} /\ Pending' = Pending
    BY <1>1, <1>3, <2>1 DEF Pending
  <2> QED
    BY <1>1, <1>2, <2>1, <2>2, PendingKept
<1>4. CASE ~applied
  <2>1. Pending = {} /\ Pending' = {} /\ NextDocument
    BY <1>1, <1>4, NotPending, NextPending DEF Compensate
  <2>2. CASE summary' = summary
    BY <1>1, <2>1, <2>2, NothingPending
  <2>3. CASE summary' # summary
    <3>1. pc = "rewrite" /\ RewriteSummary /\ batch = {}
      BY <1>4, <2>3 DEF PublicationFails, RefreshFails, DeltaOK, Typed, OperationOK
    <3>2. EndOperation
      BY <2>1, <3>1 DEF NextDocument
    <3> QED
      BY <1>1, <3>1, <3>2, BalanceRewrite
  <2> QED
    BY <2>2, <2>3
<1> QED
  BY <1>3, <1>4

LEMMA BalanceDelete ==
  ASSUME Typed, DeltaOK, Balanced, drift = "none", drift' = "none", NEW gone, NEW known,
         Delete(gone, known)
  PROVE  Balanced'
<1>1. pc = "delete" /\ cur \in Doc /\ EndOperation /\ Pending = {} /\ Pending' = {}
  BY EndPending, NotPending DEF Delete, Publishing, Typed, OperationOK
<1>2. CASE /\ Deleted(gone, known) /\ applied
           /\ ApplyDelta(Tally({}, StoredTerms), Tally({cur}, StoredTerms), -1)
  <2>1. RemovePoints(cur)
    BY <1>2 DEF Delete, Deleted
  <2> QED
    BY <1>1, <1>2, <2>1, BalanceRetire
<1>3. CASE UNCHANGED <<freq, count>> /\ (gone => ~Stored(cur))
  <2>1. CASE gone
    <3>1. body[cur] = NoBody /\ summary[cur] = NoSummary
      BY <1>3, <2>1 DEF Stored, HasSummary
    <3>2. body' = body /\ summary' = summary
      BY <1>1, <2>1, <3>1 DEF Delete, RemovePoints, Typed, TypeOK, PointsTyped
    <3> QED
      BY <1>1, <1>3, <3>2, NothingPending
  <2>2. CASE ~gone
    BY <1>1, <1>3, <2>2, NothingPending DEF Delete, points
  <2> QED
    BY <2>1, <2>2
<1> QED
  BY <1>2, <1>3 DEF Delete

LEMMA AccountStep == Typed /\ WholeInv /\ AccountInv /\ [Next]_vars => AccountInv'
<1> SUFFICES ASSUME Typed, WholeInv, AccountInv, [Next]_vars, drift' = "none" PROVE Balanced'
  BY DeltaStep DEF AccountInv
<1>0. DeltaOK
  BY DEF AccountInv
<1>1. CASE drift # "none"
  <2>1. RegisterAnew
    BY <1>1
    DEF Next, vars, vocabulary, Beside, Edit, Requeue, RepeatStatus, Scan, ReadRow,
        ExtractAsked, StartIndex, StartReindex, StartIndexAll, StartDelete, StartRetag,
        Account, Extracting, CheckBefore, ReadSource, CheckAfter, Extracted, RegisterDelta,
        RegistrationFails, Embed, Invalidate, WriteChunk, Prune, Publish, PublicationFails,
        Revert, Delete, AccountRefresh, Refresh, RefreshFails, RewriteSummary, Abandon
  <2> QED
    BY <2>1, BalanceAnew
<1>2. CASE drift = "none"
  <2>0. Balanced
    BY <1>2 DEF AccountInv
  <2>1. ASSUME UNCHANGED <<meta, points, vocabulary, kind, text, pc, cur, batch, applied>>
        PROVE  Balanced'
    <3>1. UNCHANGED <<freq, count, body, summary, kind, text, pc, cur, batch, applied>>
      BY <2>1 DEF points, vocabulary
    <3>2. Pending' = Pending
      BY <3>1 DEF Pending
    <3> QED
      BY <2>0, <2>1, <3>1, <3>2, PendingKept
  <2>2. ASSUME NEW d \in Doc, Beside(d)
        PROVE  Balanced'
    <3>1. UNCHANGED <<meta, points, vocabulary, kind, text, pc, cur, batch, applied>>
      BY <2>2
      DEF Beside, Edit, Requeue, RepeatStatus, Scan, ReadRow, ExtractAsked, registry, operation
    <3> QED
      BY <2>1, <3>1
  <2>3. 1 \in Version /\ 1 \in Meta
    BY BoundAssumption, MetaAssumption DEF Version
  <2>4. ASSUME NEW d \in Doc, StartReindex(d) \/ \E v \in Version : StartIndex(d, v)
        PROVE  Balanced'
    BY <2>0, <2>3, <2>4, BalanceStart
  <2>5. ASSUME NEW d \in Doc, NEW h, StartDelete(d, h) PROVE Balanced'
    BY <2>0, <2>3, <2>5, BalanceStart
  <2>6. ASSUME NEW d \in Doc, NEW m \in Meta, StartRetag(d, m) PROVE Balanced'
    BY <2>0, <2>3, <2>6, BalanceStart
  <2>7. ASSUME StartIndexAll("all") \/ StartIndexAll("force") \/ Extracting PROVE Balanced'
    <3>1. /\ pc \in {"idle"} \cup ExtractingSteps
          /\ pc' \in {"idle", "register"} \cup ExtractingSteps
      BY <2>7
      DEF StartIndexAll, Acquire, Extracting, CheckBefore, ReadSource, CheckAfter, Extracted,
          EndOperation, ExtractingSteps
    <3>2. Pending = {} /\ Pending' = {}
      BY <3>1, NotPending, NotPendingNext DEF Publishing, ExtractingSteps
    <3> QED
      BY <2>0, <2>7, <3>2, NothingPending
      DEF StartIndexAll, Extracting, CheckBefore, ReadSource, CheckAfter, Extracted, points,
          vocabulary
  <2>8. ASSUME Account \/ AccountRefresh PROVE Balanced'
    BY <2>0, <2>8, BalanceAccount
  <2>9. ASSUME RegisterDelta \/ RegisterAnew \/ RegistrationFails PROVE Balanced'
    BY <2>0, <2>9, BalanceBatch
  <2>10. ASSUME Embed \/ Invalidate \/ WriteChunk \/ Prune PROVE Balanced'
    BY <1>0, <1>2, <2>0, <2>10, BalanceWrite
  <2>11. ASSUME Publish PROVE Balanced'
    <3>1. applied /\ pc = "publish" /\ WriteSummary /\ NextDocument
          /\ UNCHANGED <<freq, count, meta, body>>
      BY <1>0, <1>2, <2>11 DEF Publish, DeltaOK, vocabulary
    <3> QED
      BY <1>0, <2>0, <3>1, BalancePublish
  <2>12. ASSUME PublicationFails \/ RefreshFails PROVE Balanced'
    BY <1>0, <1>2, <2>0, <2>12, BalanceFailure
  <2>13. ASSUME Revert PROVE Balanced'
    <3>1. pc = "revert" /\ Restore(cur) /\ NextDocument /\ UNCHANGED <<meta, body, summary>>
      BY <2>13 DEF Revert, registry, points
    <3> QED
      BY <1>0, <2>0, <3>1, BalanceRestore
  <2>14. ASSUME NEW gone, NEW known, Delete(gone, known) PROVE Balanced'
    BY <1>0, <1>2, <2>0, <2>14, BalanceDelete
  <2>15. ASSUME Refresh PROVE Balanced'
    <3>1. pc = "rewrite" /\ RewriteSummary /\ EndOperation
          /\ UNCHANGED <<freq, count, meta, body>>
      BY <2>15 DEF Refresh, registry
    <3> QED
      BY <1>0, <2>0, <3>1, BalanceRewrite
  <2>16. ~Abandon
    BY DEF Abandon
  <2>17. ASSUME UNCHANGED vars PROVE Balanced'
    BY <2>1, <2>17 DEF vars, registry, operation
  <2> QED
    BY <2>2, <2>4, <2>5, <2>6, <2>7, <2>8, <2>9, <2>10, <2>11, <2>12, <2>13, <2>14, <2>15,
       <2>16, <2>17
    DEF Next, Beside, Extracting
<1> QED
  BY <1>1, <1>2

LEMMA InitAccount == Init => AccountInv
<1> SUFFICES ASSUME Init PROVE AccountInv
  OBVIOUS
<1>1. DeltaOK
  BY DEF Init, DeltaOK, Publishing
<1>2. Pending = {} /\ \A d \in Doc : ~Stored(d)
  BY DEF Init, Pending, Publishing, Stored, HasSummary
<1>3. \A d \in Doc : Owed[d] = {}
  BY <1>2, NoTerms DEF Owed
<1>4. Counted = {} /\ Cardinality({}) = 0
  BY <1>2, FS_EmptySet DEF Counted
<1>5. \A t \in Term : {d \in Doc : t \in Owed[d]} = {}
  BY <1>3
<1>6. Balanced
  BY <1>4, <1>5 DEF Init, Balanced, Tally
<1> QED
  BY <1>1, <1>6 DEF AccountInv

LEMMA AlwaysAccounted == Spec => []AccountInv
<1>1. Init => Typed /\ WholeInv /\ AccountInv
  BY InitTyped, InitWhole, InitAccount
<1>2. Typed /\ WholeInv /\ AccountInv /\ [Next]_vars => (Typed /\ WholeInv /\ AccountInv)'
  BY TypedStep, WholeStep, AccountStep
<1> QED
  BY <1>1, <1>2, PTL DEF Spec

\* Unless a best-effort step failed, the vocabulary contribution counts exactly
\* the stored points whenever no operation is running: what a failed
\* publication, deletion or refresh had registered is repaired, for every batch.
THEOREM ContributionExact == Spec => []Accounted
<1>1. AccountInv => Accounted
  <2> SUFFICES ASSUME AccountInv, pc = "idle", drift = "none" PROVE Exact
    BY DEF Accounted
  <2>1. Balanced /\ Pending = {}
    BY NotPending DEF AccountInv, Publishing
  <2>2. \A d \in Doc : Owed[d] = StoredTerms[d]
    BY <2>1 DEF Owed
  <2>3. Tally(Doc, Owed) = Tally(Doc, StoredTerms) /\ Counted = {d \in Doc : Stored(d)}
    BY <2>1, <2>2, TallySame DEF Counted
  <2> QED
    BY <2>1, <2>3 DEF Exact, Balanced
<1> QED
  BY AlwaysAccounted, <1>1, PTL

LEMMA NewTermsType ==
  ASSUME Typed, NEW d \in Doc
  PROVE  NewTerms[d] \subseteq Term
<1>1. ASSUME NEW b \in [Slot -> 0..MaxVersion] PROVE BodyTerms(b) \subseteq Term
  <2>1. ASSUME NEW i \in Slot, b[i] # 0 PROVE SlotTerms[b[i]][i] \subseteq Term
    <3>1. b[i] \in Version
      BY <2>1, BoundAssumption DEF Version
    <3> QED
      BY <2>1, <3>1, TermAssumption
  <2> QED
    BY <2>1 DEF BodyTerms
<1>2. MetaTerms[meta[d]] \subseteq Term
  BY TermAssumption DEF Typed, TypeOK, RegistryTyped
<1>3. BodyTerms(body[d]) \subseteq Term
  BY <1>1 DEF Typed, TypeOK, PointsTyped
<1>4. ASSUME text[d] # 0 PROVE BodyTerms(Whole(text[d])) \subseteq Term
  <2>1. Whole(text[d]) \in [Slot -> 0..MaxVersion]
    BY BoundAssumption DEF Whole, Typed, TypeOK, OperationTyped
  <2> QED
    BY <1>1, <2>1
<1> QED
  BY <1>2, <1>3, <1>4 DEF NewTerms

\* When passages are vectorized, the vocabulary knows each of their terms.
THEOREM TermsAreKnown == Spec => []KnownWhenVectorized
<1>1. Typed /\ AccountInv => KnownWhenVectorized
  <2> SUFFICES ASSUME Typed, AccountInv, pc \in {"embed", "rewrite"}, applied, drift = "none",
                      NEW t \in NewTerms[cur]
               PROVE  freq[t] > 0
    BY DEF KnownWhenVectorized
  <2>1. cur \in Doc /\ cur \in Pending
    BY DEF Typed, OperationOK, Publishing, ExtractingSteps, Pending
  <2>2. t \in Term
    BY <2>1, NewTermsType
  <2> DEFINE S == {d \in Doc : t \in Owed[d]}
  <2>3. freq[t] = Cardinality(S)
    BY <2>2 DEF AccountInv, Balanced, Tally
  <2>4. cur \in S
    BY <2>1 DEF Owed
  <2>5. IsFiniteSet(S) /\ Cardinality(S) \in Nat
    BY PartType
  <2>6. Cardinality(S) # 0
    BY <2>4, <2>5, FS_EmptySet
  <2> QED
    BY <2>3, <2>5, <2>6
<1> QED
  BY AlwaysTyped, AlwaysAccounted, <1>1, PTL
=============================================================================

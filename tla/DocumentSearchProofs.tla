------------------------ MODULE DocumentSearchProofs ------------------------
(***************************************************************************)
(* What DocumentSearch promises, for every index, every limit and every    *)
(* size of the pages and batches.                                          *)
(***************************************************************************)
EXTENDS DocumentSearch, LeastElement, FunctionTheorems

-----------------------------------------------------------------------------
(* Pages. *)

\* A page holds the smallest ids of a set, at least one if there is any.
LEMMA PageIsFirst ==
  ASSUME NEW S \in SUBSET Point, NEW n \in Nat \ {0}
  PROVE  /\ First(n, S) \subseteq S
         /\ S # {} => First(n, S) # {}
         /\ \A q \in First(n, S), p \in S \ First(n, S) : q < p
<1>0. First(n, S) = {p \in S : Cardinality(Preceding(S, p)) < n}
  BY DEF First, Preceding
<1>1. S \in SUBSET Nat /\ IsFiniteSet(S)
  BY PointAssumption, FS_Subset
<1>2. \A p \in S : IsFiniteSet(Preceding(S, p)) /\ Cardinality(Preceding(S, p)) \in Nat
  <2>1. \A p \in S : Preceding(S, p) \in SUBSET S
    BY DEF Preceding
  <2>2. QED
    BY <1>1, <2>1, FS_Subset, FS_CardinalityType
<1>3. S # {} => Min(S) \in First(n, S)
  <2> SUFFICES ASSUME S # {} PROVE Min(S) \in First(n, S)
    OBVIOUS
  <2>1. Min(S) \in S /\ \A x \in S : Min(S) <= x
    BY <1>1, LeastExists
  <2>2. Preceding(S, Min(S)) = {}
    <3>0. PICK m \in S : m = Min(S)
      BY <2>1
    <3>1. ASSUME NEW x \in S PROVE ~(x < Min(S))
      <4>1. m \in Nat /\ x \in Nat /\ m <= x
        BY <1>1, <2>1, <3>0
      <4>2. QED
        BY <3>0, <4>1
    <3>2. \A x : x \notin Preceding(S, Min(S))
      BY <3>1 DEF Preceding
    <3>3. QED
      BY <3>2
  <2>3. Cardinality(Preceding(S, Min(S))) < n
    BY <2>2, FS_EmptySet
  <2>4. QED
    BY <1>0, <2>1, <2>3
<1>4. ASSUME NEW q \in First(n, S), NEW p \in S \ First(n, S) PROVE q < p
  <2>1. /\ q \in S /\ q \in Nat /\ p \in Nat
        /\ Cardinality(Preceding(S, q)) < n /\ ~(Cardinality(Preceding(S, p)) < n)
    BY <1>0, <1>1
  <2>2. SUFFICES ASSUME p <= q PROVE FALSE
    BY <2>1
  <2>3. Preceding(S, p) \in SUBSET Preceding(S, q)
    <3>1. \A r \in S : r \in Nat /\ (r < p => r < q)
      BY <1>1, <2>1, <2>2
    <3>2. QED
      BY <3>1 DEF Preceding
  <2>4. Cardinality(Preceding(S, p)) <= Cardinality(Preceding(S, q))
    BY <1>2, <2>1, <2>3, FS_Subset
  <2>5. QED
    BY <1>2, <2>1, <2>4
<1>5. QED
  BY <1>0, <1>3, <1>4

\* The pages up to the offset that follows one are the pages before it and it.
LEMMA OffsetFollowsPage ==
  ASSUME NEW S \in SUBSET Point, NEW n \in Nat \ {0}, cursor \in Nat
  PROVE  LET rest == FromCursor(S)
             page == First(n, rest)
             to == Offset(rest, page)
         IN  /\ page \in SUBSET S /\ \A p \in page : p >= cursor
             /\ to \in Point \cup {0}
             /\ to = 0 => \A p \in S : p < cursor \/ p \in page
             /\ to # 0 => \A p \in S : p < to <=> p < cursor \/ p \in page
<1> DEFINE rest == FromCursor(S)
           page == First(n, rest)
           to == Offset(rest, page)
<1>0. rest = {p \in S : p >= cursor} /\ rest \in SUBSET Point
  BY DEF FromCursor
<1>00. page \in SUBSET rest /\ \A q \in page, p \in rest \ page : q < p
  BY <1>0, PageIsFirst
<1>01. to = IF rest = page THEN 0 ELSE Min(rest \ page)
  BY DEF Offset
<1> HIDE DEF rest, page, to
<1>1. S \in SUBSET Nat /\ \A p \in S : p \in Nat \ {0}
  BY PointAssumption
<1>2. CASE rest = page
  <2>1. \A p \in S : p < cursor \/ p \in page
    BY <1>0, <1>1, <1>2
  <2>2. to = 0
    BY <1>01, <1>2
  <2>3. QED
    BY <1>0, <1>00, <2>1, <2>2 DEF rest, page, to
<1>3. CASE rest # page
  <2>1. rest \ page \in SUBSET Nat /\ rest \ page # {} /\ IsFiniteSet(rest \ page)
    BY <1>0, <1>00, <1>3, PointAssumption, FS_Subset
  <2>2. to \in rest \ page /\ \A x \in rest \ page : to <= x
    BY <1>01, <1>3, <2>1, LeastExists
  <2>3. to \in Point /\ to \in Nat \ {0} /\ to >= cursor
    BY <1>0, <2>2, PointAssumption
  <2>4. \A q \in page : q < to
    BY <1>00, <2>2
  <2>5. ASSUME NEW p \in S PROVE p < to <=> p < cursor \/ p \in page
    <3>1. p \in Nat
      BY <1>1
    <3>2. p < cursor => p < to
      BY <2>3, <3>1
    <3>3. p < to /\ ~(p < cursor) => p \in page
      BY <1>0, <2>2, <2>3, <3>1
    <3>4. QED
      BY <2>4, <3>2, <3>3
  <2>6. QED
    BY <1>0, <1>00, <2>3, <2>5 DEF rest, page, to
<1>4. QED
  BY <1>2, <1>3

-----------------------------------------------------------------------------
(* Rankings. *)

OneOfEach(K) == \A h, k \in K : Owner[h.point] = Owner[k.point] => h = k

\* Hits of different documents are as many as their documents.
LEMMA OneOfEachCounts ==
  ASSUME NEW K \in SUBSET Hit, OneOfEach(K)
  PROVE  /\ IsFiniteSet(K) /\ IsFiniteSet(Docs(K))
         /\ Cardinality(K) \in Nat
         /\ Cardinality(Docs(K)) = Cardinality(K)
<1> DEFINE f == [h \in K |-> Owner[h.point]]
<1>1. \A h \in K : Owner[h.point] \in Doc
  BY DocAssumption DEF Hit
<1>2. f \in Injection(K, Doc)
  BY <1>1 DEF OneOfEach, Injection, IsInjective
<1>3. IsFiniteSet(K)
  BY <1>2, DocAssumption, FS_Injection
<1>4. f \in Surjection(K, Docs(K)) /\ f \in Injection(K, Docs(K))
  BY <1>1 DEF Docs, OneOfEach, Surjection, Injection, IsInjective
<1>5. IsFiniteSet(Docs(K)) /\ Cardinality(Docs(K)) = Cardinality(K)
  BY <1>3, <1>4, FS_Surjection
<1>6. QED
  BY <1>3, <1>5, FS_CardinalityType

LEMMA DocsFinite ==
  ASSUME NEW H \in SUBSET Hit
  PROVE  IsFiniteSet(Docs(H)) /\ Cardinality(Docs(H)) \in Nat /\ Docs(H) \subseteq Doc
<1>1. Docs(H) \in SUBSET Doc
  BY DocAssumption DEF Docs, Hit
<1>2. QED
  BY <1>1, DocAssumption, FS_Subset, FS_CardinalityType

LEMMA DocsGrow ==
  ASSUME NEW G \in SUBSET Hit, NEW H \in SUBSET Hit, G \subseteq H
  PROVE  /\ Docs(G) \subseteq Docs(H)
         /\ Cardinality(Docs(G)) <= Cardinality(Docs(H))
         /\ Cardinality(Docs(G)) = Cardinality(Docs(H)) => Docs(G) = Docs(H)
<1>1. Docs(G) \in SUBSET Docs(H)
  BY DEF Docs
<1>2. QED
  BY <1>1, DocsFinite, FS_Subset

\* What a ranking is, apart from cardinalities.
LEMMA TopIs ==
  ASSUME NEW H \in SUBSET Hit, NEW n \in Nat, NEW K \in TopOf(n, H)
  PROVE  /\ K \subseteq H /\ K \in SUBSET Hit /\ OneOfEach(K)
         /\ Cardinality(K) = Smaller(n, Cardinality(Docs(H)))
         /\ \A k \in K, h \in H : Owner[h.point] \notin Docs(K \ {k}) => h.score <= k.score
  BY DEF TopOf, OneOfEach

\* Nothing is ranked only where there is nothing to rank.
LEMMA TopOfSome ==
  ASSUME NEW H \in SUBSET Hit, NEW n \in Nat \ {0}, {} \in TopOf(n, H)
  PROVE  H = {}
<1>1. Cardinality({}) = Smaller(n, Cardinality(Docs(H)))
  BY TopIs
<1>2. Cardinality(Docs(H)) = 0
  BY <1>1, FS_EmptySet, DocsFinite DEF Smaller
<1>3. Docs(H) = {}
  BY <1>2, DocsFinite, FS_EmptySet
<1>4. QED
  BY <1>3 DEF Docs

LEMMA TopOfNone ==
  ASSUME NEW n \in Nat
  PROVE  {} \in TopOf(n, {})
<1>1. Docs({}) = {} /\ Cardinality({}) = 0
  BY FS_EmptySet DEF Docs
<1>2. QED
  BY <1>1 DEF TopOf, Smaller

\* A ranking that leaves a document of its hits out is full.
LEMMA FullTop ==
  ASSUME NEW n \in Nat \ {0}, NEW G \in SUBSET Hit, NEW F \in TopOf(n, G),
         NEW h \in G, Owner[h.point] \notin Docs(F)
  PROVE  /\ Cardinality(F) = n /\ Cardinality(Docs(F)) = n /\ n <= Cardinality(Docs(G))
         /\ \A k \in F : h.score <= k.score
<1>1. /\ F \subseteq G /\ F \in SUBSET Hit /\ OneOfEach(F)
      /\ Cardinality(F) = Smaller(n, Cardinality(Docs(G)))
      /\ \A k \in F : Owner[h.point] \notin Docs(F \ {k}) => h.score <= k.score
  BY TopIs
<1>2. Owner[h.point] \in Docs(G)
  BY DEF Docs
<1>3. Cardinality(Docs(F)) # Cardinality(Docs(G))
  BY <1>1, <1>2, DocsGrow
<1>4. Cardinality(Docs(F)) = Cardinality(F) /\ Cardinality(Docs(G)) \in Nat
  BY <1>1, OneOfEachCounts, DocsFinite
<1>5. \A k \in F : Docs(F \ {k}) \subseteq Docs(F)
  BY DEF Docs
<1>6. /\ Cardinality(Docs(F)) <= Cardinality(Docs(G)) /\ Cardinality(F) \in Nat
  BY <1>1, DocsGrow, OneOfEachCounts
<1>7. Cardinality(F) = n /\ n <= Cardinality(Docs(G))
  BY <1>1, <1>3, <1>4, <1>6 DEF Smaller
<1>8. QED
  BY <1>1, <1>4, <1>5, <1>7

\* Cutting to the best hits of parts, and then to the best of what was kept, is
\* cutting to the best of all: the batches and pages of find_similar.
LEMMA TopOfTops ==
  ASSUME NEW n \in Nat \ {0}, NEW U \in SUBSET Hit, NEW V \in SUBSET U,
         \A h \in U : \E G \in SUBSET U, F \in SUBSET V : h \in G /\ F \in TopOf(n, G),
         NEW K \in TopOf(n, V)
  PROVE  K \in TopOf(n, U)
<1>1. /\ K \subseteq V /\ K \in SUBSET Hit /\ OneOfEach(K)
      /\ Cardinality(K) = Smaller(n, Cardinality(Docs(V)))
      /\ \A k \in K, h \in V : Owner[h.point] \notin Docs(K \ {k}) => h.score <= k.score
  BY TopIs
<1>2. Cardinality(K) \in Nat /\ Cardinality(Docs(V)) \in Nat /\ Cardinality(Docs(U)) \in Nat
  BY <1>1, OneOfEachCounts, DocsFinite
<1>3. Cardinality(K) = Smaller(n, Cardinality(Docs(U)))
  <2>1. CASE Docs(V) = Docs(U)
    BY <1>1, <2>1
  <2>2. CASE Docs(V) # Docs(U)
    <3>1. Docs(V) \subseteq Docs(U) /\ Cardinality(Docs(V)) <= Cardinality(Docs(U))
      BY DocsGrow
    <3>2. PICK h \in U : Owner[h.point] \notin Docs(V)
      BY <2>2, <3>1 DEF Docs
    <3>3. PICK G \in SUBSET U, F \in SUBSET V : h \in G /\ F \in TopOf(n, G)
      OBVIOUS
    <3>4. Docs(F) \subseteq Docs(V) /\ Cardinality(Docs(F)) <= Cardinality(Docs(V))
      BY DocsGrow
    <3>5. Cardinality(Docs(F)) = n
      BY <3>2, <3>3, <3>4, FullTop
    <3>6. QED
      BY <1>1, <1>2, <3>1, <3>4, <3>5 DEF Smaller
  <2>3. QED
    BY <2>1, <2>2
<1>4. ASSUME NEW k \in K, NEW h \in U, Owner[h.point] \notin Docs(K \ {k})
      PROVE  h.score <= k.score
  <2>1. PICK G \in SUBSET U, F \in SUBSET V : h \in G /\ F \in TopOf(n, G)
    OBVIOUS
  <2>2. h \in Hit /\ k \in Hit /\ h.score \in Nat /\ k.score \in Nat
    BY <1>1 DEF Hit
  <2>3. /\ F \in SUBSET Hit /\ OneOfEach(F)
        /\ \A f \in F : Owner[h.point] \notin Docs(F \ {f}) => h.score <= f.score
    BY <2>1, TopIs
  <2>4. \A f \in F : f \in V /\ f.score \in Nat
    BY <2>3 DEF Hit
  <2>5. CASE Owner[h.point] \in Docs(F)
    <3>1. PICK f \in F : Owner[f.point] = Owner[h.point]
      BY <2>5 DEF Docs
    <3>2. Owner[h.point] \notin Docs(F \ {f})
      BY <2>3, <3>1 DEF Docs, OneOfEach
    <3>3. h.score <= f.score /\ f.score <= k.score
      BY <1>1, <1>4, <2>3, <2>4, <3>1, <3>2
    <3>4. QED
      BY <2>2, <2>4, <3>3
  <2>6. CASE Owner[h.point] \notin Docs(F)
    <3>1. Cardinality(Docs(F)) = n /\ \A f \in F : h.score <= f.score
      BY <2>1, <2>6, FullTop
    <3>2. K \ {k} \in SUBSET Hit /\ OneOfEach(K \ {k})
      BY <1>1 DEF OneOfEach
    <3>3. Cardinality(Docs(K \ {k})) < n
      <4>0. IsFiniteSet(K)
        BY <1>1, OneOfEachCounts
      <4>1. Cardinality(K \ {k}) = Cardinality(K) - 1
        BY <4>0, FS_RemoveElement
      <4>2. Cardinality(Docs(K \ {k})) = Cardinality(K \ {k})
        BY <3>2, OneOfEachCounts
      <4>3. QED
        BY <1>1, <1>2, <4>1, <4>2 DEF Smaller
    <3>4. ~(Docs(F) \subseteq Docs(K \ {k}))
      <4> SUFFICES ASSUME Docs(F) \in SUBSET Docs(K \ {k}) PROVE FALSE
        OBVIOUS
      <4>1. IsFiniteSet(Docs(K \ {k})) /\ Cardinality(Docs(K \ {k})) \in Nat
        BY <3>2, DocsFinite
      <4>2. Cardinality(Docs(F)) <= Cardinality(Docs(K \ {k}))
        BY <4>1, FS_Subset
      <4>3. QED
        BY <3>1, <3>3, <4>1, <4>2
    <3>5. PICK f \in F : Owner[f.point] \notin Docs(K \ {k})
      BY <3>4 DEF Docs
    <3>6. h.score <= f.score /\ f.score <= k.score
      BY <1>1, <2>4, <3>1, <3>5
    <3>7. QED
      BY <2>2, <2>4, <3>6
  <2>7. QED
    BY <2>5, <2>6
<1>5. QED
  BY <1>1, <1>3, <1>4 DEF TopOf, OneOfEach

-----------------------------------------------------------------------------
(* Types. *)

\* A step of the system: of a search, or of what happens to the index meanwhile.
LEMMA Steps ==
  ASSUME [Next]_vars
  PROVE  \/ \E n \in Limits : BeginKeyword(n)
         \/ \E d \in Doc, n \in Limits : BeginSimilar(d, n)
         \/ pc # "idle" /\ Reset
         \/ EnsureIndexes \/ ScrollKeyword \/ ScrollSources
         \/ \E p \in Point : Query(p)
         \/ Merge \/ CheckExists \/ Hydrate
         \/ \E P \in SUBSET Point, value \in Content \cup {None} : Write(P, value)
         \/ Migrate
         \/ UNCHANGED vars
<1>1. \A p \in Point : {p} \in SUBSET Point
  OBVIOUS
<1>2. \A d \in Doc : {p \in Point : Owner[p] = d} \in SUBSET Point
  OBVIOUS
<1>3. \A p \in Point, c \in Content : Upsert(p, c) =>
        \E P \in SUBSET Point, value \in Content \cup {None} : Write(P, value)
  BY <1>1 DEF Upsert
<1>4. \A p \in Point : Remove(p) =>
        \E P \in SUBSET Point, value \in Content \cup {None} : Write(P, value)
  BY <1>1 DEF Remove
<1>5. \A d \in Doc : DeleteDocument(d) =>
        \E P \in SUBSET Point, value \in Content \cup {None} : Write(P, value)
  BY <1>2 DEF DeleteDocument
<1>6. Return \/ Fail => pc # "idle" /\ Reset
  BY DEF Return, Fail
<1>7. Asked \subseteq Doc
  BY StoreAssumption
<1>8. QED
  BY <1>3, <1>4, <1>5, <1>6, <1>7 DEF Next

LEMMA StoredType ==
  ASSUME TypeOK
  PROVE  /\ Stored \in [Point -> Content \cup {None}]
         /\ Present \subseteq Point /\ \A p \in Present : Stored[p] \in Content
         /\ SourcePassages \subseteq Present
         /\ \A content \in Content : Compared(content) \in SUBSET Hit
<1>1. Stored \in [Point -> Content \cup {None}]
  BY DEF TypeOK, Stored
<1>2. Present \subseteq Point /\ \A p \in Present : Stored[p] \in Content
  BY <1>1 DEF Present
<1>3. ASSUME NEW content \in Content PROVE Compared(content) \in SUBSET Hit
  <2>1. \A p \in Present : Score[<<content, Stored[p]>>] \in Nat
    BY <1>2, ContentAssumption
  <2>2. ASSUME NEW h \in Compared(content) PROVE h \in Hit
    <3>1. PICK p \in Present : p \in Point /\ h = [point |-> p, score |-> Score[<<content, Stored[p]>>]]
      BY <1>2 DEF Compared
    <3>2. QED
      BY <2>1, <3>1 DEF Hit
  <2>3. QED
    BY <2>2
<1>4. QED
  BY <1>1, <1>2, <1>3 DEF SourcePassages

LEMMA ProceedType ==
  ASSUME TypeOK, Proceed
  PROVE  /\ pc' \in {"idle", "ensure", "scroll", "sources", "queries", "exists", "hydrate", "done"}
         /\ outcome' \in {"none", "found", "similar", "not_found", "changed"}
  BY DEF TypeOK, Proceed, Ends

LEMMA StepType ==
  ASSUME TypeOK, [Next]_vars
  PROVE  TypeOK'
<1> USE DEF TypeOK, index, request, paging, merging, vars
<1>1. ASSUME NEW n \in Limits, BeginKeyword(n) PROVE TypeOK'
  BY <1>1, LimitAssumption DEF BeginKeyword, Begin
<1>2. ASSUME NEW d \in Doc, NEW n \in Limits, BeginSimilar(d, n) PROVE TypeOK'
  BY <1>2, LimitAssumption DEF BeginSimilar, Begin
<1>3. ASSUME Reset PROVE TypeOK'
  BY <1>3 DEF Reset, NoVectors, NoHits
<1>4. CASE EnsureIndexes
  BY <1>4 DEF EnsureIndexes
<1>5. CASE ScrollKeyword
  <2> DEFINE rest == FromCursor(Matches)
             page == First(KeywordPage, rest)
  <2>1. rest \in SUBSET Point /\ rest = {p \in Matches : p >= cursor} /\ Matches \in SUBSET Point
    BY DEF FromCursor, Matches, Present
  <2>2. cursor \in Nat
    BY PointAssumption
  <2>3. cursor' = Offset(rest, page)
    BY <1>5 DEF ScrollKeyword
  <2>4. cursor' \in Point \cup {0}
    BY <2>1, <2>2, <2>3, LimitAssumption, OffsetFollowsPage
  <2>5. seen' \in SUBSET Doc
    <3>1. page \subseteq Point
      BY <2>1, LimitAssumption, PageIsFirst
    <3>2. \A p \in page : Owner[p] \in Doc
      BY <3>1, DocAssumption
    <3>3. QED
      BY <1>5, <3>2 DEF ScrollKeyword
  <2>6. /\ pc' \in {pc, "done"} /\ outcome' \in {outcome, "found"}
        /\ UNCHANGED <<index, keywordIndexed, request, found, vector, merging, touched, writes>>
    BY <1>5 DEF ScrollKeyword, Ends
  <2>7. QED
    BY <2>4, <2>5, <2>6
<1>6. CASE ScrollSources
  <2> DEFINE rest == FromCursor(SourcePassages)
             page == First(SourcePage, rest)
  <2>1. /\ rest \in SUBSET Point /\ rest = {p \in SourcePassages : p >= cursor}
        /\ SourcePassages \in SUBSET Point
    BY DEF FromCursor, SourcePassages, Passage
  <2>2. cursor \in Nat
    BY PointAssumption
  <2>3. /\ cursor' = Offset(rest, page)
        /\ found' = (found \/ page # {})
        /\ vector' = [p \in Point |-> IF p \in page THEN Stored[p] ELSE None]
        /\ batch' = First(Batch, page)
        /\ UNCHANGED <<best, index, keywordIndexed, request, seen, hits, touched, writes>>
        /\ IF page = {} THEN Proceed ELSE pc' = "queries" /\ UNCHANGED outcome
    BY <1>6 DEF ScrollSources
  <2>4. page \in SUBSET rest /\ batch' \subseteq page
    <3>1. page \in SUBSET rest
      BY <2>1, LimitAssumption, PageIsFirst
    <3>2. QED
      BY <2>1, <2>3, <3>1, LimitAssumption, PageIsFirst
  <2>5. cursor' \in Point \cup {0}
    BY <2>1, <2>2, <2>3, LimitAssumption, OffsetFollowsPage
  <2>6. vector' \in [Point -> Content \cup {None}] /\ batch' \subseteq {p \in Point : vector'[p] # None}
    <3>1. \A p \in page : p \in Point /\ Stored[p] \in Content
      BY <2>1, <2>4, StoredType
    <3>2. \A p \in Point : vector'[p] = IF p \in page THEN Stored[p] ELSE None
      BY <2>3
    <3> HIDE DEF page
    <3> QED BY <2>3, <2>4, <3>1, <3>2, ContentAssumption
  <2>7. /\ pc' \in {"idle", "ensure", "scroll", "sources", "queries", "exists", "hydrate", "done"}
        /\ outcome' \in {"none", "found", "similar", "not_found", "changed"}
    BY <2>3, ProceedType
  <2>8. QED
    <3> HIDE DEF page
    <3> QED BY <2>3, <2>5, <2>6, <2>7
<1>7. ASSUME NEW p \in Point, Query(p) PROVE TypeOK'
  <2>1. PICK K \in TopOf(limit, Compared(vector[p])) : hits' = [hits EXCEPT ![p] = K]
    BY <1>7 DEF Query
  <2>2. vector[p] \in Content
    BY <1>7 DEF Query
  <2>3. K \in SUBSET Hit
    BY <2>1, <2>2, StoredType DEF TopOf
  <2>4. QED
    BY <1>7, <2>1, <2>3 DEF Query
<1>8. CASE Merge
  <2> DEFINE queue == {p \in Point : vector[p] # None} \ batch
  <2>1. /\ \A p \in batch : hits[p] # None
        /\ best' \in TopOf(limit, Merged)
        /\ vector' = [p \in Point |-> IF p \in queue THEN vector[p] ELSE None]
        /\ batch' = First(Batch, queue)
        /\ hits' = NoHits
        /\ UNCHANGED <<cursor, found, seen, index, keywordIndexed, request, touched, writes>>
        /\ IF queue = {} THEN Proceed ELSE UNCHANGED <<pc, outcome>>
    BY <1>8 DEF Merge
  <2>2. Merged \in SUBSET Hit
    BY <2>1 DEF Merged
  <2>3. best' \in SUBSET Hit
    BY <2>1, <2>2 DEF TopOf
  <2>4. batch' \subseteq queue
    BY <2>1, LimitAssumption, PageIsFirst
  <2>5. hits' \in [Point -> (SUBSET Hit) \cup {None}]
    BY <2>1 DEF NoHits
  <2>6. /\ pc' \in {"idle", "ensure", "scroll", "sources", "queries", "exists", "hydrate", "done"}
        /\ outcome' \in {"none", "found", "similar", "not_found", "changed"}
    BY <2>1, ProceedType
  <2>7. QED
    BY <2>1, <2>3, <2>4, <2>5, <2>6
<1>9. CASE CheckExists
  BY <1>9 DEF CheckExists, Ends
<1>10. CASE Hydrate
  BY <1>10 DEF Hydrate, Ends
<1>11. ASSUME NEW P \in SUBSET Point, NEW value \in Content \cup {None}, Write(P, value) PROVE TypeOK'
  <2>1. points' \in [Generation -> [Point -> Content \cup {None}]]
    BY <1>11 DEF Write
  <2>2. QED
    BY <1>11, <2>1 DEF Write
<1>12. CASE Migrate
  <2>1. published' \in Generation
    BY <1>12, BoundAssumption DEF Migrate, Generation
  <2>2. points' \in [Generation -> [Point -> Content \cup {None}]]
    BY <1>12 DEF Migrate
  <2>3. QED
    BY <1>12, <2>1, <2>2 DEF Migrate
<1>13. CASE UNCHANGED vars
  BY <1>13
<1>14. QED
  BY <1>1, <1>2, <1>3, <1>4, <1>5, <1>6, <1>7, <1>8, <1>9, <1>10, <1>11, <1>12, <1>13, Steps

LEMMA InitType == Init => TypeOK
<1> SUFFICES ASSUME Init PROVE TypeOK
  OBVIOUS
<1>1. PICK store \in Stores : points = [g \in Generation |-> store]
  BY DEF Init
<1>2. points \in [Generation -> [Point -> Content \cup {None}]]
  BY <1>1, StoreAssumption
<1>3. 1 \in Generation
  BY BoundAssumption DEF Generation
<1>4. QED
  BY <1>2, <1>3 DEF Init, TypeOK, NoVectors, NoHits

\* Every variable has its type.
THEOREM TypeCorrect == Spec => []TypeOK
  BY InitType, StepType, PTL DEF Spec

-----------------------------------------------------------------------------
(* Where a search is. *)

Control ==
  /\ bound <= published
  /\ keywordIndexed \subseteq textIndexed
  /\ pc = "idle" => best = {} /\ found = FALSE /\ seen = {}
  /\ pc # "idle" => limit # 0
  /\ pc # "done" <=> outcome = "none"
  /\ pc # "queries" => hits = NoHits
  /\ pc = "ensure" => cursor = 1
  /\ pc \in {"scroll", "sources"} => cursor # 0
  /\ pc \in {"exists", "hydrate"} => cursor = 0
  /\ pc = "scroll" => bound \in textIndexed
  /\ pc = "queries" => batch # {}

LEMMA ControlStep ==
  ASSUME TypeOK, Control, [Next]_vars
  PROVE  Control'
<1> USE DEF Control, index, request, paging, merging, vars
<1>0. published \in Nat /\ bound \in Nat
  BY DEF TypeOK, Generation
<1>1. ASSUME NEW n \in Limits, BeginKeyword(n) PROVE Control'
  BY <1>0, <1>1, LimitAssumption DEF BeginKeyword, Begin, Known
<1>2. ASSUME NEW d \in Doc, NEW n \in Limits, BeginSimilar(d, n) PROVE Control'
  BY <1>0, <1>2, LimitAssumption DEF BeginSimilar, Begin
<1>3. ASSUME Reset PROVE Control'
  BY <1>3 DEF Reset
<1>4. CASE EnsureIndexes
  BY <1>4 DEF EnsureIndexes
<1>5. CASE ScrollKeyword
  BY <1>5 DEF ScrollKeyword, Ends
<1>6. CASE ScrollSources
  <2> DEFINE page == First(SourcePage, FromCursor(SourcePassages))
  <2>1. page \in SUBSET Point
    BY LimitAssumption, PageIsFirst DEF FromCursor, SourcePassages, Passage
  <2>2. page # {} => First(Batch, page) # {}
    BY <2>1, LimitAssumption, PageIsFirst
  <2>3. /\ batch' = First(Batch, page)
        /\ IF page = {} THEN Proceed ELSE pc' = "queries" /\ UNCHANGED outcome
        /\ pc = "sources"
        /\ UNCHANGED <<index, keywordIndexed, request, hits>>
    BY <1>6 DEF ScrollSources
  <2> HIDE DEF page
  <2>4. QED
    BY <2>2, <2>3 DEF Proceed, Ends
<1>7. ASSUME NEW p \in Point, Query(p) PROVE Control'
  BY <1>7 DEF Query
<1>8. CASE Merge
  <2> DEFINE queue == {p \in Point : vector[p] # None} \ batch
  <2>1. queue # {} => First(Batch, queue) # {}
    BY LimitAssumption, PageIsFirst
  <2>2. /\ batch' = First(Batch, queue)
        /\ hits' = NoHits
        /\ IF queue = {} THEN Proceed ELSE UNCHANGED <<pc, outcome>>
        /\ pc = "queries"
        /\ UNCHANGED <<index, keywordIndexed, request>>
    BY <1>8 DEF Merge
  <2> HIDE DEF queue
  <2>3. QED
    BY <2>1, <2>2 DEF Proceed, Ends
<1>9. CASE CheckExists
  BY <1>9 DEF CheckExists, Ends
<1>10. CASE Hydrate
  BY <1>10 DEF Hydrate, Ends
<1>11. ASSUME NEW P \in SUBSET Point, NEW value \in Content \cup {None}, Write(P, value) PROVE Control'
  BY <1>11 DEF Write
<1>12. CASE Migrate
  BY <1>0, <1>12 DEF Migrate
<1>13. CASE UNCHANGED vars
  BY <1>13
<1>14. QED
  BY <1>1, <1>2, <1>3, <1>4, <1>5, <1>6, <1>7, <1>8, <1>9, <1>10, <1>11, <1>12, <1>13, Steps

World == \/ \E P \in SUBSET Point, value \in Content \cup {None} : Write(P, value)
         \/ Migrate

\* What the world can do to the generation a search is bound to.
LEMMA WorldMoves ==
  ASSUME TypeOK, Control, World
  PROVE  /\ UNCHANGED <<pc, request, paging, merging, outcome>> /\ pc # "done"
         /\ textIndexed \subseteq textIndexed'
         /\ pc # "idle" =>
              /\ Steady' \subseteq Steady /\ \A p \in Steady' : Stored'[p] = Stored[p]
              /\ Present \cup touched \subseteq Present' \cup touched'
              /\ touched' = {} => touched = {} /\ Stored' = Stored /\ Present' = Present
<1> USE DEF request, paging, merging
<1>1. /\ published \in Generation /\ published \in Nat /\ bound \in Nat
      /\ bound \in Generation /\ bound <= published
      /\ \A g \in Generation : points[g] \in [Point -> Content \cup {None}]
      /\ points \in [Generation -> [Point -> Content \cup {None}]]
  BY DEF TypeOK, Generation, Control
<1>2. ASSUME NEW P \in SUBSET Point, NEW value \in Content \cup {None}, Write(P, value), pc # "idle"
      PROVE  /\ Stored' \in [Point -> Content \cup {None}]
             /\ touched \subseteq touched'
             /\ \A p \in Point : p \notin touched' => Stored'[p] = Stored[p]
  <2>1. /\ points' = [points EXCEPT ![published] =
                        [p \in Point |-> IF p \in P THEN value ELSE @[p]]]
        /\ bound' = bound
        /\ touched' = IF bound = published THEN touched \cup P ELSE touched
    BY <1>2 DEF Write
  <2>2. CASE bound = published
    <3>1. Stored' = [p \in Point |-> IF p \in P THEN value ELSE points[published][p]]
      BY <1>1, <2>1, <2>2 DEF Stored
    <3>2. QED
      BY <1>1, <2>1, <2>2, <3>1 DEF Stored
  <2>3. CASE bound # published
    BY <1>1, <2>1, <2>3 DEF Stored
  <2>4. QED
    BY <2>2, <2>3
<1>3. ASSUME Migrate
      PROVE  Stored' = Stored /\ touched' = touched
  <2>1. points'[bound] = points[bound]
    BY <1>1, <1>3 DEF Migrate
  <2>2. QED
    BY <1>3, <2>1 DEF Migrate, Stored
<1>4. Stored \in [Point -> Content \cup {None}]
  BY StoredType
<1>5. /\ UNCHANGED <<pc, request, paging, merging, outcome>> /\ pc # "done"
      /\ textIndexed \subseteq textIndexed'
  BY DEF World, Write, Migrate, index
<1>6. ASSUME pc # "idle"
      PROVE  /\ touched \subseteq touched'
             /\ \A p \in Point : p \notin touched' => Stored'[p] = Stored[p]
             /\ Stored' \in [Point -> Content \cup {None}]
  BY <1>2, <1>3, <1>4, <1>6 DEF World
<1>7. ASSUME pc # "idle"
      PROVE  /\ Steady' \subseteq Steady /\ \A p \in Steady' : Stored'[p] = Stored[p]
             /\ Present \cup touched \subseteq Present' \cup touched'
  BY <1>6, <1>7 DEF Steady, Present
<1>8. ASSUME pc # "idle", touched' = {}
      PROVE  touched = {} /\ Stored' = Stored /\ Present' = Present
  <2>1. touched = {} /\ \A p \in Point : Stored'[p] = Stored[p]
    BY <1>6, <1>8
  <2>2. Stored' = Stored
    BY <1>4, <1>6, <1>8, <2>1
  <2>3. QED
    BY <2>1, <2>2 DEF Present
<1>9. QED
  BY <1>5, <1>7, <1>8

-----------------------------------------------------------------------------
(* keyword_search. *)

\* Every document with a matching point behind the cursor was found.
KeywordInv ==
  /\ pc = "scroll" =>
       \A p \in Steady : Stored[p] \in Matching /\ p < cursor => Owner[p] \in seen
  /\ KeywordMissesNothing

\* A page whose points do not fill the limit is taken whole: otherwise the
\* documents before the first point left out would fill it.
LEMMA PageIsTaken ==
  ASSUME NEW page \in SUBSET Point, NEW old, NEW n \in Nat,
         NEW new \in SUBSET Doc, old \subseteq new,
         NEW before \in [page -> SUBSET Doc],
         \A q \in page : Owner[q] \notin new => n <= Cardinality(before[q]),
         \A q \in page : \A d \in before[q] : d \in old \/ \E r \in page : r < q /\ Owner[r] = d,
         Cardinality(new) < n
  PROVE  \A p \in page : Owner[p] \in new
<1> DEFINE left == {q \in page : Owner[q] \notin new}
<1>1. SUFFICES ASSUME left # {} PROVE FALSE
  OBVIOUS
<1>2. left \in SUBSET Nat /\ IsFiniteSet(left)
  BY PointAssumption, FS_Subset
<1>3. PICK q \in left : \A x \in left : q <= x
  <2> HIDE DEF left
  <2> QED BY <1>1, <1>2, LeastExists
<1>4. ASSUME NEW r \in page, r < q PROVE Owner[r] \in new
  <2>1. r \in Nat /\ q \in Nat
    BY PointAssumption
  <2>2. QED
    BY <1>3, <1>4, <2>1
<1>5. n <= Cardinality(before[q])
  OBVIOUS
<1>6. before[q] \in SUBSET new
  BY <1>4
<1>7. IsFiniteSet(new) /\ Cardinality(new) \in Nat
  BY DocAssumption, FS_Subset, FS_CardinalityType
<1>8. Cardinality(before[q]) <= Cardinality(new) /\ Cardinality(before[q]) \in Nat
  BY <1>6, <1>7, FS_Subset, FS_CardinalityType
<1>9. QED
  BY <1>5, <1>7, <1>8

LEMMA KeywordStep ==
  ASSUME TypeOK, Control, KeywordInv, [Next]_vars
  PROVE  KeywordInv'
<1> USE DEF index, request, paging, merging, vars
<1>0. \A p \in Point : p \in Nat \ {0}
  BY PointAssumption
<1>1. ASSUME NEW n \in Limits, BeginKeyword(n) PROVE KeywordInv'
  <2>1. cursor' = 1 /\ outcome' = "none"
    BY <1>1 DEF BeginKeyword, Begin, Control
  <2>2. \A p \in Point : ~(p < cursor')
    BY <1>0, <2>1
  <2>3. QED
    BY <2>1, <2>2 DEF KeywordInv, KeywordMissesNothing, Steady, Present
<1>2. ASSUME NEW d \in Doc, NEW n \in Limits, BeginSimilar(d, n) PROVE KeywordInv'
  BY <1>2 DEF BeginSimilar, Begin, Control, KeywordInv, KeywordMissesNothing
<1>3. ASSUME Reset PROVE KeywordInv'
  BY <1>3 DEF Reset, KeywordInv, KeywordMissesNothing
<1>4. CASE EnsureIndexes
  <2>1. cursor' = 1 /\ outcome' = "none"
    BY <1>4 DEF EnsureIndexes, Control
  <2>2. \A p \in Point : ~(p < cursor')
    BY <1>0, <2>1
  <2>3. QED
    BY <2>1, <2>2 DEF KeywordInv, KeywordMissesNothing, Steady, Present
<1>5. CASE ScrollKeyword
  <2> DEFINE rest == FromCursor(Matches)
             page == First(KeywordPage, rest)
             before(p) == seen \cup {Owner[q] : q \in {r \in page : r < p}}
             taken == {p \in page : Cardinality(before(p)) < limit}
  <2>1. /\ pc = "scroll"
        /\ seen' = seen \cup {Owner[p] : p \in taken}
        /\ cursor' = Offset(rest, page)
        /\ IF cursor' = 0 \/ Cardinality(seen') >= limit
           THEN Ends("found")
           ELSE UNCHANGED <<pc, outcome>>
        /\ UNCHANGED <<points, published, bound, limit, touched>>
    BY <1>5 DEF ScrollKeyword
  <2>2. Stored' = Stored /\ Steady' = Steady /\ limit' = limit /\ limit \in Nat
    BY <2>1 DEF Stored, Steady, Present, TypeOK
  <2>3. Matches = {p \in Present : Stored[p] \in Matching}
    BY <2>1 DEF Matches, Control
  <2>4. /\ page \in SUBSET Matches /\ Matches \in SUBSET Point
        /\ cursor' = 0 => \A p \in Matches : p < cursor \/ p \in page
        /\ cursor' # 0 => \A p \in Matches : p < cursor' <=> p < cursor \/ p \in page
    <3>1. Matches \in SUBSET Point /\ cursor \in Nat
      BY <2>3, PointAssumption DEF Present, TypeOK
    <3>2. QED
      BY <2>1, <3>1, LimitAssumption, OffsetFollowsPage
  <2>5. seen' \in SUBSET Doc /\ Cardinality(seen') \in Nat
    <3>1. seen' \in SUBSET Doc
      BY StepType DEF TypeOK
    <3>2. QED
      BY <3>1, DocAssumption, FS_Subset, FS_CardinalityType
  <2>6. Cardinality(seen') < limit => \A p \in page : Owner[p] \in seen'
    <3>1. page \in SUBSET Point /\ seen \subseteq seen'
      BY <2>1, <2>4
    <3> DEFINE f == [q \in page |-> before(q)]
    <3>2. f \in [page -> SUBSET Doc]
      BY <3>1, DocAssumption DEF TypeOK
    <3>3. ASSUME NEW q \in page, Owner[q] \notin seen' PROVE limit <= Cardinality(f[q])
      <4>1. q \notin taken
        BY <2>1, <3>3
      <4>2. Cardinality(f[q]) \in Nat
        BY <3>2, DocAssumption, FS_Subset, FS_CardinalityType
      <4>3. QED
        BY <2>2, <4>1, <4>2
    <3>4. \A q \in page : \A d \in f[q] : d \in seen \/ \E r \in page : r < q /\ Owner[r] = d
      OBVIOUS
    <3> HIDE DEF page, f
    <3>5. QED
      BY <2>2, <2>5, <3>1, <3>2, <3>3, <3>4, PageIsTaken
  <2>7. ASSUME Cardinality(seen') < limit, NEW p \in Steady, Stored[p] \in Matching,
               cursor' = 0 \/ p < cursor'
        PROVE  Owner[p] \in seen'
    <3>1. p \in Matches
      BY <2>3, <2>7 DEF Steady
    <3>2. p < cursor \/ p \in page
      BY <2>4, <2>7, <3>1
    <3>3. p < cursor => Owner[p] \in seen
      BY <2>1, <2>7 DEF KeywordInv
    <3>4. QED
      BY <2>1, <2>6, <2>7, <3>2, <3>3
  <2>8. /\ pc' = "scroll" => Cardinality(seen') < limit
        /\ outcome' = "found" /\ Cardinality(seen') < limit => cursor' = 0
    BY <2>1, <2>2, <2>5 DEF Ends, Control
  <2> HIDE DEF rest, page, taken
  <2>9. QED
    BY <2>2, <2>7, <2>8 DEF KeywordInv, KeywordMissesNothing
<1>6. CASE ScrollSources
  BY <1>6 DEF ScrollSources, Proceed, Ends, KeywordInv, KeywordMissesNothing, Control
<1>7. ASSUME NEW p \in Point, Query(p) PROVE KeywordInv'
  BY <1>7 DEF Query, KeywordInv, KeywordMissesNothing, Control
<1>8. CASE Merge
  BY <1>8 DEF Merge, Proceed, Ends, KeywordInv, KeywordMissesNothing, Control
<1>9. CASE CheckExists
  BY <1>9 DEF CheckExists, Ends, KeywordInv, KeywordMissesNothing
<1>10. CASE Hydrate
  BY <1>10 DEF Hydrate, Ends, KeywordInv, KeywordMissesNothing
<1>11. CASE World
  <2>1. outcome' = "none"
    BY <1>11, WorldMoves DEF Control
  <2>2. QED
    BY <1>11, <2>1, WorldMoves DEF KeywordInv, KeywordMissesNothing
<1>12. CASE UNCHANGED vars
  BY <1>12 DEF KeywordInv, KeywordMissesNothing, Steady, Present, Stored
<1>13. QED
  BY <1>1, <1>2, <1>3, <1>4, <1>5, <1>6, <1>7, <1>8, <1>9, <1>10, <1>11, <1>12, Steps DEF World

-----------------------------------------------------------------------------
(* find_similar: what it reports. *)

Searching == pc \in {"sources", "queries", "exists", "hydrate"}

\* No passage of another document was there all the while.
OthersGone == \A p \in Steady \cap Passage : Owner[p] = source

\* A source passage behind the cursor was found; hits are there unless they were
\* touched; and a query that found nothing had nothing to find.
ReportInv ==
  /\ Searching =>
       \A p \in Steady \cap Passage : Owner[p] = source /\ (cursor = 0 \/ p < cursor) => found
  /\ pc = "exists" => ~found
  /\ pc = "hydrate" => best # {}
  /\ pc = "sources" /\ found /\ best = {} => OthersGone
  /\ pc = "queries" =>
       /\ found
       /\ \A p \in batch : hits[p] # None =>
            /\ hits[p] = {} => OthersGone
            /\ \A h \in hits[p] : h.point \in Present \cup touched
  /\ \A h \in best : h.point \in Present \cup touched
  /\ ReportsAreTrue

\* Where the loop over the pages goes is what was found.
LEMMA ProceedReports ==
  ASSUME TypeOK, Control, Proceed,
         Steady' = Steady, Present' = Present, source' = source, touched' = touched,
         outcome = "none",
         \A p \in Steady \cap Passage : Owner[p] = source /\ (cursor' = 0 \/ p < cursor') => found',
         found' /\ best' = {} => OthersGone,
         \A h \in best' : h.point \in Present \cup touched
  PROVE  ReportInv'
  BY DEF Proceed, Ends, ReportInv, ReportsAreTrue, OthersGone, Searching

LEMMA ReportStep ==
  ASSUME TypeOK, Control, ReportInv, [Next]_vars
  PROVE  ReportInv'
<1> USE DEF index, request, paging, merging, vars
<1>0. \A p \in Point : p \in Nat \ {0}
  BY PointAssumption
<1>1. ASSUME NEW n \in Limits, BeginKeyword(n) PROVE ReportInv'
  BY <1>1 DEF BeginKeyword, Begin, Control, ReportInv, ReportsAreTrue, Searching
<1>2. ASSUME NEW d \in Doc, NEW n \in Limits, BeginSimilar(d, n) PROVE ReportInv'
  <2>1. cursor' = 1 /\ outcome' = "none" /\ pc' = "sources" /\ best' = {} /\ found' = FALSE
    BY <1>2 DEF BeginSimilar, Begin, Control
  <2>2. \A p \in Point : ~(p < cursor')
    BY <1>0, <2>1
  <2>3. QED
    BY <2>1, <2>2 DEF ReportInv, ReportsAreTrue, Steady, Present
<1>3. ASSUME Reset PROVE ReportInv'
  BY <1>3 DEF Reset, ReportInv, ReportsAreTrue, Searching
<1>4. CASE EnsureIndexes
  BY <1>4 DEF EnsureIndexes, ReportInv, ReportsAreTrue, Searching, Present, Stored, Control
<1>5. CASE ScrollKeyword
  BY <1>5 DEF ScrollKeyword, Ends, ReportInv, ReportsAreTrue, Searching, Present, Stored, Control
<1>6. CASE ScrollSources
  <2> DEFINE page == First(SourcePage, FromCursor(SourcePassages))
  <2>1. /\ pc = "sources"
        /\ cursor' = Offset(FromCursor(SourcePassages), page)
        /\ found' = (found \/ page # {})
        /\ batch' = First(Batch, page)
        /\ UNCHANGED <<best, index, request, hits, touched>>
        /\ IF page = {} THEN Proceed ELSE pc' = "queries" /\ UNCHANGED outcome
    BY <1>6 DEF ScrollSources
  <2>2. Steady' = Steady /\ Present' = Present /\ source' = source /\ touched' = touched /\ outcome = "none"
    BY <2>1 DEF Stored, Steady, Present, Control
  <2>3. /\ page \in SUBSET SourcePassages /\ SourcePassages \in SUBSET Point
        /\ cursor' = 0 => \A p \in SourcePassages : p < cursor \/ p \in page
        /\ cursor' # 0 => \A p \in SourcePassages : p < cursor' <=> p < cursor \/ p \in page
    <3>1. SourcePassages \in SUBSET Point /\ cursor \in Nat
      BY PointAssumption DEF SourcePassages, Passage, TypeOK
    <3>2. QED
      BY <2>1, <3>1, LimitAssumption, OffsetFollowsPage
  <2>4. ASSUME NEW p \in Steady \cap Passage, Owner[p] = source, cursor' = 0 \/ p < cursor'
        PROVE  found'
    <3>1. p \in SourcePassages
      BY <2>4 DEF Steady, SourcePassages
    <3>2. p < cursor \/ p \in page
      BY <2>3, <2>4, <3>1
    <3>3. QED
      BY <2>1, <2>4, <3>2 DEF ReportInv, Searching
  <2>5. \A p \in batch' : hits'[p] = None
    <3>1. batch' \in SUBSET Point
      BY <2>1, <2>3, LimitAssumption, PageIsFirst
    <3>2. QED
      BY <2>1, <3>1 DEF Control, NoHits
  <2>6. \A h \in best' : h.point \in Present \cup touched
    BY <2>1 DEF ReportInv
  <2> HIDE DEF page
  <2>7. CASE page = {}
    <3>1. Proceed /\ (found' /\ best' = {} => OthersGone)
      BY <2>1, <2>7 DEF ReportInv
    <3>2. QED
      BY <2>2, <2>4, <2>6, <3>1, ProceedReports
  <2>8. CASE page # {}
    <3>1. pc' = "queries" /\ outcome' = "none" /\ found'
      BY <2>1, <2>2, <2>8
    <3>2. QED
      BY <2>2, <2>5, <2>6, <3>1 DEF ReportInv, ReportsAreTrue
  <2>9. QED
    BY <2>7, <2>8
<1>7. ASSUME NEW p \in Point, Query(p) PROVE ReportInv'
  <2>1. PICK K \in TopOf(limit, Compared(vector[p])) : hits' = [hits EXCEPT ![p] = K]
    BY <1>7 DEF Query
  <2>2. /\ pc = "queries" /\ p \in batch
        /\ UNCHANGED <<points, bound, limit, source, cursor, found, batch, best, pc, outcome, touched>>
    BY <1>7 DEF Query
  <2>3. Steady' = Steady /\ Present' = Present /\ OthersGone' = OthersGone
    BY <2>2 DEF Stored, Steady, Present, OthersGone
  <2>4. vector[p] \in Content /\ Compared(vector[p]) \in SUBSET Hit
    <3>1. vector[p] \in Content
      BY <2>2 DEF TypeOK
    <3>2. QED
      BY <3>1, StoredType
  <2>5. K \subseteq Compared(vector[p])
    BY DEF TopOf
  <2>6. ASSUME NEW h \in K PROVE h.point \in Present
    <3>1. h \in Compared(vector[p])
      BY <2>5
    <3>2. PICK q \in Present : h = [point |-> q, score |-> Score[<<vector[p], Stored[q]>>]]
      BY <3>1 DEF Compared
    <3>3. QED
      BY <3>2
  <2>7. K = {} => OthersGone
    <3>1. SUFFICES ASSUME K = {}, NEW q \in Steady \cap Passage, Owner[q] # source PROVE FALSE
      BY DEF OthersGone
    <3>2. limit \in Nat \ {0}
      BY <2>2 DEF Control, TypeOK
    <3>3. Compared(vector[p]) = {}
      BY <2>4, <3>1, <3>2, TopOfSome
    <3>4. [point |-> q, score |-> Score[<<vector[p], Stored[q]>>]] \in Compared(vector[p])
      BY <3>1 DEF Compared, Steady
    <3>5. QED
      BY <3>3, <3>4
  <2>8. \A q \in batch : hits'[q] = IF q = p THEN K ELSE hits[q]
    BY <2>1, <2>2 DEF TypeOK
  <2>9. QED
    BY <2>2, <2>3, <2>6, <2>7, <2>8 DEF ReportInv, ReportsAreTrue, Searching, Control
<1>8. CASE Merge
  <2> DEFINE queue == {p \in Point : vector[p] # None} \ batch
  <2>1. /\ pc = "queries" /\ \A p \in batch : hits[p] # None
        /\ best' \in TopOf(limit, Merged)
        /\ batch' = First(Batch, queue)
        /\ hits' = NoHits
        /\ UNCHANGED <<cursor, found, seen, index, request, touched>>
        /\ IF queue = {} THEN Proceed ELSE UNCHANGED <<pc, outcome>>
    BY <1>8 DEF Merge
  <2>2. /\ Steady' = Steady /\ Present' = Present /\ OthersGone' = OthersGone
        /\ source' = source /\ touched' = touched /\ outcome = "none"
    BY <2>1 DEF Stored, Steady, Present, OthersGone, Control
  <2>3. Merged \in SUBSET Hit /\ best' \subseteq Merged
    BY <2>1 DEF Merged, TopOf, TypeOK
  <2>4. \A h \in best' : h.point \in Present \cup touched
    BY <2>1, <2>3 DEF Merged, ReportInv
  <2>5. best' = {} => OthersGone
    <3>1. SUFFICES ASSUME best' = {} PROVE OthersGone
      OBVIOUS
    <3>2. limit \in Nat \ {0}
      BY <2>1 DEF Control, TypeOK
    <3>3. Merged = {}
      BY <2>1, <2>3, <3>1, <3>2, TopOfSome
    <3>4. PICK p \in batch : hits[p] # None
      BY <2>1 DEF Control
    <3>5. hits[p] = {}
      BY <2>1, <3>3, <3>4 DEF Merged, TypeOK
    <3>6. QED
      BY <2>1, <3>4, <3>5 DEF ReportInv
  <2>6. \A p \in batch' : hits'[p] = None
    <3>1. batch' \in SUBSET Point
      BY <2>1, LimitAssumption, PageIsFirst
    <3>2. QED
      BY <2>1, <3>1 DEF NoHits
  <2>7. \A p \in Steady \cap Passage : Owner[p] = source /\ (cursor' = 0 \/ p < cursor') => found'
    BY <2>1 DEF ReportInv, Searching
  <2> HIDE DEF queue
  <2>8. CASE queue = {}
    <3>1. Proceed
      BY <2>1, <2>8
    <3>2. QED
      BY <2>2, <2>4, <2>5, <2>7, <3>1, ProceedReports
  <2>9. CASE queue # {}
    <3>1. pc' = "queries" /\ outcome' = "none" /\ found'
      BY <2>1, <2>2, <2>9 DEF ReportInv
    <3>2. QED
      BY <2>1, <2>2, <2>4, <2>6, <2>7, <3>1 DEF ReportInv, ReportsAreTrue
  <2>10. QED
    BY <2>8, <2>9
<1>9. CASE CheckExists
  <2>1. /\ pc = "exists" /\ pc' = "done" /\ cursor = 0
        /\ outcome' = IF \E p \in Present : Owner[p] = source THEN "similar" ELSE "not_found"
        /\ UNCHANGED <<points, bound, source, best, touched>>
    BY <1>9 DEF CheckExists, Ends, Control
  <2>2. Steady' = Steady /\ Present' = Present
    BY <2>1 DEF Stored, Steady, Present
  <2>3. \A p \in Steady \cap Passage : Owner[p] # source
    BY <2>1 DEF ReportInv, Searching
  <2>4. QED
    BY <2>1, <2>2, <2>3 DEF ReportInv, ReportsAreTrue, Searching, Steady
<1>10. CASE Hydrate
  <2>1. /\ pc = "hydrate" /\ pc' = "done" /\ best # {}
        /\ outcome' = IF \A h \in best : h.point \in Present THEN "similar" ELSE "changed"
        /\ UNCHANGED <<points, bound, source, best, touched>>
    BY <1>10 DEF Hydrate, Ends, ReportInv
  <2>2. Steady' = Steady /\ Present' = Present
    BY <2>1 DEF Stored, Steady, Present
  <2>3. QED
    BY <2>1, <2>2 DEF ReportInv, ReportsAreTrue, Searching
<1>11. CASE World
  <2>1. outcome' = "none" /\ outcome = "none"
    BY <1>11, WorldMoves DEF Control
  <2>2. CASE pc = "idle"
    <3>1. pc' = "idle" /\ best' = {}
      BY <1>11, <2>2, WorldMoves DEF Control
    <3>2. QED
      BY <2>1, <3>1 DEF ReportInv, ReportsAreTrue, Searching
  <2>3. CASE pc # "idle"
    <3>1. /\ Steady' \subseteq Steady /\ Present \cup touched \subseteq Present' \cup touched'
          /\ UNCHANGED <<pc, source, cursor, found, best, batch, hits>>
      BY <1>11, <2>3, WorldMoves
    <3>2. OthersGone => OthersGone'
      BY <3>1 DEF OthersGone
    <3>3. QED
      BY <2>1, <3>1, <3>2 DEF ReportInv, ReportsAreTrue, Searching
  <2>4. QED
    BY <2>2, <2>3
<1>12. CASE UNCHANGED vars
  <2>1. Steady' = Steady /\ Present' = Present
    BY <1>12 DEF Stored, Steady, Present
  <2>2. QED
    BY <1>12, <2>1 DEF ReportInv, ReportsAreTrue, Searching, OthersGone
<1>13. QED
  BY <1>1, <1>2, <1>3, <1>4, <1>5, <1>6, <1>7, <1>8, <1>9, <1>10, <1>11, <1>12, Steps DEF World

-----------------------------------------------------------------------------
(* find_similar: the ranking. *)

\* Compared, SourcePassages and the pairs that passages make, for an index and a
\* document: they are the same as long as these are.
Neighbors(stored, d, content) ==
  {[point |-> q, score |-> Score[<<content, stored[q]>>]] :
     q \in {r \in Passage : stored[r] # None /\ Owner[r] # d}}
Sources(stored, d) == {p \in Passage : stored[p] # None /\ Owner[p] = d}
Pairs(stored, d, P) == UNION {Neighbors(stored, d, stored[p]) : p \in P}

\* The passages whose pages have been read, and the pairs that passages make.
Read == {p \in Sources(Stored, source) : cursor = 0 \/ p < cursor}
Ranked(P) == best \in TopOf(limit, Pairs(Stored, source, P))

\* While nothing is touched, the best hits so far are the best of the pairs of the
\* passages that were queried.
RankInv ==
  /\ touched = {} =>
       /\ pc \in {"sources", "exists", "hydrate"} => Ranked(Read)
       /\ pc = "queries" =>
            /\ \A p \in Point : vector[p] # None => p \in Read /\ vector[p] = Stored[p]
            /\ Ranked({p \in Read : vector[p] = None})
            /\ \A p \in batch : hits[p] # None =>
                 hits[p] \in TopOf(limit, Neighbors(Stored, source, Stored[p]))
       /\ outcome = "similar" => Ranked(Sources(Stored, source))
       /\ outcome # "changed"

LEMMA SameSets ==
  /\ SourcePassages = Sources(Stored, source)
  /\ \A content : Compared(content) = Neighbors(Stored, source, content)
  /\ UNION {Compared(Stored[p]) : p \in SourcePassages}
       = Pairs(Stored, source, Sources(Stored, source))
<1>1. Passage \subseteq Point
  BY DEF Passage
<1>2. SourcePassages = Sources(Stored, source)
  BY <1>1 DEF SourcePassages, Sources, Present
<1>3. {q \in Passage \cap Present : Owner[q] # source}
        = {r \in Passage : Stored[r] # None /\ Owner[r] # source}
  BY <1>1 DEF Present
<1>4. ASSUME NEW content PROVE Compared(content) = Neighbors(Stored, source, content)
  BY <1>3 DEF Compared, Neighbors
<1>5. QED
  BY <1>2, <1>4 DEF Pairs

\* Everything compared is a hit.
LEMMA PairsAreHits ==
  ASSUME TypeOK
  PROVE  /\ \A p \in Sources(Stored, source) :
              Neighbors(Stored, source, Stored[p]) \in SUBSET Hit
         /\ \A P \in SUBSET Sources(Stored, source) : Pairs(Stored, source, P) \in SUBSET Hit
         /\ Sources(Stored, source) \in SUBSET Point
<1>1. \A p \in Sources(Stored, source) : Stored[p] \in Content
  BY StoredType, SameSets
<1>2. \A p \in Sources(Stored, source) : Neighbors(Stored, source, Stored[p]) \in SUBSET Hit
  BY <1>1, StoredType, SameSets
<1>3. QED
  BY <1>2 DEF Pairs, Sources, Passage

\* Where the loop over the pages goes, the best so far is the best of all it read.
LEMMA ProceedRanks ==
  ASSUME Proceed, outcome = "none", ReportInv',
         touched' = {} => Ranked(Read)'
  PROVE  RankInv'
<1>1. /\ pc' # "queries"
      /\ outcome' = "similar" => cursor' = 0
  BY DEF Proceed, Ends
<1>2. cursor' = 0 => Read' = Sources(Stored', source')
  BY DEF Read, Sources
<1>3. outcome' = "changed" => touched' # {}
  BY DEF ReportInv, ReportsAreTrue
<1>4. QED
  BY <1>1, <1>2, <1>3 DEF RankInv, Ranked

LEMMA RankStep ==
  ASSUME TypeOK, Control, RankInv, ReportInv', [Next]_vars
  PROVE  RankInv'
<1> USE DEF index, request, paging, merging, vars
<1>0. outcome' = "changed" => touched' # {}
  BY DEF ReportInv, ReportsAreTrue
<1>1. ASSUME NEW n \in Limits, BeginKeyword(n) PROVE RankInv'
  BY <1>1 DEF BeginKeyword, Begin, Control, RankInv
<1>2. ASSUME NEW d \in Doc, NEW n \in Limits, BeginSimilar(d, n) PROVE RankInv'
  <2>1. cursor' = 1 /\ outcome' = "none" /\ pc' = "sources" /\ best' = {} /\ limit' \in Nat
    BY <1>2, LimitAssumption DEF BeginSimilar, Begin, Control
  <2>2. Read' = {}
    <3>1. \A p \in Passage : ~(p < 1)
      BY PointAssumption DEF Passage
    <3>2. QED
      BY <2>1, <3>1 DEF Read, Sources
  <2>3. Pairs(Stored', source', {}) = {}
    BY DEF Pairs
  <2>4. Ranked(Read)'
    BY <2>1, <2>2, <2>3, TopOfNone DEF Ranked
  <2>5. QED
    BY <2>1, <2>4 DEF RankInv
<1>3. ASSUME Reset PROVE RankInv'
  BY <1>3 DEF Reset, RankInv
<1>4. CASE EnsureIndexes
  BY <1>4 DEF EnsureIndexes, RankInv, Control
<1>5. CASE ScrollKeyword
  BY <1>0, <1>5 DEF ScrollKeyword, Ends, RankInv, Control
<1>6. CASE ScrollSources
  <2> DEFINE page == First(SourcePage, FromCursor(SourcePassages))
  <2>1. /\ pc = "sources"
        /\ cursor' = Offset(FromCursor(SourcePassages), page)
        /\ vector' = [p \in Point |-> IF p \in page THEN Stored[p] ELSE None]
        /\ batch' = First(Batch, page)
        /\ UNCHANGED <<best, index, request, hits, touched>>
        /\ IF page = {} THEN Proceed ELSE pc' = "queries" /\ UNCHANGED outcome
    BY <1>6 DEF ScrollSources
  <2>2. /\ Stored' = Stored /\ source' = source /\ touched' = touched /\ limit' = limit
        /\ best' = best /\ outcome = "none" /\ cursor # 0 /\ cursor \in Nat
    BY <2>1, PointAssumption DEF Stored, Control, TypeOK
  <2> DEFINE S == Sources(Stored, source)
  <2>3. /\ page \in SUBSET S /\ S \in SUBSET Point /\ \A p \in page : p >= cursor
        /\ cursor' = 0 => \A p \in S : p < cursor \/ p \in page
        /\ cursor' # 0 => \A p \in S : p < cursor' <=> p < cursor \/ p \in page
    <3>1. SourcePassages = S /\ S \in SUBSET Point
      BY SameSets, PairsAreHits
    <3>2. QED
      BY <2>1, <2>2, <3>1, LimitAssumption, OffsetFollowsPage
  <2>4. Read' = Read \cup page /\ Read \cap page = {}
    <3>1. Read = {p \in S : p < cursor} /\ Read' = {p \in S : cursor' = 0 \/ p < cursor'}
      BY <2>2 DEF Read
    <3>2. \A p \in page : p \in Nat /\ ~(p < cursor)
      <4> HIDE DEF page, S
      <4> QED BY <2>2, <2>3, PointAssumption
    <3> HIDE DEF page, S
    <3>3. QED
      BY <2>3, <3>1, <3>2
  <2>5. touched = {} => Ranked(Read)
    BY <2>1 DEF RankInv
  <2>6. CASE page = {}
    <3>1. Proceed
      BY <2>1, <2>6
    <3>2. Read' = Read
      BY <2>4, <2>6
    <3>3. touched' = {} => Ranked(Read)'
      BY <2>2, <2>5, <3>2 DEF Ranked
    <3>4. QED
      BY <2>2, <3>1, <3>3, ProceedRanks
  <2>7. CASE page # {}
    <3>1. pc' = "queries" /\ outcome' = "none"
      BY <2>1, <2>2, <2>7
    <3>2. \A p \in Point : vector'[p] = IF p \in page THEN Stored[p] ELSE None
      BY <2>1
    <3>3. \A p \in page : p \in Point /\ Stored[p] # None
      BY <2>3 DEF Sources
    <3>4. \A p \in Read : p \in Point
      BY DEF Read, Sources, Passage
    <3> HIDE DEF page
    <3>5. {p \in Read' : vector'[p] = None} = Read
      BY <2>4, <3>2, <3>3, <3>4
    <3>6. \A p \in Point : vector'[p] # None => p \in Read' /\ vector'[p] = Stored[p]
      BY <2>4, <3>2
    <3>7. \A p \in batch' : hits'[p] = None
      <4>1. batch' \in SUBSET Point
        BY <2>1, <2>3, LimitAssumption, PageIsFirst DEF page
      <4>2. QED
        BY <2>1, <4>1 DEF Control, NoHits
    <3>8. touched' = {} => Ranked({p \in Read : vector[p] = None})'
      BY <2>2, <2>5, <3>5 DEF Ranked
    <3>9. QED
      BY <2>2, <3>1, <3>6, <3>7, <3>8 DEF RankInv
  <2>8. QED
    BY <2>6, <2>7
<1>7. ASSUME NEW p \in Point, Query(p) PROVE RankInv'
  <2>1. PICK K \in TopOf(limit, Compared(vector[p])) : hits' = [hits EXCEPT ![p] = K]
    BY <1>7 DEF Query
  <2>2. /\ pc = "queries" /\ p \in batch
        /\ UNCHANGED <<points, bound, limit, source, cursor, vector, batch, best, pc, outcome, touched>>
    BY <1>7 DEF Query
  <2>3. /\ Stored' = Stored /\ source' = source /\ Read' = Read /\ outcome = "none"
        /\ {q \in Read' : vector'[q] = None} = {q \in Read : vector[q] = None}
    BY <2>2 DEF Stored, Read, Control
  <2>4. Compared(vector[p]) = Neighbors(Stored, source, vector[p])
    BY SameSets
  <2>5. \A q \in batch : hits'[q] = IF q = p THEN K ELSE hits[q]
    BY <2>1, <2>2 DEF TypeOK
  <2>6. touched = {} => vector[p] = Stored[p]
    BY <2>2 DEF RankInv, TypeOK
  <2>7. QED
    BY <2>1, <2>2, <2>3, <2>4, <2>5, <2>6 DEF RankInv, Ranked
<1>8. CASE Merge
  <2> DEFINE queue == {p \in Point : vector[p] # None} \ batch
             done == {p \in Read : vector[p] = None}
  <2>1. /\ pc = "queries" /\ \A p \in batch : hits[p] # None
        /\ best' \in TopOf(limit, Merged)
        /\ vector' = [p \in Point |-> IF p \in queue THEN vector[p] ELSE None]
        /\ batch' = First(Batch, queue)
        /\ hits' = NoHits
        /\ UNCHANGED <<cursor, index, request, touched>>
        /\ IF queue = {} THEN Proceed ELSE UNCHANGED <<pc, outcome>>
    BY <1>8 DEF Merge
  <2>2. /\ Stored' = Stored /\ source' = source /\ touched' = touched /\ limit' = limit
        /\ Read' = Read /\ outcome = "none" /\ limit \in Nat \ {0}
    BY <2>1 DEF Stored, Read, Control, TypeOK
  <2>3. Read \in SUBSET Sources(Stored, source) /\ Read \in SUBSET Point
    BY PairsAreHits DEF Read
  <2>4. ASSUME touched = {}
        PROVE  best' \in TopOf(limit, Pairs(Stored, source, done \cup batch))
    <3> DEFINE U == Pairs(Stored, source, done \cup batch)
    <3>1. batch \in SUBSET Read
      BY <2>1, <2>4 DEF RankInv, TypeOK
    <3>2. /\ best \in TopOf(limit, Pairs(Stored, source, done))
          /\ \A p \in batch : hits[p] \in TopOf(limit, Neighbors(Stored, source, Stored[p]))
      BY <2>1, <2>4 DEF RankInv, Ranked
    <3>3. U \in SUBSET Hit
      BY <2>3, <3>1, PairsAreHits
    <3>4. /\ Pairs(Stored, source, done) \in SUBSET U
          /\ \A p \in batch : Neighbors(Stored, source, Stored[p]) \in SUBSET U
      BY DEF Pairs
    <3>5. best \in SUBSET Merged /\ \A p \in batch : hits[p] \in SUBSET Merged
      BY DEF Merged
    <3>6. Merged \in SUBSET U
      <4>1. best \subseteq U /\ \A p \in batch : hits[p] \subseteq U
        <5> HIDE DEF U
        <5> QED BY <3>2, <3>4 DEF TopOf
      <4>2. QED
        BY <4>1 DEF Merged
    <3>7. \A h \in U : \/ h \in Pairs(Stored, source, done)
                       \/ \E p \in batch : h \in Neighbors(Stored, source, Stored[p])
      BY DEF Pairs
    <3> HIDE DEF U, done
    <3>8. \A h \in U : \E G \in SUBSET U, F \in SUBSET Merged : h \in G /\ F \in TopOf(limit, G)
      BY <3>2, <3>4, <3>5, <3>7
    <3>9. QED
      BY <2>1, <2>2, <3>3, <3>6, <3>8, TopOfTops DEF U
  <2>5. touched = {} => \A p \in Point : vector[p] # None => p \in Read /\ vector[p] = Stored[p]
    BY <2>1 DEF RankInv
  <2>6. batch \subseteq {p \in Point : vector[p] # None}
    BY DEF TypeOK
  <2>7. \A p \in Point : vector'[p] = IF p \in queue THEN vector[p] ELSE None
    BY <2>1
  <2>8. touched = {} => {p \in Read' : vector'[p] = None} = done \cup batch
    BY <2>2, <2>3, <2>5, <2>6, <2>7
  <2>9. CASE queue = {}
    <3>1. Proceed
      BY <2>1, <2>9
    <3>2. touched = {} => done \cup batch = Read
      BY <2>3, <2>5, <2>6, <2>9
    <3>3. touched' = {} => Ranked(Read)'
      BY <2>2, <2>4, <3>2 DEF Ranked
    <3>4. QED
      BY <2>2, <3>1, <3>3, ProceedRanks
  <2>10. CASE queue # {}
    <3>1. pc' = "queries" /\ outcome' = "none"
      BY <2>1, <2>2, <2>10
    <3>2. \A p \in batch' : hits'[p] = None
      <4>1. batch' \in SUBSET Point
        BY <2>1, LimitAssumption, PageIsFirst
      <4>2. QED
        BY <2>1, <4>1 DEF NoHits
    <3>3. touched' = {} => \A p \in Point : vector'[p] # None => p \in Read' /\ vector'[p] = Stored'[p]
      BY <2>2, <2>5, <2>7
    <3>4. touched' = {} => Ranked({p \in Read : vector[p] = None})'
      BY <2>2, <2>4, <2>8 DEF Ranked
    <3>5. QED
      BY <3>1, <3>2, <3>3, <3>4 DEF RankInv
  <2>11. QED
    BY <2>9, <2>10
<1>9. CASE CheckExists
  <2>1. /\ pc = "exists" /\ pc' = "done" /\ cursor = 0
        /\ UNCHANGED <<points, bound, limit, source, cursor, best, touched>>
    BY <1>9 DEF CheckExists, Ends, Control
  <2>2. Stored' = Stored
    BY <2>1 DEF Stored
  <2>3. Read = Sources(Stored, source)
    BY <2>1 DEF Read, Sources
  <2>4. QED
    BY <1>0, <2>1, <2>2, <2>3 DEF RankInv, Ranked
<1>10. CASE Hydrate
  <2>1. /\ pc = "hydrate" /\ pc' = "done" /\ cursor = 0
        /\ UNCHANGED <<points, bound, limit, source, cursor, best, touched>>
    BY <1>10 DEF Hydrate, Ends, Control
  <2>2. Stored' = Stored
    BY <2>1 DEF Stored
  <2>3. Read = Sources(Stored, source)
    BY <2>1 DEF Read, Sources
  <2>4. QED
    BY <1>0, <2>1, <2>2, <2>3 DEF RankInv, Ranked
<1>11. CASE World
  <2>1. outcome' = "none" /\ outcome = "none" /\ pc' = pc
    BY <1>11, WorldMoves DEF Control
  <2>2. CASE pc = "idle"
    BY <2>1, <2>2 DEF RankInv
  <2>3. ASSUME pc # "idle", touched' = {}
        PROVE  /\ touched = {} /\ Stored' = Stored
               /\ UNCHANGED <<limit, source, cursor, vector, batch, hits, best>>
    BY <1>11, <2>3, WorldMoves
  <2>4. ASSUME pc # "idle", touched' = {}
        PROVE  Read' = Read /\ {p \in Read : vector[p] = None}' = {p \in Read : vector[p] = None}
    BY <2>3, <2>4 DEF Read
  <2>5. QED
    BY <2>1, <2>2, <2>3, <2>4 DEF RankInv, Ranked
<1>12. CASE UNCHANGED vars
  <2>1. Stored' = Stored
    BY <1>12 DEF Stored
  <2>2. Read' = Read /\ {p \in Read : vector[p] = None}' = {p \in Read : vector[p] = None}
    BY <1>12, <2>1 DEF Read
  <2>3. QED
    BY <1>12, <2>1, <2>2 DEF RankInv, Ranked
<1>13. QED
  BY <1>1, <1>2, <1>3, <1>4, <1>5, <1>6, <1>7, <1>8, <1>9, <1>10, <1>11, <1>12, Steps DEF World

-----------------------------------------------------------------------------
(* The theorems. *)

SearchInv == TypeOK /\ Control /\ KeywordInv /\ ReportInv /\ RankInv

LEMMA SearchInvariant == Spec => []SearchInv
<1>1. Init => SearchInv
  <2> SUFFICES ASSUME Init PROVE SearchInv
    OBVIOUS
  <2>1. TypeOK
    BY InitType
  <2>2. pc = "idle" /\ outcome = "none" /\ best = {} /\ published = 1 /\ bound = 1
        /\ keywordIndexed \subseteq textIndexed /\ hits = NoHits /\ seen = {} /\ found = FALSE
    BY DEF Init
  <2>3. QED
    BY <2>1, <2>2 DEF SearchInv, Control, KeywordInv, KeywordMissesNothing, ReportInv,
                      ReportsAreTrue, RankInv, Searching
<1>2. SearchInv /\ [Next]_vars => SearchInv'
  BY StepType, ControlStep, KeywordStep, ReportStep, RankStep DEF SearchInv
<1>3. QED
  BY <1>1, <1>2, PTL DEF Spec

\* A keyword search that returns fewer documents than it was asked for has found
\* every document that matched all the while.
THEOREM KeywordComplete == Spec => []KeywordMissesNothing
<1>1. SearchInv => KeywordMissesNothing
  BY DEF SearchInv, KeywordInv
<1>2. QED
  BY <1>1, SearchInvariant, PTL

\* Undisturbed, the pages, batches and cuts of find_similar yield the best of all
\* pairs of passages.
THEOREM RankingExact == Spec => []SimilarIsBest
<1>1. SearchInv => SimilarIsBest
  BY SameSets DEF SearchInv, RankInv, Ranked, SimilarIsBest
<1>2. QED
  BY <1>1, SearchInvariant, PTL

\* A missing document, an empty list and a changed result are what happened.
THEOREM ReportsTrue == Spec => []ReportsAreTrue
<1>1. SearchInv => ReportsAreTrue
  BY DEF SearchInv, ReportInv
<1>2. QED
  BY <1>1, SearchInvariant, PTL
=============================================================================

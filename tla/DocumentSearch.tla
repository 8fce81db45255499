--------------------------- MODULE DocumentSearch ---------------------------
(***************************************************************************)
(* keyword_search of tools/search.py and find_similar of search/engine.py: *)
(* searches that take many requests, none of them under the collection     *)
(* lock, while the indexer replaces and removes points and a migration may *)
(* publish another generation of the collection.                           *)
(*                                                                         *)
(* A search reads only, and what it shares with other searches is which    *)
(* collections have full-text indexes, so one search at a time is modelled *)
(* against everything that writes.  The vector database belongs to another *)
(* library and is external: a scroll returns points in the order of their  *)
(* ids, a grouped query the best passages of the best documents, ties in   *)
(* any order.                                                              *)
(***************************************************************************)
EXTENDS Naturals, FiniteSets, FiniteSetsExt

CONSTANTS Point,          \* ids of points, in the order a scroll returns them
          Doc,            \* documents
          Owner,          \* the document of each point: ids are derived from it
          Summary,        \* the points that are summaries, not passages
          Content,        \* what a point may contain
          Matching,       \* the contents that match the keyword in any case
          Exact,          \* those that match it without a full-text index
          Score,          \* similarity of two contents
          Stores,         \* what the index may hold at first
          Asked,          \* the documents whose neighbors are asked for
          None,           \* no point, no content, no hits yet
          Limits,         \* limits a caller may ask for
          KeywordPage,    \* page_size of keyword_search
          SourcePage,     \* page size of find_similar's scroll
          Batch,          \* queries of find_similar under way at once
          MaxGenerations, \* bound: generations of the collection
          MaxWrites       \* bound: writes to the index

ASSUME PointAssumption == Point \subseteq Nat \ {0} /\ IsFiniteSet(Point)
ASSUME DocAssumption == IsFiniteSet(Doc) /\ Owner \in [Point -> Doc] /\ Summary \subseteq Point
ASSUME ContentAssumption == /\ None \notin Content
                            /\ Exact \subseteq Matching /\ Matching \subseteq Content
                            /\ Score \in [Content \X Content -> Nat]
ASSUME StoreAssumption == /\ Stores \subseteq [Point -> Content \cup {None}]
                          /\ Asked \subseteq Doc
ASSUME LimitAssumption == /\ Limits \subseteq Nat \ {0}
                          /\ KeywordPage \in Nat \ {0}
                          /\ SourcePage \in Nat \ {0} /\ Batch \in Nat \ {0}
ASSUME BoundAssumption == MaxGenerations \in Nat \ {0} /\ MaxWrites \in Nat

VARIABLES
  points,         \* of each generation: the content stored under each id
  published,      \* the generation a new operation is bound to
  textIndexed,    \* generations with full-text indexes
  keywordIndexed, \* the engine's memory of them: _keyword_indexed
  pc,             \* the request the search awaits
  bound,          \* the generation it is bound to
  limit,          \* the limit it was called with
  source,         \* find_similar: the document
  cursor,         \* the smallest id of the next page, 0 after the last page
  seen,           \* keyword_search: the documents found
  found,          \* find_similar: found_source
  vector,         \* find_similar: vectors of the page that are to be queried
  batch,          \* those being queried
  hits,           \* what these queries returned
  best,           \* the strongest hits so far, one of a document
  outcome,        \* how the search ended
  touched,        \* history: points of its generation written since it began
  writes          \* so far

index == <<points, published, textIndexed>>
request == <<bound, limit, source>>
paging == <<cursor, seen, found, vector>>
merging == <<batch, hits, best>>
vars == <<index, keywordIndexed, pc, request, paging, merging, outcome, touched, writes>>

Generation == 1..MaxGenerations
Passage == Point \ Summary
NoVectors == [p \in Point |-> None]
NoHits == [p \in Point |-> None]

\* Searches may have been made before.
Init ==
  /\ \E store \in Stores : points = [g \in Generation |-> store]
  /\ published = 1
  /\ textIndexed \in SUBSET {1}
  /\ keywordIndexed \in SUBSET textIndexed
  /\ pc = "idle"
  /\ bound = 1 /\ limit = 0 /\ source = None
  /\ cursor = 0 /\ seen = {} /\ found = FALSE /\ vector = NoVectors
  /\ batch = {} /\ hits = NoHits /\ best = {}
  /\ outcome = "none"
  /\ touched = {}
  /\ writes = 0

-----------------------------------------------------------------------------
(* Pages and rankings. *)

\* What the search's generation stores: every request names the generation
\* that was resolved when the search began.
\* Fault: a request resolves the collection again.
StoredByLatest == points[published]
Stored == points[bound]

Present == {p \in Point : Stored[p] # None}
FromCursor(S) == {p \in S : p >= cursor}

\* The first n of a set of points, and the offset that follows a page.
\* Fault: the page is followed by the id after its last.
First(n, S) == {p \in S : Cardinality({q \in S : q < p}) < n}
NextId(S, page) == IF page = {} THEN 0 ELSE Max(page) + 1
Offset(S, page) == IF S = page THEN 0 ELSE Min(S \ page)

\* A hit is a passage with its similarity.
Hit == [point : Point, score : Nat]
Docs(H) == {Owner[h.point] : h \in H}
Smaller(m, n) == IF m < n THEN m ELSE n

\* The ways to choose the best hits, one of a document, of at most n documents.
TopOf(n, H) ==
  {K \in SUBSET H :
     /\ \A h, k \in K : Owner[h.point] = Owner[k.point] => h = k
     /\ Cardinality(K) = Smaller(n, Cardinality(Docs(H)))
     /\ \A k \in K, h \in H :
          Owner[h.point] \notin Docs(K \ {k}) => h.score <= k.score}

\* The passages of other documents compared with one vector.
Compared(content) ==
  {[point |-> p, score |-> Score[<<content, Stored[p]>>]] :
     p \in {q \in Passage \cap Present : Owner[q] # source}}

SourcePassages == {p \in Passage \cap Present : Owner[p] = source}

-----------------------------------------------------------------------------
(* The life of a search. *)

\* The generation is resolved, without the collection lock.
Begin(n) ==
  /\ pc = "idle"
  /\ bound' = published
  /\ limit' = n
  /\ cursor' = 1
  /\ touched' = {}
  /\ UNCHANGED <<index, keywordIndexed, seen, found, vector, merging, outcome, writes>>

\* What a search knows is gone when it has returned.
Reset ==
  /\ pc' = "idle"
  /\ limit' = 0 /\ source' = None
  /\ cursor' = 0 /\ seen' = {} /\ found' = FALSE /\ vector' = NoVectors
  /\ batch' = {} /\ hits' = NoHits /\ best' = {}
  /\ outcome' = "none"
  /\ touched' = {}
  /\ UNCHANGED <<index, keywordIndexed, bound, writes>>

Ends(how) == pc' = "done" /\ outcome' = how
Return == pc = "done" /\ Reset

\* Any request may fail, which fails the search: a failed query cancels and
\* joins the other queries of its batch.
Fail == pc \notin {"idle", "done"} /\ Reset

-----------------------------------------------------------------------------
(* keyword_search. *)

\* Fault: the memory is of the process, not of the generation.
KnownOnce == keywordIndexed # {}
Known == published \in keywordIndexed

BeginKeyword(n) ==
  /\ Begin(n)
  /\ source' = None
  /\ pc' = IF Known THEN "scroll" ELSE "ensure"

\* ensure_keyword_indexes: remembered only when the indexes are there.
EnsureIndexes ==
  /\ pc = "ensure"
  /\ textIndexed' = textIndexed \cup {bound}
  /\ keywordIndexed' = keywordIndexed \cup {bound}
  /\ pc' = "scroll"
  /\ UNCHANGED <<points, published, request, paging, merging, outcome, touched, writes>>

\* Without a full-text index the database compares case by case.
Matches == {p \in Present : Stored[p] \in IF bound \in textIndexed THEN Matching ELSE Exact}

\* Fault: the continuation cursor is discarded.
OnlyPage(S, page) == 0

\* One page of matching points.  A point's document is taken unless the limit is
\* reached before it; the loop goes on while there are a page and a limit to fill.
ScrollKeyword ==
  LET rest == FromCursor(Matches)
      page == First(KeywordPage, rest)
      before(p) == seen \cup {Owner[q] : q \in {r \in page : r < p}}
      taken == {p \in page : Cardinality(before(p)) < limit}
  IN /\ pc = "scroll"
     /\ seen' = seen \cup {Owner[p] : p \in taken}
     /\ cursor' = Offset(rest, page)
     /\ IF cursor' = 0 \/ Cardinality(seen') >= limit
        THEN Ends("found")
        ELSE UNCHANGED <<pc, outcome>>
     /\ UNCHANGED <<index, keywordIndexed, request, found, vector, merging, touched, writes>>

-----------------------------------------------------------------------------
(* find_similar. *)

BeginSimilar(d, n) ==
  /\ Begin(n)
  /\ source' = d
  /\ pc' = "sources"

\* Where the loop over the pages goes when a page is done with.
\* Fault: a document without neighbors is reported missing.
EmptyIsMissing ==
  IF cursor' # 0     THEN pc' = "sources" /\ UNCHANGED outcome
  ELSE IF best' = {} THEN Ends("not_found")
  ELSE pc' = "hydrate" /\ UNCHANGED outcome
Proceed ==
  IF cursor' # 0  THEN pc' = "sources" /\ UNCHANGED outcome
  ELSE IF ~found' THEN pc' = "exists" /\ UNCHANGED outcome
  ELSE IF best' = {} THEN Ends("similar")
  ELSE pc' = "hydrate" /\ UNCHANGED outcome

\* A page of the document's passages with their vectors.
ScrollSources ==
  LET rest == FromCursor(SourcePassages)
      page == First(SourcePage, rest)
  IN /\ pc = "sources"
     /\ cursor' = Offset(rest, page)
     /\ found' = (found \/ page # {})
     /\ vector' = [p \in Point |-> IF p \in page THEN Stored[p] ELSE None]
     /\ batch' = First(Batch, page)
     /\ UNCHANGED best
     /\ IF page = {} THEN Proceed ELSE pc' = "queries" /\ UNCHANGED outcome
     /\ UNCHANGED <<index, keywordIndexed, request, seen, hits, touched, writes>>

\* The queries of a batch are answered in any order.
Query(p) ==
  /\ pc = "queries" /\ p \in batch /\ hits[p] = None
  /\ \E K \in TopOf(limit, Compared(vector[p])) : hits' = [hits EXCEPT ![p] = K]
  /\ UNCHANGED <<index, keywordIndexed, pc, request, paging, batch, best, outcome, touched, writes>>

\* What the batch and the batches before it found.
\* Fault: a document's later match replaces its stronger one.
LaterWins == LET new == UNION {hits[p] : p \in batch}
             IN new \cup {b \in best : Owner[b.point] \notin Docs(new)}
Merged == best \cup UNION {hits[p] : p \in batch}

\* All queries of the batch have returned: the strongest hits are kept, and the
\* next batch or the next page follows.
Merge ==
  LET queue == {p \in Point : vector[p] # None} \ batch
  IN /\ pc = "queries" /\ \A p \in batch : hits[p] # None
     /\ best' \in TopOf(limit, Merged)
     /\ vector' = [p \in Point |-> IF p \in queue THEN vector[p] ELSE None]
     /\ batch' = First(Batch, queue)
     /\ hits' = NoHits
     /\ UNCHANGED <<cursor, found, seen>>
     /\ IF queue = {} THEN Proceed ELSE UNCHANGED <<pc, outcome>>
     /\ UNCHANGED <<index, keywordIndexed, request, touched, writes>>

\* No passage was found: the document is missing unless it has any point.
CheckExists ==
  /\ pc = "exists"
  /\ Ends(IF \E p \in Present : Owner[p] = source THEN "similar" ELSE "not_found")
  /\ UNCHANGED <<index, keywordIndexed, request, paging, merging, touched, writes>>

\* The payloads of the winners are read, all of which must still be there.
Hydrate ==
  /\ pc = "hydrate"
  /\ Ends(IF \A h \in best : h.point \in Present THEN "similar" ELSE "changed")
  /\ UNCHANGED <<index, keywordIndexed, request, paging, merging, touched, writes>>

-----------------------------------------------------------------------------
(* What happens to the index meanwhile. *)

\* A request of the indexer or of a deletion, to the published generation.  A
\* search that returns awaits nothing, so nothing comes between.
Write(P, value) ==
  /\ pc # "done" /\ writes < MaxWrites
  /\ points' = [points EXCEPT ![published] =
       [p \in Point |-> IF p \in P THEN value ELSE @[p]]]
  /\ touched' = IF pc # "idle" /\ bound = published THEN touched \cup P ELSE touched
  /\ writes' = writes + 1
  /\ UNCHANGED <<published, textIndexed, keywordIndexed, pc, request, paging, merging, outcome>>

\* A point is written, over an older version of itself if there is one.
Upsert(p, content) == Write({p}, content)

\* A stale passage goes, or a document with all its points.
Remove(p) == Write({p}, None)
DeleteDocument(d) == Write({p \in Point : Owner[p] = d}, None)

\* A migration publishes a copy of the collection, with or without the indexes.
Migrate ==
  /\ pc # "done" /\ published < MaxGenerations
  /\ published' = published + 1
  /\ points' = [points EXCEPT ![published + 1] = points[published]]
  /\ \/ UNCHANGED textIndexed
     \/ textIndexed' = textIndexed \cup {published + 1}
  /\ UNCHANGED <<keywordIndexed, pc, request, paging, merging, outcome, touched, writes>>

-----------------------------------------------------------------------------
Next ==
  \/ \E n \in Limits : BeginKeyword(n)
  \/ \E d \in Asked, n \in Limits : BeginSimilar(d, n)
  \/ Return \/ Fail
  \/ EnsureIndexes \/ ScrollKeyword
  \/ ScrollSources \/ Merge \/ CheckExists \/ Hydrate
  \/ \E p \in Point : Query(p) \/ Remove(p)
  \/ \E p \in Point, content \in Content : Upsert(p, content)
  \/ \E d \in Doc : DeleteDocument(d)
  \/ Migrate

Spec == Init /\ [][Next]_vars

-----------------------------------------------------------------------------
(* Properties. *)

\* Every variable has its type.
TypeOK ==
  /\ points \in [Generation -> [Point -> Content \cup {None}]]
  /\ published \in Generation /\ bound \in Generation
  /\ textIndexed \subseteq Generation /\ keywordIndexed \subseteq Generation
  /\ pc \in {"idle", "ensure", "scroll", "sources", "queries", "exists", "hydrate", "done"}
  /\ limit \in Nat
  /\ source \in Doc \cup {None}
  /\ cursor \in Point \cup {0, 1}
  /\ seen \subseteq Doc
  /\ found \in BOOLEAN
  /\ vector \in [Point -> Content \cup {None}]
  /\ batch \subseteq {p \in Point : vector[p] # None}
  /\ hits \in [Point -> (SUBSET Hit) \cup {None}]
  /\ best \subseteq Hit
  /\ outcome \in {"none", "found", "similar", "not_found", "changed"}
  /\ touched \subseteq Point
  /\ writes \in Nat

Steady == Present \ touched

\* tools/search.py keyword_search, "until we have `limit` distinct documents or
\* the matches are exhausted": a search that returns fewer documents than it
\* was asked for has found every document that had a matching point, whatever
\* its case, all the while; neither pages nor writes nor migrations hide it.
KeywordMissesNothing ==
  outcome = "found" /\ Cardinality(seen) < limit =>
    \A p \in Steady : Stored[p] \in Matching => Owner[p] \in seen

\* "Each document is ranked by its best passage-pair similarity": if no point
\* was written meanwhile, the pages, batches and truncations of find_similar
\* yield the best of all pairs of passages, and never an error.
SimilarIsBest ==
  touched = {} =>
    /\ outcome = "similar" =>
         best \in TopOf(limit, UNION {Compared(Stored[p]) : p \in SourcePassages})
    /\ outcome # "changed"

\* "An empty list means the document is indexed but has no similar neighbors; it
\* does not mean the document is missing", whatever is written meanwhile: a
\* document that had a point all the while is not reported missing, and one with a
\* passage is not told it has no neighbors while another document's passage
\* was there; a result that "changed during retrieval" did change.
ReportsAreTrue ==
  /\ outcome = "not_found" => \A p \in Steady : Owner[p] # source
  /\ outcome = "similar" /\ best = {} =>
       \/ \A p \in Steady \cap Passage : Owner[p] # source
       \/ \A p \in Steady \cap Passage : Owner[p] = source
  /\ outcome = "changed" => \E h \in best : h.point \in touched

\* A passage is shown as it was when its similarity was computed: not so.
ShownIsScored ==
  outcome = "similar" =>
    \A h \in best : \E c \in Content : h.score = Score[<<c, Stored[h.point]>>]
=============================================================================

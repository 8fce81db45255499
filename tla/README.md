# TLA+ models of mcp-docs

mcp-docs is an MCP server that registers documents in a SQLite registry,
extracts their text in the background and indexes it in Qdrant for hybrid
search. This directory models the parts of it whose correctness depends on the
order of things: who runs between two awaits, what a crash leaves behind, which
step of several fails. Paths below are relative to `src/src/mcp_docs/`.

## Inventory

| Component | State it keeps | Operations | What is hard about it |
|---|---|---|---|
| Processing queue (`processing/queue.py`) | priority queue, `in_progress`, result cache, wait events with reference counts, cancellation markers, workers | `start`, `stop`, `enqueue`, `wait_for`, `cancel`, the worker loop, recovery | workers, callers and tools interleave at every await; two tasks of one document; eviction; a full queue; a crash |
| Registry (`storage/database.py`) | rows with extraction status, tags, roots; attempt tokens | register, update, start/fail attempt, delete, queries, path rewriting | survives a crash while the queue does not; a stale attempt reports late |
| Collection lock (`embedding.py`) | the lock and the bound generation | `collection_operation` | what it covers, and what happens outside of it |
| Indexer (`indexing/indexer.py`) | points in Qdrant, the docs contribution to a shared vocabulary | index one, index all, delete, refresh a summary, rewrite paths | a replacement of many points that fails half-way; accounting that must follow what is stored |
| Chunker (`indexing/chunker.py`) | none | `chunk` | boundaries, overlap and limit at their edges |
| Scanner (`scanning/scanner.py`) | rows against files on disk | `scan_root`, background loop | moved, duplicated, restored files; an incomplete walk; a crash between recording a change and submitting it |
| OCR (`extraction/ocr.py`, `extraction/vision_client.py`) | page progress and cached results on disk, a circuit breaker | extract a scanned PDF, resume, give up | retries across processes and restarts, errors that count and errors that do not |
| File tools (`tools/filesystem.py`) | files, then rows, then points | move a file, move or rename a directory, create and delete directories | checks made before a wait of a minute or two; one step of several fails |
| Search (`search/engine.py`, `tools/search.py`) | which collections have full-text indexes | keyword search, similar documents, hybrid search, the passages of a document | many requests without a lock while the index is written and migrated; rankings cut page by page |
| Tool handlers (`tools/*.py`) | none | call the parts above | the awaits between reading a row and acting on it |
| Extractors, glossary, hash API, settings | none of their own | conversions, queries, library calls | nothing a model checker reaches |

They interact on one asyncio event loop: tool handlers commit rows and submit
documents to the processor; workers extract on a thread pool, then take the
collection lock and call the indexer; scans and deletions take the same lock;
callers of `wait_for` sleep on events that workers and `cancel` set. What each
component must guarantee:

* **processor**: every document submitted is settled, across crashes; a row
  that says PROCESSING has an owner; a superseded attempt changes nothing;
  every caller is answered as soon as its document is settled; a cancelled
  document stays cancelled;
* **indexer**: the vocabulary describes exactly what is stored; a completion
  marker is seen only beside a complete body; metadata updates certify nothing;
* **chunker**: no text is lost, passages are bounded, the loop ends;
* **scanner**: an incomplete walk deletes nothing; every change on disk is
  submitted eventually;
* **OCR**: a finished page is never sent again, a page is given up on only
  after its own failures, what is on disk is never lost;
* **search**: what was there all the while is not missed, an undisturbed ranking is
  exact, and "missing", "no neighbors" and "changed" say what happened;
* **file tools**: a document's row, root and points follow its file, and no
  file is lost.

## Modules

| Module | Models | Status |
|---|---|---|
| `DocumentProcessor` | queue, workers, callers, cancellation, recovery, with the rows they share | written |
| `WaitService` | abstract: what the processor promises to the callers of `wait_for` | written |
| `DocumentLifecycle` | abstract: who may change a document's row, from which status to which | written |
| `MCDocumentProcessor` | symmetry for TLC | written |
| `DocumentProcessorProofs` | theorems about it, both refinements included | written |
| `IndexPublication` | points, completion markers and the vocabulary contribution under the indexer's operations | written |
| `Publication` | abstract: what the index promises of a document's points | written |
| `MCIndexPublication` | sizes and terms for TLC | written |
| `IndexPublicationProofs` | theorems about it, the refinement of `Publication` included | written |
| `Chunker` | the cutting loop | written |
| `ChunkerProofs` | theorems about it | written |
| `DocumentScanner` | scans against files that change, with the workers and tools whose work they meet | written |
| `MCDocumentScanner` | two files and their roots for TLC | written |
| `DocumentScannerProofs` | theorems about it | written |
| `OcrResume` | attempts at the OCR of a document, their files on disk, the shared circuit breaker | written |
| `MCOcrResume` | two documents for TLC | written |
| `OcrResumeProofs` | theorems about it | written |
| `DocumentSearch` | keyword and similarity searches against writes and migrations of the index | written |
| `MCDocumentSearch` | an index of seven points for TLC | written |
| `DocumentSearchProofs` | theorems about it | written |
| `LeastElement` | lemmas on least elements that the proofs about searches, attempts at pages, the result cache, directory trees and the chunker's boundaries need | written |
| `FileTools` | calls of the file tools between check, wait, lock, move, rows and points | written |
| `MCFileTools` | two small trees for TLC | written |
| `FileToolsProofs` | theorems about it | written |

### DocumentProcessor

The code between two awaits is one action. A worker's `pc` says where it
awaits:

| `pc` | in the code |
|---|---|
| `idle` | `queue.get()` |
| `extracting` | `run_in_executor(extract)` |
| `locking` | `collection_operation(write=True)` |
| `indexing` | `indexer.index_document`, lock held |
| `failing` | the registry update raised, lock being released |
| `finishing` | lock being released after indexing |

`Take` with `BeginAttempt`, `SkipCancelled` and `RowVanished` is the worker loop
up to its first await; `EnterLock` writes EXTRACTED; `LeaveLock` writes INDEXED or
only logs; `Succeed` and `Fail` are everything from there to the next
`queue.get()`: caching the result with its eviction, setting the event, the
`finally` block with its possible KeyError. `Enqueue` is `enqueue` up to
`queue.put`; if the queue is full the call is counted in `blocked` until
`PutUnblocks` or `PutRejected`. `WaitReturnsAtOnce`, `WaitParks`, `WaitWakes` and
`WaitTimesOut` are `wait_for`; its lock is never held across an await, so each is
one step. `Start` is `start` with the whole of `_reenqueue_orphaned_documents`;
`StartupLock`, `StartupIndex` and `StartupDone` are the `index_all` that follows.
`Crash` keeps the registry and forgets the rest; `stop` followed by the end of
the process is `Stop` and then `Crash`.

Abstractions: tasks of equal priority leave the queue in any order (their order
is by time, but a blocked `put` enters later than its timestamp says); a token
is named after the worker that drew it, since a worker has one attempt at a
time; an event is named after the caller that created it; an error is one of
the classes recovery tells apart. `stop` lets a worker take another task although
the loop ends after the current one: the model allows more than the code.
`get_status`, `list_queued` and `wait_for_documents` read only. Wait events older
than an hour are not removed.

Two abstract specifications say what all of this is for, and the module is shown to
implement both:

* `WaitService` knows documents' outcomes and callers that are idle, asleep, awake or
  returned, and no events: publishing an outcome wakes everybody who sleeps on that
  document and nobody else, nobody falls asleep on a remembered outcome, and a caller
  answers with the outcome it finds when it returns. `Answers` maps `completed` to its
  outcomes; a parked caller is asleep until the event it holds has been set
  (`WaiterState`). `Leave`, whether the event was set or the timeout expired, is its
  `Answer`.
* `DocumentLifecycle` knows rows, their current owner, submissions that wait for
  space, and what each worker is at, and neither queue, cache, events nor markers. `Rows`
  maps the three kinds of failure to one (`StatusOf`), waiting for the lock and
  the failed registry update to `extracting` (`StageOf`), and a stopping process to
  a running one. Taking a task that is then skipped, waiting for the lock and everything
  about callers are stutters.

`DocumentProcessor` sees of the indexer that it holds the lock and what it does
to a row; `IndexPublication` sees of the processor that a worker starts an
operation with some version of a text and that a submission takes the row out
of the states `index_all` selects. Each leaves the other's inside to
nondeterminism: there, indexing succeeds or fails; here, a worker may come at
any time with any version the file ever had.

### IndexPublication

Every operation of the indexer that writes points runs under the collection
lock, so at most one is under way. Its `pc` says which request it awaits:

| `pc` | in the code |
|---|---|
| `account` | `index_document`: reading the stored terms, then the vocabulary delta |
| `extract`, `source`, `verify` | pass 1 of `index_all`: between two documents, in `extract_content`, in the second `_verify_registered_source` |
| `register` | `_register_batch_vocabulary` |
| `embed` | `_build_points` |
| `invalidate` | `_verify_registered_source` of a repair, then `update_payload(source_layout=None)` |
| `write` | `upsert_fragment_group` per passage, then the deletion of stale points |
| `publish` | the upsert of the summary, then the row becomes INDEXED |
| `revert` | `_revert_vocabulary_update` |
| `delete` | `delete_document_index`, then the row if the user asked |
| `read`, `rewrite` | `_refresh_indexed_summary` and `_refresh_summary` |

`kind` is the operation: a worker's `index`, the tool's `reindex` with its
expected hash, `all` and `force`, `delete` by a user, `purge` by a scan that
misses the file, `retag`. Outside of the lock, files are edited, back and forth
(`Edit`), rows are queued again, and the `index_document` tool reads the row
(`ReadRow`) and the file (`ExtractAsked`) before it asks for the lock, and
repeats its status write after it (`late`). `reading` is what such a call knows;
`StartReindex` compares the hash it read with the row's and the file's.

A document's body is the version of each passage in Qdrant, so a half-replaced
body is a mixture; the summary is the tags it was built from, the content hash
in its marker and whether the marker is on (`source_layout`). A term set is read
back from what is stored exactly as `_indexed_token_set` does. `freq` and `count`
are this corpus' contribution to the shared vocabulary. The database itself
belongs to the vector-core library and is taken to apply a write wholly or not
at all, with counts floored at zero.

`drift` is a history variable: `"excused"` from the moment a step the code calls
best-effort was lost (a vocabulary write, the read of a repair or of a
deletion, the process ending within an operation), `"unexcused"` after one of
the two ways in which the contribution goes wrong without any failure, and `"none"`
again after a forced rebuild that saw every stored document.

`back` is another: the documents whose file came back to the registered version
after it was read and before it was checked. Reading A, B, A around its checks,
the code publishes the body of B under the hash of A, which no comparison of hashes
can tell from a file that never changed.

Abstractions: a file is read in one step, and a check of its hash too; either comes
at any moment between two other steps. The documents that index_all selected are
extracted in any order. One call of the tool per document is under way before the
lock (several may repeat their status), and `Askable` names the documents that may
have one. A worker's text is any version that the file ever may have. The points of one
passage, its embedding fragments included, are written together, as are all
deletions of stale points; a failure between two of them leaves what a
failure between two passages leaves. QUEUED, PROCESSING, FAILED and CANCELLED rows
are one status, for `index_all` selects none of them. A scan that misses a file can
come at any time, the file being unreachable just then. Payload fields that
neither enter the marker nor the terms (path, tag filter) are left out. Titles and
filenames do enter both: the summary's text and the hash behind the marker are made of
filename, title and tags. `meta` stands for all of them: a change of a filename runs the
code of a change of tags, and the title that a Markdown file gets from its text when
it is first extracted (indexer.py:382) is taken to be there from the start. A modified file whose
contents another document already has is skipped by the scan and not modelled.

### Chunker

A text is its length and a set of boundaries; a passage is an interval. Each
step is one turn of the loop. Which boundaries a text has (headings when there
are several, blank lines otherwise) is regular-expression matching and is left
to the inputs: every set of positions is tried. Titles and page numbers of a
passage are left out.

### DocumentScanner

`pc` says where a scan is:

| `pc` | in the code |
|---|---|
| `idle` | no scan; the collection lock is free |
| `walk` | the `os.walk` loop of `scan_root`, a file per step |
| `relocate` | the awaited relocation callback within the walk |
| `sweep` | the deletion pass, or the turn to the next of the `due` roots |
| `purge` | the awaited deletion callback |

A walk has no await but its callbacks, so other coroutines run only in `idle`,
`relocate` and `purge` (`Awaiting`), and those that need the lock only in `idle`.
Other programs write, remove and rename files at any time (`Edit`). `Visit` with
`Modified`, `Restored`, `Reactivate`, `Unchanged`, `Adopt` and `RegisterNew` are
the branches for one file, `Pass` a file that cannot be read or has gone,
`WalkError` a directory that cannot. What a scan finds is collected
in `found` and becomes `pending` when the lock is released; `Enqueue` submits
it, `Extract`, `Publish` and `Fail` are the worker and `IndexAll` the tool.

`Event` counts, against `MaxEvents`, everything that the system did not do by
itself: edits, tool calls, and faults such as an unreadable file, a failed purge,
a rejected submission, a failed extraction, a cancelled call (`Abandon`) and a
restart. Scans are not counted.

The history variables say what a property may hold a scan to: `steady`, the files
that have not changed since the walk began; `missed`, the contents the walk could
not read; `bare`, documents that are live again without points; `astray`, documents
whose last submission was lost, read another content or overlapped another attempt.

Abstractions: names, links and unsupported types are filtered before a file is
one of `Path`. "queued" stands for PROCESSING as well. Two attempts of one
document are told apart by the order in which they end. `start_background_scanning`,
which nothing calls, is left out.

### OcrResume

An attempt (`job`) runs on a thread of its own, so any two threads interleave
between any two requests and any two writes of files. Its phases are `ocr`
(requests are being sent), `cached` (the result is in the cache, the progress not yet
written) and `uncached` (the write of the result failed). `Serve` answers from the
cache; `Begin` resumes and renders; `Succeed`, `Fail`, `Unavailable` and
`ShortCircuit` end a request, where only a failure of the page itself is charged
to it; `Overtaken` is the check of the circuit that reads the time twice while
another thread closes it; `CannotStart` is the fallback to the text layer.

`blame` counts the failures of a page itself, whatever was recorded of
them; `torn` marks a document whose progress file is older than its cached
result, which happens when the process ends between the two writes.

Abstractions: a file does not change; unreadable cache and progress files and
a changed number of pages, all of which start over, are left out, as is the
disabled cache, which keeps nothing. A circuit is closed, open, or open with its
time over. The number of concurrent requests is not limited. Recording a
failure is one step although it writes two attributes.

### DocumentSearch

`pc` says which request the search awaits:

| `pc` | in the code |
|---|---|
| `ensure` | `ensure_keyword_indexes`, the first time in this generation |
| `scroll` | a page of `keyword_search` |
| `sources` | a page of `find_similar`'s own passages, with vectors |
| `queries` | a batch of grouped queries under way at once |
| `exists` | the check whether the document has any point |
| `hydrate` | the retrieval of the winners' payloads |
| `done` | the answer, before it is returned |

A search is bound to the generation that `Begin` resolves and takes no lock, so
`Upsert`, `Remove`, `DeleteDocument` and `Migrate` come between any two of its
requests. `Query` answers one query of a batch, in any order; `Merge` keeps the best
hits after a batch and goes on with the next batch, the next page, or the end
(`Proceed`). A page is cut by the number of points, a result by the number of
documents, which is what makes their interplay worth a proof. `touched` is a
history variable: the points of the search's generation written since it began.

One search at a time is modelled: searches only read, and the one thing they share
is `keywordIndexed`, with which a search may begin in any state. Equal scores come
in any order (`TopOf`). Contents are compared by a table `Score`, which need not be
symmetric. Left out: filters, evidence spans, the conversion of payloads, and what is
a single request to the library (hybrid search, the passages of a document).

### FileTools

A call is `waiting` for documents, `ready` (waiting for the collection lock) or
in `payload`, where it holds the lock with the file and the rows behind it. Only
`rename_directory` checks anything between the first two, so calls of the
other tools are `ready` from the start. `Execute` is everything between two awaits:
`shutil.move`, `update_paths_batch` and `update_document_roots_batch`, or
`store.update`. `Interrupted` is its failure, or the end of the process, after any of
these; `FailPayload` is a failure or cancellation after some of the requests to the
index. `Movable`, `Target` and `OnDisk` say what `shutil.move` does when its
destination exists or its parents do not. Files, other documents and
directories come and go meanwhile: registration, indexing, deletion, `mv` in a
shell, `create_directory` and `delete_directory`.

A directory's rewrite finds its documents in a listing of the collection
(`Listings`), for which the code leaves the library's cap on results in force
(indexer.py:1093; every other listing passes `max_results=0`). With more points than
`MaxResults` the listing is any `MaxResults` of them: a document is found if a point
with its path is listed (`Listed`), and `Found` gives the sets of documents a rewrite may
reach. Those it should have reached are recorded in `missed`, as those whose rewrite failed
are in `lagging`. `move_file` has its points selected by the server and misses none.

Abstractions: how long documents are waited for is left open, which includes every
behaviour of the processor. A document has `Points[d]` points whenever it has any, and all
other points (those of documents below no modelled path, and what deletions left) are `Others`. Document roots stay registered and do not nest.
`Source` restricts which directories calls name, `Fits` the depth of the tree. Names,
tags, statuses and the filename payload, which follows the path, are left out.

## Runs

| Run | Instance | Shows |
|---|---|---|
| `processor_safety` | 2 documents, 2 workers, 1 caller, 2 submissions, 1 end of the process, queue of 2, result cache of 1 | with everything users may do: PROCESSING rows and `in_progress` entries have their worker, eviction spares sleepers, and rows follow `DocumentLifecycle` |
| `processor_liveness` | 1 document, 2 workers, 2 callers, 2 submissions, 1 end of the process | settlement and wake-up, nobody stranded or left asleep, and the refinement of `WaitService` |
| `cancellation_sticks` | 1 document | violated, see Findings |
| `index_publication` | 2 documents, one of them edited, tagged and indexed by hand, 2 versions of 2 and 1 passages, 2 tag lists, 3 operations; edits are not bounded | the vocabulary, markers and bodies, repairs, and the refinement |
| `tags_certify_nothing` | 1 document | violated, see Findings |
| `chunker` | texts up to 10 characters, limits 1 to 8, overlaps 0 to 9 | lossless, bounded, and every passage brings new text |
| `document_scanner` | 2 files in one of 2 roots, 2 contents, 2 documents, 2 events | nothing present is deleted, everything found is covered or submitted, what is settled is indexed with its content |
| `restored_is_searchable` | the same | violated, see Findings |
| `ocr_resume` | documents of 2 pages and of 1, 2 threads, limits 1 and 2, 4 attempts, 2 faults | pages are given up on for their own failures only, none is sent twice, none is forgotten |
| `document_search` | 3 documents with 7 points, 62 indexes, 3 contents, 2 generations, 1 write, limits 1 and 2, pages of 2 matches or 3 passages, batches of 2 | no match is missed, rankings are exact, reports are true |
| `file_tools` | 1 document of 2 points, 2 other points, listings of 2, 2 calls, trees of 2 roots, 1 fault | rows, roots and points follow files, and content is lost to late moves only |
| `file_overwritten` | 2 documents, 2 calls, no fault | violated, see Findings |

Two documents with two workers and a result cache of one entry are where the
processor is hard: duplicate tasks, superseded attempts and shared `in_progress`
entries concern tasks of one document, eviction, the queue's capacity and the lock
need another. One caller is enough for eviction. The refinement of `WaitService` is
about several callers of one document, and is checked where the cache holds every document: two
callers and two workers share one event there, time out, return and join while attempts
overlap. It holds as well for two documents with a cache of two and with cancellation and
deletion, and fails, as `NoMissedSignal` does, for two callers and a cache of one entry,
because an eviction drops the reference count of a document whose callers are still
leaving (the theorems assume a cache that holds every document, and nothing about callers).
`MaxSubmissions` and `MaxCrashes` bound the exploration only; a second
crash meets the same registry states as the first, because a restart rewrites
every unfinished row.

Two documents are what a batch needs for one to be rolled back before the other
is vectorized, and what a forced rebuild needs to forget one. Two passages are
the fewest that can be mixed, and a second version with one passage leaves
a stale point. The first tag list shares a term with a passage and the second with
the other version, so a union that is taken apart wrongly shows in the counts.
Three operations cover an index, a change and a repair; what an operation leaves
behind is a state of points, rows and vocabulary that the next one starts from, and
nothing else is carried over but what a call of the tool read before. Two versions suffice
for a file that changes and comes back. Only one document is edited, tagged and asked for because the
operations treat the documents of a batch one after another; the proofs have none of
these bounds. The run has 2.5 million distinct states and takes about three minutes.

Two files and two contents are what a rename, a swap, a copy and a restored file
need; two documents what a duplicate needs. Two events are, for example, a file that
disappears and reappears, or a tool call that meets an edit; scans between and after
them are unlimited. The other root has no files and shows the turn from root to
root. With `RootOf <- MCTwoRoots`, a root for each file, and all sets of roots as
`Scans`, `DeletesOnlyMissing`, `ScanCovers` and `SettledIsCurrent` hold as well.

Two limits are needed because a restart may change the limit between two
attempts; four attempts are twice the larger limit, and two faults are an
interrupted write followed by another. Two threads contend for the circuit, and for
the lock of a file.

Seven points are a summary and four passages of one document, which are two pages, the
first of two batches, and passages of two others between them in the order of ids. One
write is enough to hide, to add and to change a point; `touched` makes every further write one that the
properties ask nothing of. Two generations show a migration under a running search, and the
first search after it.

Two calls are what a stale check needs, and one document is enough to see a row or its
points part from its file. With two documents and a single call (`Doc = {d1, d2}`,
`Call = {c1}`) the properties of `file_tools` hold as well, with `Others = 0`, where a listing
holds one document and not the other, or a point of each. A listing of two of four points shows some of
the one document of the run, or none. The run has 1.1 million distinct states. The trees allow a renaming
(`r/a` to `r/b`), a move to another root (to `s/a`), a destination that exists by
then (`r/b/a`), and the move of a whole root, which `move_directory` does not refuse.

In the liveness runs nothing is cancelled, deleted or rejected: in those cases
the code gives a caller no answer, or strands a row, as the findings show. The
fairness assumed is what the event loop gives: a coroutine that can run runs,
extraction and indexing end, a free lock is acquired, a stopping process exits
and a process is started again (the MCP client starts it on the next use).
Nothing is assumed of clients, timeouts or crashes, and a caller's timeout never
counts as its answer. That the chunker's
loop ends is a safety property (`LoopEnds`): it is never stuck, and every passage covers a
character that none before it did.

`CHECK_DEADLOCK` is off because the bounds let a system come to rest: every
document settled and no submission or call left, or the text cut.

## Findings

* **A cancelled document is processed** (`CancellationSticks`). The first
  `register_document` of a process commits the row, then starts the processor,
  whose recovery queues the document, and then queues it again. One marker
  cancels one of the two tasks; the other moves the row from CANCELLED to
  PROCESSING.
* **A tag change certifies an old body** (`TagsCertifyNothing`). Between a scan that
  registered a new hash and the re-indexing, refreshing the summary keeps
  the marker and puts the new hash into it. Normally the document is queued and
  indexed soon after; if the process ends before it is queued, the `index_all` of
  the next start takes the old body for the new one and skips the document,
  which without the tag change it would repair.
* **A restored document is not searchable** (`RestoredIsSearchable`). A file that
  one scan misses, so that its points are purged, and that reappears under another name is
  adopted by the next scan: its row is ACTIVE and still INDEXED, nothing is
  submitted, and it has no points. The same file under its old name is queued.
* **A move replaces a file** (`NothingOverwritten`). `move_file` checks its
  destination before it waits and never again. Of two calls to one free path, the second
  destroys the file of the first.

Seen with other constants, or stated in a module and not run:

* `NoneStranded` fails in the liveness run with `Cancellable = {d1}`: cancelling a
  document whose row is QUEUED but whose task is not in the queue yet leaves a
  marker that later eats the task of its next submission.
* `SettledIsAnswered` fails there with `PutTimesOut = TRUE`: a rejected `put` marks the row
  FAILED without caching a result or setting the event.
* `OnlyFailuresDrift` fails in `IndexPublication`: a forced `index_all` replaces the
  contribution by the EXTRACTED and INDEXED rows, so that a document that is
  queued, failed or cancelled keeps its points and loses its terms; and a tag change
  on an INDEXED row whose points a scan has purged stores a summary the
  contribution does not count.
* `ChangesAreNoticed` fails in `IndexPublication`: `index_document` promises a
  `SourceChangedError` if the source changed since its extraction (indexer.py:256), and index_all
  checks before and after it reads. A file that changes after the row was read, or
  after the first check, and is changed back before the next check is published with the text
  it held in between, under the hash it has now. `RepairsAreVerified`, which is checked, excuses
  this case and no other.
* `OnlyFailuresLag` fails in `FileTools`: the listing in which the rewrite of a directory looks for its
  documents (indexer.py:1093) is cut at the library's cap, the only one in the repository
  that does not pass `max_results=0`. Documents beyond it keep their old path in the index, and the tool
  reports success. `IndexFollowsRows`, which is checked, excuses the documents left out so (`missed`).
* `ProcessingOwned` fails in `ProcessorSafety.cfg` with `MaxQueue = 1`: recovery stops at the first document that
  does not fit the queue, and a row it did not reach says PROCESSING until the next
  start, with no worker behind it.
* `UnvisitedIsKept` fails in `DocumentScanner` with `RootOf <- MCTwoRoots`:
  `register_document` moves a row's path into another root but not its `document_root`, and
  the next scan of the old root deletes the live document.
* `ShownIsScored` fails in `DocumentSearch`: a winner that is replaced in place between
  the query and the hydration is shown with its new text beside its old similarity.
* `SleepersHaveWork` (in the proofs module) fails without its exception for deleted
  documents: with `Deletable = {d1}` in the liveness run's instance a worker that finds the
  row gone caches nothing, and whoever sleeps on the document sleeps until its timeout.
* `wait_for` may return None although its timeout has not expired, which its docstring
  (queue.py:491) gives as the meaning of None: a resubmission drops the cached result between
  the event and the caller that it woke, or a caller joins an event that was already set.
  `WaitService` says so: `Answer` returns the outcome as it is by then.
* A superseded attempt that fails caches `failed` over the outcome of the later one, although it
  leaves the row alone.
* A row that is MODIFIED with the hash of its file counts as "already enqueued"
  (scanner.py:333), so a submission that was lost is not repeated (`astray`).
* The extractor accepts a thin text layer although pages can still be retried, if an
  attempt cannot start or ends in the error of `Overtaken`; and after an end of the
  process between the two writes completed pages are sent again under a raised
  limit (`torn`).
* A directory moved to a destination that was created while the call waited ends up
  inside of it, while the rows name the destination itself (`Stale`). `move_file` finds
  its document by path only, which two rows may share by then.

## Proofs

All proofs are for any number of documents, workers, callers, submissions and
crashes.

* `TypeCorrect`: the type invariant is inductive.
* `ProcessingIsOwned`: from `MaxQueue >= Cardinality(Doc)`. `ProcessingOwned` is
  inductive with the type invariant. The interesting steps are `BeginAttempt`,
  which takes over the token from a worker that goes on running, and `Fail`,
  which must find its own token to change the row. The assumption is needed:
  recovery stops at the first document that does not fit and leaves the rest
  PROCESSING.
* `InProgressIsBacked`, `IndexedDocumentsExist`: inductive with the type
  invariant; the latter rests on the lock, on the recovery keeping rows and on
  no step but `Delete` removing one.
* `StaleAttemptsAreHarmless`: an action property, from the type invariant.
* `WaitersAreServed`: from `MaxCompleted >= Cardinality(Doc)`. `CallersAttached`
  and `NoMissedSignal` are inductive together: that the last caller to leave
  removes the event is safe because the count equals the number of parked
  callers, and signalling what is registered wakes all of them because they hold
  the registered event. With a smaller cache an eviction drops the count of a
  document whose callers are still leaving, which is why the theorem assumes it
  away and `processor_safety` looks at one caller.
* `EvictionIsHarmless`: for every size of the cache. `OrderInv` says that the cached
  documents are in a strict total order, so that by `FirstExists` there is an oldest
  one and what is evicted was cached; `CachedIsSignalled` says that the event registered
  for a cached document, if there is one, has been set. Together: an eviction takes
  signalled events only.
* `EventsAreBroadcasts`: that the processor implements `WaitService`, from
  `MaxCompleted >= Cardinality(Doc)`. Waking everybody and nobody else needs more than
  `CallersAttached`: a set event must not be registered for two documents, nor for one
  without callers, nor be set before the call that creates it is made (`EventInv`). Every
  step is then one of `WaitService` or a stutter; `Publish` of a worker and of `cancel` is the one
  with content, because the event it sets is held by exactly the sleepers of the document.
  The assumption is the one of `WaitersAreServed`, and needed for the same reason.
* `RowsFollowTheirLifecycle`: that the processor implements `DocumentLifecycle`, without any
  assumption. It rests on `IndexingHasRow` and on `BacklogHasRow`: what the startup
  indexes was selected under the lock and still has its row. Two listed theorems are instances
  of it that are worth reading by themselves: `IndexedDocumentsExist` and
  `StaleAttemptsAreHarmless`.
* `NothingIsStranded`: from `Cancellable = {}` and `MaxQueue >= Cardinality(Doc)`. A row
  that says QUEUED has a submission, a blocked put or a task (`QueuedInv`, where no
  marker ever exists), and a row that says PROCESSING has a worker
  (`ProcessingOwned`). Both assumptions are needed, see Findings and `ProcessingIsOwned`.
* `NobodyWaitsInVain`: from `~PutTimesOut`, `Cancellable = {}` and
  `MaxCompleted >= Cardinality(Doc)`. Nobody is parked before the process is ready
  (`AnswerInv`), every step but the end of a task keeps a settled document in or out of
  the pipeline (`PipelineKept`), and the end of a task sets the event all callers of its
  document hold, which is `CallersAttached` again; a caller that parks on a
  settled document does so for an `in_progress` entry, behind which there is a worker
  (`InProgressBacked`).
* `OnlyDeletionAbandons`: from all of these assumptions. The two theorems before it together leave a
  single way in which a caller sleeps and nobody is left to wake it: its document was
  deleted (queue.py:894).

For the chunker, for every length, limit, overlap and set of boundaries:

* `TypeCorrect`, `ChunksAreLossless`, `ChunksBringNewText`, `ChunksAreBounded`: from an
  invariant that ties the last passage to the loop's variables (`start` at most a
  quarter of the limit behind `covered`, and beyond the start of the last passage).
* `LoopEnds`: while the loop runs it can cut, because a set of boundaries that is not empty
  has a last one (`GreatestExists`), and every passage covers a character of its own
  (`ShortInv`), so there are at most as many passages as characters. This is the
  loop's termination, stated without fairness.

For the index, again for any numbers of documents, versions, passages, terms
and operations:

* `TypeCorrect`: with `OperationOK`, which says how the variables of an operation go
  together.
* `MarkedBodiesAreWhole`: from `WholeInv`. While passages are written the marker
  is off and the passages before `slot` are of the new version; after the stale
  ones are removed the body is whole. Every other step leaves
  marked bodies alone.
* `PublicationRefined`: `Shown` maps points to the abstract state. The only lemma
  with content is that a step which touches one document either keeps a marked
  body, marks a whole one that was not marked, or leaves it unmarked; `WholeInv`
  gives the middle case.
* `RepairsVerified`: from `ReadingInv`, before the lock, and `VerifiedInv`, under it. A file is read after the hash is known that it is
  going to be compared with, so if it differs at the comparison nothing is published, and
  if it does not, what was read is that version or the file came back to it since
  (`back`, or the reading's own). The registered hash changes only while no operation runs, so what was
  verified still holds at publication.
* `ContributionExact`, `TermsAreKnown`: from `AccountInv`. A document whose delta is
  applied but whose points are not yet published is *owed* its new terms, every
  other document its stored ones; the counts are the tally of what is owed. A
  registration moves documents from stored to owed, a publication makes
  the owed terms the stored ones, a repair moves one document back. Each of these
  is an instance of `SwitchTally`: replacing the terms of some
  documents by a delta, floored subtraction included, turns one tally into the
  other. The assumption `drift = "none"` is in the statement, not in the proof: a
  forced rebuild restores exactness from any state when it selects every stored
  document (`BalanceAnew`).

For the scanner, for any number of files, roots, contents, documents and events:

* `TypeCorrect`: with `Phases`, which says which variables of a scan are in use when,
  and that baseline documents keep their rows while a scan holds the lock.
* `ContentsUnique`: `HashUnique` is inductive with the type invariant. Most steps keep
  all hashes or take one away (`MostStepsKeep`); a modified file takes a new one
  only if `StoredHash` finds no other owner (`ModifiedKeepsUnique`), and a new row
  is only inserted for a hash without one (`NewRowKeepsUnique`).
* `DeletionsAreDue`: from `WalkInv`. The rows of the root that is scanned stay where they are
  while the lock is held (`Held`), a steady file that is no longer to be visited has been
  seen (`Visited`), and the sweep deletes only what a complete walk has not seen (`Swept`).
* `OneRootKeepsUnvisited`: what scanner.py:61 says of documents that were not visited holds
  without exception where all files are in one root. `PlacedInv`: a row that names a
  root names the one its path is in, because an adoption takes the root that is walked and a
  registration, which leaves the root alone, cannot leave it. With two roots it fails (see Findings),
  so the assumption is needed.
* `LiveHavePoints`: from `HollowInv`. A row comes to say INDEXED together with its points;
  points go in a purge, whose document is deleted until it is over (`Purged`); and what
  makes such a document live again either queues it or is recorded in `bare`.
* `SettledHasRegistered`: from `CurrentInv`. A document that did not go astray is still to be
  submitted or extracted (`Requested`), or its only attempt read the content that is
  registered (`Attempted`), or no attempt runs and its points hold that content
  (`Finished`). An attempt that read something else, or overlaps another, puts
  the document into `astray`.
* `ScansCover`, `ScansAreIdempotent`: from `CoverInv`. In a complete walk over steady files,
  each file the walk is done with has a content that some row holds, and that row is safe
  from the sweep (`Safe`: its path was seen or is still to be) or the path is about to be
  submitted (`Covered`). A step that takes a content from a row either records it in
  `missed` or finds the file that now has it covered.

For the OCR of documents, for any number of files, pages, threads, limits and faults:

* `TypeCorrect`, `GivenUpEarned`, `SentOnce` and `PagesKept` come from one invariant, `OcrInv`:
  the types; that attempts on a file take turns, because its lock is held
  (`TakeTurns`); what a running attempt owes to the files it began with (`JobInv`); and
  what files owe to the past (`FileInv`).
* `GivenUpEarned`: what is recorded against a page, in the progress file or in a running
  attempt, is never more than `blame` (`Owed`).
* `SentOnce`, `PagesKept`: the progress file has every page the cache has, or the document is
  `torn`; an attempt begins with all pages on disk and adds to them, so that no
  write of its replaces more with less.

For searches, for any index, limits and sizes of pages and batches:

* `TypeCorrect`: with `Control`, which says what each request a search awaits goes with.
* `KeywordComplete`: from `KeywordInv`. The document of every untouched match behind the cursor
  has been found. A page that does not fill the limit is taken whole, and the next one
  begins at the least id it left (`LeastElement`), whatever is written in between.
* `RankingExact`: from `RankInv`. The best of a union are the best of the bests of its parts
  (`TopOfTops`), so cutting after every batch and page loses nothing of the ranking: while
  nothing is touched, the hits kept are the best of the pairs of the passages that were
  queried.
* `ReportsTrue`: from `ReportInv`. An untouched passage of the source behind the cursor was
  found, hits were there unless they were touched, and a query without a hit had
  no untouched passage of another document to find.

For the file tools, for any tree, number of documents and calls:

* `TypeCorrect`: from `FileInv`, below, and `TreeInv`: what exists is in directories that
  exist. Everything above something that exists exists too (`Ancestors`): otherwise
  the longest missing path above it (`LeastElement`) would have a child that exists. A
  directory that moves takes what is below it along under the same rest of the path
  (`MovedParent`), and the parents its copy creates lie in a root or above one (`UpToTarget`).
* `RowsAgree`: from `TreeInv`. A call whose checks still hold when it acts moves a file that is
  the one of the row to a path without a file, or a directory to one that does
  not exist, so by `Ancestors` no file was below it: the rows whose prefix changes are those
  of the files that moved.
* `OverwritesHappenLate`: content that a step removes is that of a file at the destination of a
  `move_file` call that had found no file there. A directory replaces nothing
  (`DirectorySaves`): where it ends up did not exist, so by `Ancestors` no file was below, and
  every file it holds has its place there.
* `IndexAgrees`: a payload parts from its row only under the lock, where the call that holds
  it still has to rewrite that document (`Rewriting`); a release of the lock finds none
  left, or records in `lagging` those a failure left and in `missed` those the listing did.
* `WholeListingsSuffice`: from `PointsFit`, that the points of all documents together with `Others` are no more than
  `MaxResults`. Then the listing is everything stored (`ListingsWhole`), every concerned document is found
  (`AllFound`), and `missed` stays empty, so `OnlyFailuresLag` holds.
* `RootsAgree`: from lemmas on paths (a prefix of a prefix is a prefix, and replacing a
  prefix keeps what follows it): a move rewrites root and path alike, or takes both from
  the destination.

The assumptions on constants are named in the modules and evaluated by TLC on every run:
sets of documents, callers and pages are finite, limits are not zero, and `None`
is none of the values it stands in for.

Model-checked only: the liveness properties `EveryDocumentSettles` and `CallersWake`
(temporal logic with fairness is out of the prover's reach) and the violations of
`CancellationSticks`, `TagsCertifyNothing`, `RestoredIsSearchable` and
`NothingOverwritten`, which no theorem can state because the code does not have them. Every
invariant and every other action or refinement property of the passing runs is a theorem.
`NoMissedSignal`, `IndexingHasRow` and `StaleAttemptsCannotFail` are theorems that
no run checks by themselves, because the refinements that a run checks imply them where they hold.

Not modelled: extractors and rendering (conversions by libraries), hybrid search and
the passages of a document (one request to the library each), the glossary and the hash
API (thin wrappers around the vector-core library), settings and wiring.

## Plan

What is left, in this order:

1. The removal of a document from the queue by a scan.
2. An abstract specification of what is kept of an OCR across attempts (pages done, pages
   given up on), which `NeverResent`, `NothingForgotten` and `GivenUpIsEarned` state one by one.
3. Roots that are added, removed and nested while the file tools run, and
   the removal of a root with its documents.
4. The extractor's choice between text layer and OCR when an attempt ends early, once
   the code promises one of the outcomes.

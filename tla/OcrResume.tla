----------------------------- MODULE OcrResume ------------------------------
(***************************************************************************)
(* OCR of scanned documents that takes several attempts: _resume_ocr of    *)
(* extraction/ocr.py with the two files it keeps per document, the circuit *)
(* breaker of extraction/vision_client.py that all extractions share, and  *)
(* what extraction/extractor.py makes of the outcome.  Every attempt runs  *)
(* on a thread of its own, so threads interleave between any two requests  *)
(* and any two writes, and the process may end there.                      *)
(***************************************************************************)
EXTENDS Naturals, FiniteSets

CONSTANTS File,        \* scanned documents, unchanged on disk
          Page,        \* page numbers
          Pages,       \* the pages of a file
          Layered,     \* files with some words in their text layer
          Legacy,      \* files that an older version may have cached
          Thread,      \* extraction workers
          Limits,      \* values of DOCS_OCR_MAX_PAGE_ATTEMPTS, changed by a restart
          MaxFailures, \* VisionOCRClient._max_failures
          MaxAttempts, \* bound: attempts that are not served from the cache
          MaxFaults,   \* bound: writes and readings that fail, and ends of the process
          None         \* no file, attempt, text or time

ASSUME PagesAssumption == IsFiniteSet(Page) /\ Pages \in [File -> (SUBSET Page) \ {{}}]
ASSUME LimitsAssumption == /\ Limits \subseteq Nat \ {0}
                           /\ \E m \in Limits : \A l \in Limits : l <= m
ASSUME FailuresAssumption == MaxFailures \in Nat \ {0}
ASSUME BoundAssumption == MaxAttempts \in Nat /\ MaxFaults \in Nat

\* A result in the cache: the pages that have text, the attempts its other
\* pages used, if it says so, and whether its text can be split into pages.
Cached == [done : SUBSET Page, spent : Nat \cup {None}, parses : BOOLEAN]
\* Saved progress: attempts are the failures charged to a page.
Progress == [done : SUBSET Page, tries : [Page -> Nat]]
\* An attempt that holds the file's lock: its progress, the rendered pages it
\* has still to send, and those it has sent.
Attempt == [file : File, phase : {"ocr", "cached", "uncached"}, done : SUBSET Page,
            tries : [Page -> Nat], todo : SUBSET Page, sent : SUBSET Page]
\* Text the extractor accepted: of the text layer, or of some of the pages
\* under the limit of that time.
Thin == [kind |-> "layer", pages |-> {}, limit |-> 1]
Text == {Thin} \cup [kind : {"ocr"}, pages : SUBSET Page, limit : Limits]

ASSUME NoneAssumption == None \notin Nat \cup Cached \cup Progress \cup Attempt \cup Text

VARIABLES
  cached,   \* the cache file of a document
  saved,    \* its progress file
  job,      \* the attempt a thread is in
  failures, \* failures of requests in a row, counted up to MaxFailures
  circuit,  \* _circuit_open_until: None, or a time ahead ("open") or past ("over")
  limit,    \* settings.ocr_max_page_attempts
  text,     \* what the last attempt on a document yielded
  attempts, faults,
  blame,    \* history: failures of a page itself, as many as the limits tell apart
  torn      \* history: the progress file is older than the result in the cache

breaker == <<failures, circuit>>
events == <<attempts, faults>>
vars == <<cached, saved, job, breaker, limit, text, events, blame, torn>>

-----------------------------------------------------------------------------
Fresh == [done |-> {}, tries |-> [p \in Page |-> 0]]

\* _OCRProgress.pending.  Fault: completed pages are not left out.
PendingAgain(f, w) == {p \in Pages[f] : w.tries[p] < limit}
Pending(f, w) == {p \in Pages[f] \ w.done : w.tries[p] < limit}

NoFault == UNCHANGED events
Fault == faults < MaxFaults /\ faults' = faults + 1 /\ UNCHANGED attempts

\* Fault: attempts on a file do not take turns.
NoLock(f) == TRUE

\* file_lock on the cache file
Unlocked(f) == \A t \in Thread : job[t] # None => job[t].file # f

Init ==
  /\ \/ cached = [f \in File |-> None]
     \* Older versions cached whatever a single pass yielded, without counts.
     \/ \E b \in BOOLEAN : cached \in
          [File -> [done : SUBSET Page, spent : {None}, parses : {b}] \cup {None}]
  /\ \A f \in File : cached[f] # None => f \in Legacy /\ cached[f].done \subseteq Pages[f]
  /\ saved = [f \in File |-> None]
  /\ job = [t \in Thread |-> None]
  /\ failures = 0 /\ circuit = None
  /\ limit \in Limits
  /\ text = [f \in File |-> None]
  /\ attempts = 0 /\ faults = 0
  /\ blame = [f \in File |-> [p \in Page |-> 0]]
  /\ torn = [f \in File |-> FALSE]

-----------------------------------------------------------------------------
(* The start of an attempt. *)

Complete(f, c) == c.done = Pages[f]
Final(f, c) == \/ Complete(f, c)
               \/ c.spent # None /\ c.spent >= limit /\ c.done # {}

\* An OCR result of the pages D is accepted if it has more words than the layer.
OcrText(D) == [kind |-> "ocr", pages |-> D, limit |-> limit]
Accepted(f, D) == {OcrText(D)} \cup (IF f \in Layered THEN {Thin} ELSE {})

Serve(t, f) ==
  /\ job[t] = None /\ Unlocked(f) /\ cached[f] # None /\ Final(f, cached[f])
  /\ \E x \in Accepted(f, cached[f].done) : text' = [text EXCEPT ![f] = x]
  /\ UNCHANGED <<cached, saved, job, breaker, limit, events, blame, torn>>

Spent(c, f) == [p \in Page |->
                 IF p \in Pages[f] \ c.done /\ c.spent # None THEN c.spent ELSE 0]

\* _progress_from_cached, on a result that has failed pages
Recovered(f) ==
  LET c == cached[f]
  IN IF c = None \/ ~c.parses THEN Fresh
     ELSE [done |-> c.done, tries |-> Spent(c, f)]

Resumed(f) == IF saved[f] # None THEN saved[f] ELSE Recovered(f)

\* A failure of page p for p in D, capped where the limits stop counting.
MaxLimit == CHOOSE m \in Limits : \A l \in Limits : l <= m
Blamed(f, D) == [blame EXCEPT ![f] = [p \in Page |->
                  IF p \in D /\ @[p] < MaxLimit THEN @[p] + 1 ELSE @[p]]]
Charged(tries, D) == [p \in Page |-> IF p \in D THEN tries[p] + 1 ELSE tries[p]]

\* _render_pages: any of the pages may have no image
Rendered(D) == SUBSET D

\* The pending pages are rendered; those without an image are charged.
Begin(t, f) ==
  LET w == Resumed(f)
  IN /\ job[t] = None /\ Unlocked(f) /\ (cached[f] # None => ~Final(f, cached[f]))
     /\ \E images \in Rendered(Pending(f, w)) :
          LET lost == Pending(f, w) \ images
          IN /\ job' = [job EXCEPT ![t] =
                  [file |-> f, phase |-> "ocr", done |-> w.done,
                   tries |-> Charged(w.tries, lost), todo |-> images, sent |-> {}]]
             /\ blame' = Blamed(f, lost)
     /\ text' = [text EXCEPT ![f] = None]
     /\ attempts < MaxAttempts /\ attempts' = attempts + 1
     /\ UNCHANGED <<cached, saved, breaker, limit, faults, torn>>

\* The text layer if it has words, else an error.
Fallback(f) == IF f \in Layered THEN Thin ELSE None

\* The file, the number of its pages or an image cannot be read.
CannotStart(t, f) ==
  /\ job[t] = None /\ Fault
  /\ text' = [text EXCEPT ![f] = Fallback(f)]
  /\ UNCHANGED <<cached, saved, job, breaker, limit, blame, torn>>

-----------------------------------------------------------------------------
(* Requests, and the circuit breaker. *)

Sending(j, p) == [j EXCEPT !.todo = @ \ {p}, !.sent = @ \cup {p}]
Dropped(j, p) == [j EXCEPT !.todo = @ \ {p}, !.sent = @ \ {p}]
Read(j, p) == [Dropped(j, p) EXCEPT !.done = @ \cup {p}, !.tries[p] = 0]
Refused(j, p) == [Dropped(j, p) EXCEPT !.tries = Charged(@, {p})]

\* _record_failure, n times
RecordFailures(n, count, until) ==
  LET reached == count + n >= MaxFailures
  IN /\ failures' = IF reached THEN MaxFailures ELSE count + n
     /\ circuit' = IF n > 0 /\ reached THEN "open" ELSE until

CloseCircuit == failures' = 0 /\ circuit' = None

Send(t, p) ==
  /\ job[t] # None /\ p \in job[t].todo /\ circuit # "open"
  /\ job' = [job EXCEPT ![t] = Sending(@, p)]
  /\ IF circuit = "over" THEN CloseCircuit ELSE UNCHANGED breaker
  /\ UNCHANGED <<cached, saved, limit, text, events, blame, torn>>

\* An open circuit says nothing about the page.
ShortCircuit(t, p) ==
  /\ job[t] # None /\ p \in job[t].todo /\ circuit = "open"
  /\ job' = [job EXCEPT ![t] = Dropped(@, p)]
  /\ UNCHANGED <<cached, saved, breaker, limit, text, events, blame, torn>>

\* A success closes the circuit, whenever it was opened.
Succeed(t, p) ==
  /\ job[t] # None /\ p \in job[t].sent
  /\ job' = [job EXCEPT ![t] = Read(@, p)]
  /\ CloseCircuit
  /\ UNCHANGED <<cached, saved, limit, text, events, blame, torn>>

\* Fault: an outage uses up an attempt of the page.
ChargedOutage(t, p) ==
  /\ job[t] # None /\ p \in job[t].sent
  /\ job' = [job EXCEPT ![t] = Refused(@, p)]
  /\ RecordFailures(1, failures, circuit)
  /\ UNCHANGED <<cached, saved, limit, text, events, blame, torn>>

Unavailable(t, p) ==
  /\ job[t] # None /\ p \in job[t].sent
  /\ job' = [job EXCEPT ![t] = Dropped(@, p)]
  /\ RecordFailures(1, failures, circuit)
  /\ UNCHANGED <<cached, saved, limit, text, events, blame, torn>>

Fail(t, p) ==
  /\ job[t] # None /\ p \in job[t].sent
  /\ job' = [job EXCEPT ![t] = Refused(@, p)]
  /\ blame' = Blamed(job[t].file, {p})
  /\ RecordFailures(1, failures, circuit)
  /\ UNCHANGED <<cached, saved, limit, text, events, torn>>

CoolDown ==
  /\ circuit = "open" /\ circuit' = "over"
  /\ UNCHANGED <<cached, saved, job, failures, limit, text, events, blame, torn>>

\* _check_circuit_breaker reads the time twice.  If another thread closes the
\* circuit in between, it raises a TypeError, which ends the attempt; requests
\* that are under way are cancelled, or fail with the client.
Overtaken(t, p, u, q) ==
  /\ u # t /\ job[t] # None /\ job[u] # None /\ p \in job[t].todo /\ circuit # None
  /\ \/ /\ circuit = "over" /\ q \in job[u].todo
        /\ job' = [job EXCEPT ![t] = None, ![u] = Sending(@, q)]
     \/ /\ q \in job[u].sent
        /\ job' = [job EXCEPT ![t] = None, ![u] = Read(@, q)]
  /\ \E n \in 0..Cardinality(job[t].sent) : RecordFailures(n, 0, None)
  /\ text' = [text EXCEPT ![job[t].file] = Fallback(job[t].file)]
  /\ UNCHANGED <<cached, saved, limit, events, blame, torn>>

-----------------------------------------------------------------------------
(* The end of an attempt.  Each write may fail, leaving the file as it was. *)

Answered(t) == job[t] # None /\ job[t].phase = "ocr" /\ job[t].todo = {} /\ job[t].sent = {}
Reached(j) == [done |-> j.done, tries |-> j.tries]
SavesProgress(f, w) == \/ NoFault /\ saved' = [saved EXCEPT ![f] = w]
                       \/ Fault /\ saved' = saved

\* Pages remain: IncompleteOCRError, whether or not the progress was saved.
SaveIncomplete(t) ==
  LET j == job[t]
  IN /\ Answered(t) /\ Pending(j.file, j) # {}
     /\ SavesProgress(j.file, Reached(j))
     /\ job' = [job EXCEPT ![t] = None]
     /\ UNCHANGED <<cached, breaker, limit, text, blame, torn>>

\* A result of placeholders only is neither cached nor accepted.
RejectEmpty(t) ==
  LET j == job[t]
  IN /\ Answered(t) /\ Pending(j.file, j) = {} /\ j.done = {}
     /\ SavesProgress(j.file, None)
     /\ text' = [text EXCEPT ![j.file] = Fallback(j.file)]
     /\ job' = [job EXCEPT ![t] = None]
     /\ UNCHANGED <<cached, breaker, limit, blame, torn>>

\* The fewest attempts one of the pages D used
Fewest(tries, D) == CHOOSE n \in {tries[p] : p \in D} : \A p \in D : n <= tries[p]

Result(f, j, b) == [done |-> j.done, parses |-> b \/ j.done = Pages[f],
                 spent |-> IF j.done = Pages[f] THEN None
                           ELSE Fewest(j.tries, Pages[f] \ j.done)]

SaveToCache(t) ==
  LET j == job[t]
      f == j.file
  IN /\ Answered(t) /\ Pending(f, j) = {} /\ j.done # {}
     /\ \/ /\ Fault /\ job' = [job EXCEPT ![t].phase = "uncached"]
           /\ UNCHANGED <<cached, torn>>
        \/ /\ NoFault /\ job' = [job EXCEPT ![t].phase = "cached"]
           /\ \E b \in BOOLEAN : cached' = [cached EXCEPT ![f] = Result(f, j, b)]
           /\ torn' = [torn EXCEPT ![f] = saved[f] # None]
     /\ UNCHANGED <<saved, breaker, limit, text, blame>>

\* Fault: progress is removed although the result was not cached.
DroppedProgress(j) == IF j.done = Pages[j.file] THEN None ELSE Reached(j)

\* A complete result that is cached needs no progress; any other keeps it.
FinalProgress(j) ==
  IF j.phase = "cached" /\ j.done = Pages[j.file] THEN None ELSE Reached(j)

Finish(t) ==
  LET j == job[t]
      f == j.file
  IN /\ job[t] # None /\ j.phase # "ocr"
     /\ SavesProgress(f, FinalProgress(j))
     /\ torn' = [torn EXCEPT ![f] = @ /\ (saved' = saved \/ j.phase = "uncached")]
     /\ \E x \in Accepted(f, j.done) : text' = [text EXCEPT ![f] = x]
     /\ job' = [job EXCEPT ![t] = None]
     /\ UNCHANGED <<cached, breaker, limit, blame>>

\* The process ends, and the next one may have another limit.
Restart ==
  /\ Fault
  /\ job' = [t \in Thread |-> None]
  /\ failures' = 0 /\ circuit' = None
  /\ limit' \in Limits
  /\ UNCHANGED <<cached, saved, text, blame, torn>>

Answer(t, p) == Succeed(t, p) \/ Unavailable(t, p) \/ Fail(t, p)

Advance(t) ==
  \/ \E p \in Page : Send(t, p) \/ ShortCircuit(t, p) \/ Answer(t, p)
  \/ SaveIncomplete(t) \/ RejectEmpty(t) \/ SaveToCache(t) \/ Finish(t)

Next ==
  \/ \E t \in Thread, f \in File : Serve(t, f) \/ Begin(t, f) \/ CannotStart(t, f)
  \/ \E t \in Thread : Advance(t)
  \/ \E t, u \in Thread, p, q \in Page : Overtaken(t, p, u, q)
  \/ CoolDown \/ Restart

Spec == Init /\ [][Next]_vars

-----------------------------------------------------------------------------
(* Properties. *)

\* Every variable has its type, and an attempt is on pages of its file.
TypeOK ==
  /\ cached \in [File -> Cached \cup {None}]
  /\ saved \in [File -> Progress \cup {None}]
  /\ job \in [Thread -> Attempt \cup {None}]
  /\ failures \in 0..MaxFailures /\ circuit \in {None, "open", "over"}
  /\ limit \in Limits
  /\ text \in [File -> Text \cup {None}]
  /\ blame \in [File -> [Page -> Nat]]
  /\ torn \in [File -> BOOLEAN]
  /\ \A t \in Thread : job[t] # None =>
       job[t].todo \cup job[t].sent \subseteq Pages[job[t].file]
         /\ job[t].todo \cap (job[t].done \cup job[t].sent) = {}

\* A page is given up on, in the cache as in an accepted text, only after it has
\* itself failed as often as that says: outages, open circuits, lost progress
\* and restarts under another limit are not held against it.  No text is
\* accepted without a completed page, though that page may be blank.
GivenUpIsEarned ==
  \A f \in File :
    /\ cached[f] # None /\ cached[f].spent # None =>
         \A p \in Pages[f] \ cached[f].done : blame[f][p] >= cached[f].spent
    /\ text[f] # None /\ text[f] # Thin =>
         /\ text[f].pages # {}
         /\ \A p \in Pages[f] \ text[f].pages : blame[f][p] >= text[f].limit

Sends(t, p) == /\ job[t] # None /\ p \notin job[t].sent
               /\ job'[t] # None /\ p \in job'[t].sent

\* The cached pages another attempt can take over
Usable(f) == IF cached[f] # None /\ cached[f].parses /\ ~torn[f] THEN cached[f].done ELSE {}
Kept(f) == Usable(f) \cup (IF saved[f] # None THEN saved[f].done ELSE {})

\* "sending the completed ones again" (CHANGELOG.md:56) does not happen: a page
\* whose text is in a file on disk is never sent, unless the text of the cache
\* cannot be split, or its result was cached and its progress then not saved.
NeverResent == [][\A t \in Thread, p \in Page : Sends(t, p) => p \notin Kept(job[t].file)]_vars

\* A page whose text is on disk stays there, with the same exceptions: failed
\* writes, other attempts and the end of the process at any write lose none.
NothingForgotten ==
  [][\A f \in File : cached'[f] = cached[f] \/ cached'[f].parses => Kept(f) \subseteq Kept(f)']_vars
=============================================================================

-------------------------- MODULE OcrResumeProofs ---------------------------
(***************************************************************************)
(* What OcrResume promises, for every number of files, pages and threads,  *)
(* every limit and any number of failed writes and ends of the process.    *)
(***************************************************************************)
EXTENDS OcrResume, LeastElement

\* A page's failures, while the limits tell them apart, are all its own.
Owed(f, tries) == \A p \in Page : tries[p] <= blame[f][p]

\* An attempt has what was on disk when it began and is sent nothing again; what
\* it may still send is under the limit.  When it stores its result, nothing is.
JobInv(t) ==
  LET j == job[t]
      f == j.file
  IN job[t] # None =>
       /\ j.done \cup j.todo \cup j.sent \subseteq Pages[f]
       /\ j.done \cap (j.todo \cup j.sent) = {} /\ j.todo \cap j.sent = {}
       /\ Owed(f, j.tries)
       /\ \A p \in j.todo \cup j.sent : j.tries[p] < limit
       /\ Kept(f) \subseteq j.done
       /\ j.phase # "ocr" =>
            j.todo = {} /\ j.sent = {} /\ j.done # {} /\ Pending(f, j) = {}
       /\ j.phase = "cached" =>
            /\ cached[f] # None /\ cached[f].done = j.done
            /\ j.done = Pages[f] => cached[f].parses
            /\ torn[f] <=> saved[f] # None

\* Progress on disk has what the cache has, or it is torn from it.
FileInv(f) ==
  /\ cached[f] # None =>
       /\ cached[f].done \subseteq Pages[f]
       /\ cached[f].spent # None =>
            \A p \in Pages[f] \ cached[f].done : cached[f].spent <= blame[f][p]
  /\ saved[f] # None => /\ saved[f].done \subseteq Pages[f]
                        /\ Owed(f, saved[f].tries)
                        /\ Usable(f) \subseteq saved[f].done
  /\ text[f] # None /\ text[f] # Thin =>
       /\ text[f].pages # {}
       /\ \A p \in Pages[f] \ text[f].pages : text[f].limit <= blame[f][p]

TakeTurns == \A t, u \in Thread :
  t # u /\ job[t] # None /\ job[u] # None => job[t].file # job[u].file

OcrInv ==
  /\ TypeOK
  /\ TakeTurns
  /\ \A t \in Thread : JobInv(t)
  /\ \A f \in File : FileInv(f)

-----------------------------------------------------------------------------
(* Limits, attempts and failures. *)

LEMMA MaxLimitIs == MaxLimit \in Nat /\ \A l \in Limits : l <= MaxLimit
  BY LimitsAssumption DEF MaxLimit

\* The fewest attempts of some pages is a number none of them is below.
LEMMA FewestIs ==
  ASSUME NEW tries \in [Page -> Nat], NEW D \in SUBSET Page, D # {}
  PROVE  Fewest(tries, D) \in Nat /\ \A p \in D : Fewest(tries, D) <= tries[p]
<1> DEFINE T == {tries[p] : p \in D}
           g == [p \in D |-> tries[p]]
<1>1. IsFiniteSet(D)
  BY PagesAssumption, FS_Subset
<1>2. g \in Surjection(D, T)
  BY DEF Surjection
<1>3. IsFiniteSet(T)
  BY <1>1, <1>2, FS_Surjection
<1>4. T \in SUBSET Nat /\ T # {}
  OBVIOUS
<1>5. PICK n \in T : \A x \in T : n <= x
  <2> HIDE DEF T
  <2> QED BY <1>3, <1>4, LeastExists
<1>6. n \in Nat /\ \A p \in D : n <= tries[p]
  BY <1>4, <1>5
<1>7. Fewest(tries, D) \in T /\ \A p \in D : Fewest(tries, D) <= tries[p]
  BY <1>5, <1>6 DEF Fewest
<1>8. QED
  BY <1>4, <1>7

\* A failure is charged to a page that is under the limit and blamed on it.
LEMMA BlamedIs ==
  ASSUME TypeOK, NEW f \in File, NEW D \in SUBSET Page
  PROVE  /\ Blamed(f, D) \in [File -> [Page -> Nat]]
         /\ \A g \in File, p \in Page : blame[g][p] <= Blamed(f, D)[g][p]
         /\ \A p \in D, n \in Nat : n <= blame[f][p] /\ n < MaxLimit => n + 1 <= Blamed(f, D)[f][p]
<1>1. /\ blame \in [File -> [Page -> Nat]]
      /\ \A g \in File : blame[g] \in [Page -> Nat]
      /\ \A g \in File, p \in Page : blame[g][p] \in Nat
  BY DEF TypeOK
<1> DEFINE new == [p \in Page |-> IF p \in D /\ blame[f][p] < MaxLimit THEN blame[f][p] + 1 ELSE blame[f][p]]
<1>2. new \in [Page -> Nat]
  BY <1>1
<1>3. Blamed(f, D) = [blame EXCEPT ![f] = new]
  BY DEF Blamed
<1>4. \A p \in Page : new[p] = IF p \in D /\ blame[f][p] < MaxLimit THEN blame[f][p] + 1 ELSE blame[f][p]
  OBVIOUS
<1> HIDE DEF new
<1>5. /\ Blamed(f, D) \in [File -> [Page -> Nat]]
      /\ \A g \in File : Blamed(f, D)[g] = IF g = f THEN new ELSE blame[g]
  BY <1>1, <1>2, <1>3
<1>6. \A g \in File, p \in Page : blame[g][p] <= Blamed(f, D)[g][p]
  BY <1>1, <1>4, <1>5
<1>7. \A p \in D, n \in Nat : n <= blame[f][p] /\ n < MaxLimit => n + 1 <= Blamed(f, D)[f][p]
  BY <1>1, <1>4, <1>5, MaxLimitIs
<1>8. QED
  BY <1>5, <1>6, <1>7

BlameGrows == \A f \in File, p \in Page : blame[f][p] <= blame'[f][p]
StillOwed(f, tries) == \A p \in Page : tries[p] <= blame'[f][p]
SameFile(f) == cached'[f] = cached[f] /\ saved'[f] = saved[f] /\ torn'[f] = torn[f]

LEMMA OwedGrows ==
  ASSUME TypeOK, TypeOK', BlameGrows, NEW f \in File, NEW tries \in [Page -> Nat], Owed(f, tries)
  PROVE  StillOwed(f, tries)
<1>1. \A p \in Page : blame[f][p] \in Nat /\ blame'[f][p] \in Nat
  BY DEF TypeOK
<1>2. QED
  BY <1>1 DEF Owed, StillOwed, BlameGrows

LEMMA AttemptType ==
  ASSUME TypeOK, NEW t \in Thread, job[t] # None
  PROVE  /\ job[t] \in Attempt /\ job[t].file \in File /\ job[t].tries \in [Page -> Nat]
         /\ job[t].done \in SUBSET Page /\ job[t].todo \in SUBSET Page /\ job[t].sent \in SUBSET Page
         /\ job[t].phase \in {"ocr", "cached", "uncached"}
<1>1. job[t] \in Attempt
  BY DEF TypeOK
<1>2. QED
  BY <1>1 DEF Attempt

\* An attempt is not touched by what happens to other files.
LEMMA JobKept ==
  ASSUME TypeOK, TypeOK', NEW t \in Thread, JobInv(t), job'[t] = job[t], job[t] # None,
         SameFile(job[t].file), limit' = limit, BlameGrows
  PROVE  JobInv(t)'
<1> DEFINE j == job[t]
           f == j.file
<1>1. f \in File /\ j.tries \in [Page -> Nat]
  BY AttemptType
<1>2. StillOwed(f, j.tries)
  BY <1>1, OwedGrows DEF JobInv
<1>3. Kept(f)' = Kept(f) /\ Pending(f, j)' = Pending(f, j)
  BY DEF SameFile, Kept, Usable, Pending
<1>4. QED
  BY <1>2, <1>3 DEF JobInv, SameFile, Owed, StillOwed

LEMMA FileKept ==
  ASSUME TypeOK, TypeOK', NEW f \in File, FileInv(f), SameFile(f), BlameGrows,
         text'[f] = text[f] \/ text'[f] \in {None, Thin}
  PROVE  FileInv(f)'
<1>1. \A p \in Page : blame[f][p] \in Nat /\ blame'[f][p] \in Nat
  BY DEF TypeOK
<1>2. cached[f] # None => cached[f].spent \in Nat \cup {None}
  BY DEF TypeOK, Cached
<1>3. text[f] # None => text[f].limit \in Nat
  <2>1. text[f] # None => text[f] = Thin \/ text[f] \in [kind : {"ocr"}, pages : SUBSET Page, limit : Limits]
    BY DEF TypeOK, Text
  <2>2. Thin.limit \in Nat
    BY DEF Thin
  <2>3. QED
    BY <2>1, <2>2, LimitsAssumption
<1>4. saved[f] # None => saved[f].tries \in [Page -> Nat]
  BY DEF TypeOK, Progress
<1>5. Pages[f] \subseteq Page
  BY PagesAssumption
<1>6. Usable(f)' = Usable(f)
  BY DEF SameFile, Usable
<1>7. saved[f] # None => StillOwed(f, saved[f].tries)
  BY <1>4, OwedGrows DEF FileInv
<1>8. cached[f] # None /\ cached[f].spent # None =>
        \A p \in Pages[f] \ cached[f].done : cached[f].spent <= blame'[f][p]
  BY <1>1, <1>2, <1>5 DEF FileInv, BlameGrows
<1>9. text[f] # None /\ text[f] # Thin =>
        \A p \in Pages[f] \ text[f].pages : text[f].limit <= blame'[f][p]
  BY <1>1, <1>3, <1>5 DEF FileInv, BlameGrows
<1>10. QED
  BY <1>6, <1>7, <1>8, <1>9 DEF FileInv, SameFile, Owed, StillOwed

\* An attempt whose pages are answered: it keeps what it has, and what it may
\* still send is what it might before.
LEMMA JobMoves ==
  ASSUME TypeOK, NEW t \in Thread, JobInv(t), job[t] # None,
         NEW k, job'[t] = k, k \in Attempt,
         k.file = job[t].file, k.phase = job[t].phase,
         job[t].todo \cup job[t].sent # {},
         job[t].done \subseteq k.done,
         k.done \subseteq job[t].done \cup job[t].sent,
         k.todo \cup k.sent \subseteq job[t].todo \cup job[t].sent,
         k.done \cap (k.todo \cup k.sent) = {}, k.todo \cap k.sent = {},
         \A p \in k.todo \cup k.sent : k.tries[p] = job[t].tries[p],
         StillOwed(k.file, k.tries),
         SameFile(k.file), limit' = limit
  PROVE  JobInv(t)'
<1> DEFINE f == k.file
<1>1. k.phase = "ocr"
  BY DEF JobInv
<1>2. Kept(f)' = Kept(f)
  BY DEF SameFile, Kept, Usable
<1>3. \A p \in k.todo \cup k.sent : k.tries[p] < limit'
  BY DEF JobInv
<1>4. Kept(f) \subseteq k.done /\ k.done \cup k.todo \cup k.sent \subseteq Pages[f]
  BY DEF JobInv
<1>5. k # None
  BY NoneAssumption
<1>6. QED
  BY <1>1, <1>2, <1>3, <1>4, <1>5 DEF JobInv, Owed, StillOwed

-----------------------------------------------------------------------------
(* Requests. *)

\* What an answer, or none, makes of an attempt.
Moved(j, k, p) == \/ p \in j.todo /\ k = Sending(j, p)
                  \/ p \in j.todo \cup j.sent /\ k = Dropped(j, p)
                  \/ p \in j.sent /\ k \in {Read(j, p), Refused(j, p)}

LEMMA MovedIs ==
  ASSUME NEW j \in Attempt, NEW p \in Page, NEW k, Moved(j, k, p),
         j.done \cap (j.todo \cup j.sent) = {}, j.todo \cap j.sent = {}
  PROVE  /\ k \in Attempt /\ k.file = j.file /\ k.phase = j.phase
         /\ j.todo \cup j.sent # {}
         /\ j.done \subseteq k.done /\ k.done \subseteq j.done \cup j.sent
         /\ k.todo \cup k.sent \subseteq j.todo \cup j.sent
         /\ k.done \cap (k.todo \cup k.sent) = {} /\ k.todo \cap k.sent = {}
         /\ \A q \in k.todo \cup k.sent : k.tries[q] = j.tries[q]
<1> DEFINE Is(done, tries, todo, sent) ==
             /\ k \in Attempt /\ k.file = j.file /\ k.phase = j.phase
             /\ k.done = done /\ k.tries = tries /\ k.todo = todo /\ k.sent = sent
<1>1. /\ j.tries \in [Page -> Nat] /\ \A q \in Page : j.tries[q] \in Nat
      /\ j.done \in SUBSET Page /\ j.todo \in SUBSET Page /\ j.sent \in SUBSET Page
  BY DEF Attempt
<1>2. CASE p \in j.todo /\ k = Sending(j, p)
  <2>1. k = [j EXCEPT !.todo = j.todo \ {p}, !.sent = j.sent \cup {p}]
    BY <1>2 DEF Sending, Attempt
  <2>2. Is(j.done, j.tries, j.todo \ {p}, j.sent \cup {p})
    BY <1>1, <2>1 DEF Attempt
  <2>3. QED
    BY <1>1, <1>2, <2>2
<1>3. CASE p \in j.todo \cup j.sent /\ k = Dropped(j, p)
  <2>1. k = [j EXCEPT !.todo = j.todo \ {p}, !.sent = j.sent \ {p}]
    BY <1>3 DEF Dropped, Attempt
  <2>2. Is(j.done, j.tries, j.todo \ {p}, j.sent \ {p})
    BY <1>1, <2>1 DEF Attempt
  <2>3. QED
    BY <1>1, <1>3, <2>2
<1>4. CASE p \in j.sent /\ k = Read(j, p)
  <2> DEFINE tries == [j.tries EXCEPT ![p] = 0]
  <2>1. tries \in [Page -> Nat] /\ \A q \in Page : tries[q] = IF q = p THEN 0 ELSE j.tries[q]
    BY <1>1
  <2>2. k = [j EXCEPT !.todo = j.todo \ {p}, !.sent = j.sent \ {p},
                      !.done = j.done \cup {p}, !.tries = tries]
    BY <1>4 DEF Read, Dropped, Attempt
  <2> HIDE DEF tries
  <2>3. Is(j.done \cup {p}, tries, j.todo \ {p}, j.sent \ {p})
    BY <1>1, <2>1, <2>2 DEF Attempt
  <2>4. QED
    BY <1>1, <1>4, <2>1, <2>3
<1>5. CASE p \in j.sent /\ k = Refused(j, p)
  <2> DEFINE tries == Charged(j.tries, {p})
  <2>1. tries \in [Page -> Nat] /\ \A q \in Page : tries[q] = IF q = p THEN j.tries[q] + 1 ELSE j.tries[q]
    BY <1>1 DEF Charged
  <2>2. k = [j EXCEPT !.todo = j.todo \ {p}, !.sent = j.sent \ {p}, !.tries = tries]
    BY <1>5 DEF Refused, Dropped, Attempt
  <2> HIDE DEF tries
  <2>3. Is(j.done, tries, j.todo \ {p}, j.sent \ {p})
    BY <1>1, <2>1, <2>2 DEF Attempt
  <2>4. QED
    BY <1>1, <1>5, <2>1, <2>3
<1>6. QED
  BY <1>2, <1>3, <1>4, <1>5 DEF Moved

\* Only a failure of the page itself is charged to it.
LEMMA TriesMoved ==
  ASSUME NEW j \in Attempt, NEW p \in Page
  PROVE  /\ Sending(j, p).tries = j.tries /\ Dropped(j, p).tries = j.tries
         /\ \A q \in Page : /\ Read(j, p).tries[q] <= j.tries[q]
                            /\ Refused(j, p).tries[q] = IF q = p THEN j.tries[q] + 1 ELSE j.tries[q]
<1>1. j.tries \in [Page -> Nat] /\ \A q \in Page : j.tries[q] \in Nat
  BY DEF Attempt
<1>2. Sending(j, p).tries = j.tries /\ Dropped(j, p).tries = j.tries
  BY DEF Sending, Dropped, Attempt
<1>3. Read(j, p).tries = [j.tries EXCEPT ![p] = 0]
  BY DEF Read, Dropped, Attempt
<1>4. Refused(j, p).tries = Charged(j.tries, {p})
  BY DEF Refused, Dropped, Attempt
<1>5. QED
  BY <1>1, <1>2, <1>3, <1>4 DEF Charged

\* Requests change nothing on disk, and no text but to a fallback; failures that
\* are charged are blamed.
LEMMA Requests ==
  ASSUME OcrInv,
         cached' = cached, saved' = saved, torn' = torn, limit' = limit,
         failures' \in 0..MaxFailures, circuit' \in {None, "open", "over"},
         job' \in [Thread -> Attempt \cup {None}],
         \A t \in Thread :
           \/ job'[t] \in {job[t], None}
           \/ /\ job[t] # None /\ StillOwed(job[t].file, job'[t].tries)
              /\ \E p \in Page : Moved(job[t], job'[t], p),
         text' \in [File -> Text \cup {None}],
         \A f \in File : text'[f] = text[f] \/ text'[f] \in {None, Thin},
         blame' \in [File -> [Page -> Nat]], BlameGrows
  PROVE  OcrInv'
<1>1. TypeOK /\ TakeTurns /\ (\A t \in Thread : JobInv(t)) /\ (\A f \in File : FileInv(f))
  BY DEF OcrInv
<1>2. \A f : SameFile(f)
  BY DEF SameFile
<1> DEFINE Moves(t) == /\ job[t] # None /\ StillOwed(job[t].file, job'[t].tries)
                       /\ \E p \in Page : Moved(job[t], job'[t], p)
<1>3. ASSUME NEW t \in Thread, Moves(t)
      PROVE  /\ job[t] # None /\ job'[t] \in Attempt /\ job'[t].file = job[t].file
             /\ JobInv(t)'
             /\ job'[t].todo \cup job'[t].sent \subseteq Pages[job'[t].file]
             /\ job'[t].todo \cap (job'[t].done \cup job'[t].sent) = {}
  <2> DEFINE j == job[t]
             k == job'[t]
  <2>1. PICK p \in Page : Moved(j, k, p)
    BY <1>3
  <2>2. j \in Attempt
    BY <1>1, <1>3, AttemptType
  <2>3. /\ j.done \cap (j.todo \cup j.sent) = {} /\ j.todo \cap j.sent = {}
        /\ j.todo \cup j.sent \subseteq Pages[j.file]
    BY <1>1, <1>3 DEF JobInv
  <2> HIDE DEF j, k
  <2>4. /\ k \in Attempt /\ k.file = j.file /\ k.phase = j.phase
        /\ j.todo \cup j.sent # {}
        /\ j.done \subseteq k.done /\ k.done \subseteq j.done \cup j.sent
        /\ k.todo \cup k.sent \subseteq j.todo \cup j.sent
        /\ k.done \cap (k.todo \cup k.sent) = {} /\ k.todo \cap k.sent = {}
        /\ \A q \in k.todo \cup k.sent : k.tries[q] = j.tries[q]
    BY <2>1, <2>2, <2>3, MovedIs
  <2>5. StillOwed(k.file, k.tries)
    BY <1>3, <2>4 DEF j, k
  <2>6. JobInv(t)'
    BY <1>1, <1>2, <1>3, <2>4, <2>5, JobMoves DEF j, k
  <2>7. QED
    BY <1>3, <2>3, <2>4, <2>6 DEF j, k
<1>4. \A t \in Thread : job'[t] \in {job[t], None} \/ Moves(t)
  OBVIOUS
<1>5. \A t \in Thread : job'[t] # None => job[t] # None /\ job'[t].file = job[t].file
  BY <1>3, <1>4
<1>6. TypeOK'
  <2>1. ASSUME NEW t \in Thread, job'[t] # None
        PROVE  /\ job'[t].todo \cup job'[t].sent \subseteq Pages[job'[t].file]
               /\ job'[t].todo \cap (job'[t].done \cup job'[t].sent) = {}
    BY <1>1, <1>3, <1>4, <2>1 DEF TypeOK
  <2>2. QED
    BY <1>1, <2>1 DEF TypeOK
<1>7. TakeTurns'
  BY <1>1, <1>5 DEF TakeTurns
<1>8. ASSUME NEW t \in Thread PROVE JobInv(t)'
  <2>1. CASE job'[t] = None
    BY <2>1 DEF JobInv
  <2>2. CASE job'[t] = job[t] /\ job[t] # None
    BY <1>1, <1>2, <1>6, <2>2, JobKept
  <2>3. QED
    BY <1>3, <1>4, <2>1, <2>2
<1>9. ASSUME NEW f \in File PROVE FileInv(f)'
  BY <1>1, <1>2, <1>6, FileKept
<1>10. QED
  BY <1>6, <1>7, <1>8, <1>9 DEF OcrInv

\* The circuit after any number of failures
LEMMA FailuresIs ==
  ASSUME NEW n \in Nat, NEW count \in 0..MaxFailures, NEW until \in {None, "open", "over"},
         RecordFailures(n, count, until)
  PROVE  failures' \in 0..MaxFailures /\ circuit' \in {None, "open", "over"}
  BY FailuresAssumption DEF RecordFailures

LEMMA CloseIs ==
  ASSUME CloseCircuit
  PROVE  failures' \in 0..MaxFailures /\ circuit' \in {None, "open", "over"}
  BY FailuresAssumption DEF CloseCircuit

\* With one attempt moved and no page charged, nothing else happens to OcrInv.
LEMMA OneMoves ==
  ASSUME OcrInv, NEW t \in Thread, NEW p \in Page, job[t] # None,
         NEW k, Moved(job[t], k, p), job' = [job EXCEPT ![t] = k],
         StillOwed(job[t].file, k.tries),
         blame' \in [File -> [Page -> Nat]], BlameGrows,
         failures' \in 0..MaxFailures, circuit' \in {None, "open", "over"},
         cached' = cached, saved' = saved, torn' = torn, limit' = limit, text' = text
  PROVE  OcrInv'
<1>1. TypeOK /\ JobInv(t)
  BY DEF OcrInv
<1>2. k \in Attempt
  BY <1>1, AttemptType, MovedIs DEF JobInv
<1>3. /\ job' \in [Thread -> Attempt \cup {None}]
      /\ \A u \in Thread : job'[u] = IF u = t THEN k ELSE job[u]
  BY <1>1, <1>2 DEF TypeOK
<1>4. text' \in [File -> Text \cup {None}]
  BY <1>1 DEF TypeOK
<1>5. \A u \in Thread : \/ job'[u] \in {job[u], None}
                        \/ /\ job[u] # None /\ StillOwed(job[u].file, job'[u].tries)
                           /\ \E q \in Page : Moved(job[u], job'[u], q)
  BY <1>3
<1>6. QED
  BY <1>3, <1>4, <1>5, Requests

\* No page is charged when it is sent, dropped or read.
LEMMA NotCharged ==
  ASSUME OcrInv, blame' = blame, NEW t \in Thread, NEW p \in Page, job[t] # None,
         NEW k \in {Sending(job[t], p), Dropped(job[t], p), Read(job[t], p)}
  PROVE  StillOwed(job[t].file, k.tries)
<1> DEFINE j == job[t]
<1>1. TypeOK /\ JobInv(t)
  BY DEF OcrInv
<1>2. j \in Attempt /\ j.file \in File /\ j.tries \in [Page -> Nat]
  BY <1>1, AttemptType
<1>3. \A q \in Page : blame[j.file][q] \in Nat /\ j.tries[q] \in Nat /\ j.tries[q] <= blame[j.file][q]
  BY <1>1, <1>2 DEF TypeOK, JobInv, Owed
<1>4. CASE k \in {Sending(j, p), Dropped(j, p)}
  <2>1. k.tries = j.tries
    BY <1>2, <1>4, TriesMoved
  <2>2. QED
    BY <1>3, <2>1 DEF StillOwed
<1>5. CASE k = Read(j, p)
  <2>1. k.tries = [j.tries EXCEPT ![p] = 0]
    BY <1>2, <1>5 DEF Read, Dropped, Attempt
  <2>2. \A q \in Page : k.tries[q] <= blame[j.file][q]
    BY <1>2, <1>3, <2>1
  <2>3. QED
    BY <2>2 DEF StillOwed
<1>6. QED
  BY <1>4, <1>5

LEMMA SameBlame ==
  ASSUME TypeOK, blame' = blame
  PROVE  BlameGrows /\ blame' \in [File -> [Page -> Nat]]
  BY DEF TypeOK, BlameGrows

LEMMA SendStep ==
  ASSUME OcrInv, NEW t \in Thread, NEW p \in Page, Send(t, p)
  PROVE  OcrInv'
<1>1. TypeOK
  BY DEF OcrInv
<1>2. failures' \in 0..MaxFailures /\ circuit' \in {None, "open", "over"}
  BY <1>1, CloseIs DEF Send, breaker, TypeOK
<1>3. Moved(job[t], Sending(job[t], p), p) /\ StillOwed(job[t].file, Sending(job[t], p).tries)
  BY NotCharged DEF Send, Moved
<1>4. QED
  BY <1>1, <1>2, <1>3, SameBlame, OneMoves DEF Send

LEMMA ShortCircuitStep ==
  ASSUME OcrInv, NEW t \in Thread, NEW p \in Page, ShortCircuit(t, p)
  PROVE  OcrInv'
<1>1. TypeOK
  BY DEF OcrInv
<1>2. failures' \in 0..MaxFailures /\ circuit' \in {None, "open", "over"}
  BY <1>1 DEF ShortCircuit, breaker, TypeOK
<1>3. Moved(job[t], Dropped(job[t], p), p) /\ StillOwed(job[t].file, Dropped(job[t], p).tries)
  BY NotCharged DEF ShortCircuit, Moved
<1>4. QED
  BY <1>1, <1>2, <1>3, SameBlame, OneMoves DEF ShortCircuit

LEMMA SucceedStep ==
  ASSUME OcrInv, NEW t \in Thread, NEW p \in Page, Succeed(t, p)
  PROVE  OcrInv'
<1>1. TypeOK
  BY DEF OcrInv
<1>2. failures' \in 0..MaxFailures /\ circuit' \in {None, "open", "over"}
  BY CloseIs DEF Succeed
<1>3. Moved(job[t], Read(job[t], p), p) /\ StillOwed(job[t].file, Read(job[t], p).tries)
  BY NotCharged DEF Succeed, Moved
<1>4. QED
  BY <1>1, <1>2, <1>3, SameBlame, OneMoves DEF Succeed

LEMMA UnavailableStep ==
  ASSUME OcrInv, NEW t \in Thread, NEW p \in Page, Unavailable(t, p)
  PROVE  OcrInv'
<1>1. TypeOK
  BY DEF OcrInv
<1>2. failures' \in 0..MaxFailures /\ circuit' \in {None, "open", "over"}
  BY <1>1, FailuresIs DEF Unavailable, TypeOK
<1>3. Moved(job[t], Dropped(job[t], p), p) /\ StillOwed(job[t].file, Dropped(job[t], p).tries)
  BY NotCharged DEF Unavailable, Moved
<1>4. QED
  BY <1>1, <1>2, <1>3, SameBlame, OneMoves DEF Unavailable

LEMMA FailStep ==
  ASSUME OcrInv, NEW t \in Thread, NEW p \in Page, Fail(t, p)
  PROVE  OcrInv'
<1> DEFINE j == job[t]
           f == j.file
<1>1. TypeOK /\ JobInv(t) /\ j # None /\ p \in j.sent
  BY DEF OcrInv, Fail
<1>2. failures' \in 0..MaxFailures /\ circuit' \in {None, "open", "over"}
  BY <1>1, FailuresIs DEF Fail, TypeOK
<1>3. j \in Attempt /\ f \in File /\ \A q \in Page : j.tries[q] \in Nat /\ j.tries[q] <= blame[f][q]
  BY <1>1, AttemptType DEF JobInv, Owed
<1>4. blame' = Blamed(f, {p})
  BY DEF Fail
<1>5. /\ blame' \in [File -> [Page -> Nat]] /\ BlameGrows
      /\ \A n \in Nat : n <= blame[f][p] /\ n < MaxLimit => n + 1 <= blame'[f][p]
  BY <1>1, <1>3, <1>4, BlamedIs DEF BlameGrows
<1>6. j.tries[p] < MaxLimit
  <2>1. j.tries[p] < limit /\ limit \in Limits /\ limit \in Nat
    BY <1>1, LimitsAssumption DEF JobInv, TypeOK
  <2>2. QED
    BY <1>3, <2>1, MaxLimitIs
<1>7. \A q \in Page : Refused(j, p).tries[q] = IF q = p THEN j.tries[q] + 1 ELSE j.tries[q]
  BY <1>3, TriesMoved
<1>8. \A q \in Page : blame[f][q] \in Nat /\ blame'[f][q] \in Nat
  BY <1>1, <1>3, <1>5 DEF TypeOK
<1>9. StillOwed(f, Refused(j, p).tries)
  BY <1>3, <1>5, <1>6, <1>7, <1>8 DEF StillOwed, BlameGrows
<1>10. Moved(j, Refused(j, p), p)
  BY <1>1 DEF Moved
<1>11. QED
  BY <1>2, <1>5, <1>9, <1>10, OneMoves DEF Fail

LEMMA FallbackIs ==
  ASSUME TypeOK, NEW f \in File, text' = [text EXCEPT ![f] = Fallback(f)]
  PROVE  /\ text' \in [File -> Text \cup {None}]
         /\ \A g \in File : text'[g] = text[g] \/ text'[g] \in {None, Thin}
  BY DEF TypeOK, Fallback, Text

\* The attempt of t ends with an error while that of u goes on.
LEMMA OvertakenStep ==
  ASSUME OcrInv, NEW t \in Thread, NEW u \in Thread, NEW p \in Page, NEW q \in Page,
         Overtaken(t, p, u, q)
  PROVE  OcrInv'
<1>1. TypeOK /\ JobInv(u) /\ job[t] # None /\ job[u] # None /\ u # t
  BY DEF OcrInv, Overtaken
<1>2. job[t] \in Attempt /\ job[t].file \in File /\ job[u] \in Attempt
  BY <1>1, AttemptType
<1>3. PICK k \in {Sending(job[u], q), Read(job[u], q)} :
        job' = [job EXCEPT ![t] = None, ![u] = k] /\ Moved(job[u], k, q)
  BY <1>1 DEF Overtaken, Moved, TypeOK
<1>4. blame' = blame
  BY DEF Overtaken
<1>5. k \in Attempt
  BY <1>1, <1>2, <1>3, MovedIs DEF JobInv
<1>6. StillOwed(job[u].file, k.tries)
  BY <1>1, <1>3, <1>4, NotCharged
<1>7. /\ job' \in [Thread -> Attempt \cup {None}]
      /\ \A v \in Thread : job'[v] = IF v = u THEN k ELSE IF v = t THEN None ELSE job[v]
  BY <1>1, <1>3, <1>5 DEF TypeOK
<1>8. failures' \in 0..MaxFailures /\ circuit' \in {None, "open", "over"}
  <2>1. IsFiniteSet(job[t].sent)
    BY <1>2, PagesAssumption, FS_Subset DEF Attempt
  <2>2. Cardinality(job[t].sent) \in Nat
    BY <2>1, FS_CardinalityType
  <2>3. PICK n \in 0..Cardinality(job[t].sent) : RecordFailures(n, 0, None)
    BY DEF Overtaken
  <2>4. n \in Nat /\ 0 \in 0..MaxFailures
    BY <2>2, <2>3, FailuresAssumption
  <2>5. QED
    BY <2>3, <2>4, FailuresIs
<1>9. /\ text' \in [File -> Text \cup {None}]
      /\ \A f \in File : text'[f] = text[f] \/ text'[f] \in {None, Thin}
  BY <1>1, <1>2, FallbackIs DEF Overtaken
<1>10. \A v \in Thread : \/ job'[v] \in {job[v], None}
                         \/ /\ job[v] # None /\ StillOwed(job[v].file, job'[v].tries)
                            /\ \E r \in Page : Moved(job[v], job'[v], r)
  BY <1>1, <1>3, <1>6, <1>7
<1>11. cached' = cached /\ saved' = saved /\ torn' = torn /\ limit' = limit
  BY DEF Overtaken
<1>12. QED
  BY <1>1, <1>4, <1>7, <1>8, <1>9, <1>10, <1>11, SameBlame, Requests

LEMMA CoolDownStep ==
  ASSUME OcrInv, CoolDown
  PROVE  OcrInv'
<1>1. TypeOK
  BY DEF OcrInv
<1>2. /\ cached' = cached /\ saved' = saved /\ torn' = torn /\ limit' = limit
      /\ job' = job /\ text' = text /\ blame' = blame
      /\ failures' = failures /\ circuit' = "over"
  BY DEF CoolDown
<1>3. /\ failures' \in 0..MaxFailures /\ job' \in [Thread -> Attempt \cup {None}]
      /\ text' \in [File -> Text \cup {None}]
  BY <1>1, <1>2 DEF TypeOK
<1>4. \A f \in File : text'[f] = text[f]
  BY <1>2
<1>5. \A t \in Thread : job'[t] \in {job[t], None}
  BY <1>2
<1>6. QED
  BY <1>1, <1>2, <1>3, <1>4, <1>5, SameBlame, Requests

-----------------------------------------------------------------------------
(* The start of an attempt, and the end of the process. *)

\* Nothing happens to the files on disk, and no attempt goes on but as it was.
LEMMA NoAttempt ==
  ASSUME OcrInv, cached' = cached, saved' = saved, torn' = torn, blame' = blame,
         limit' = limit, failures' = failures, circuit' = circuit,
         job' = job, text' \in [File -> Text \cup {None}]
  PROVE  /\ TypeOK' /\ TakeTurns' /\ \A t \in Thread : JobInv(t)'
         /\ \A f \in File : text'[f] = text[f] \/ text'[f] \in {None, Thin} => FileInv(f)'
<1>1. TypeOK /\ TakeTurns /\ (\A t \in Thread : JobInv(t)) /\ (\A f \in File : FileInv(f))
  BY DEF OcrInv
<1>2. \A f : SameFile(f)
  BY DEF SameFile
<1>3. TypeOK' /\ TakeTurns'
  BY <1>1 DEF TypeOK, TakeTurns
<1>4. ASSUME NEW t \in Thread PROVE JobInv(t)'
  <2>1. CASE job[t] = None
    BY <2>1 DEF JobInv
  <2>2. CASE job[t] # None
    BY <1>1, <1>2, <1>3, <2>2, SameBlame, JobKept
  <2>3. QED
    BY <2>1, <2>2
<1>5. ASSUME NEW f \in File, text'[f] = text[f] \/ text'[f] \in {None, Thin} PROVE FileInv(f)'
  BY <1>1, <1>2, <1>3, <1>5, SameBlame, FileKept
<1>6. QED
  BY <1>3, <1>4, <1>5

LEMMA CannotStartStep ==
  ASSUME OcrInv, NEW t \in Thread, NEW f \in File, CannotStart(t, f)
  PROVE  OcrInv'
<1>1. TypeOK
  BY DEF OcrInv
<1>2. /\ text' \in [File -> Text \cup {None}]
      /\ \A g \in File : text'[g] = text[g] \/ text'[g] \in {None, Thin}
  BY <1>1, FallbackIs DEF CannotStart
<1>3. QED
  BY <1>2, NoAttempt DEF CannotStart, OcrInv, breaker

\* What an attempt can be accepted for
LEMMA AcceptedIs ==
  ASSUME TypeOK, NEW f \in File, NEW D \in SUBSET Page, NEW x \in Accepted(f, D)
  PROVE  /\ x \in Text
         /\ x = Thin \/ (x.pages = D /\ x.limit = limit)
<1>1. limit \in Limits
  BY DEF TypeOK
<1>2. QED
  BY <1>1 DEF Accepted, OcrText, Text, Thin

\* A final result is complete, or its other pages have used up the limit.
LEMMA ServeStep ==
  ASSUME OcrInv, NEW t \in Thread, NEW f \in File, Serve(t, f)
  PROVE  OcrInv'
<1>1. TypeOK /\ FileInv(f) /\ Pages[f] # {}
  BY PagesAssumption DEF OcrInv
<1> DEFINE c == cached[f]
<1>2. c \in Cached /\ c # None /\ Final(f, c)
  BY <1>1 DEF Serve, TypeOK
<1>3. c.done \in SUBSET Page /\ c.spent \in Nat \cup {None}
  BY <1>2 DEF Cached
<1>4. PICK x \in Accepted(f, c.done) : text' = [text EXCEPT ![f] = x]
  BY DEF Serve
<1>5. x \in Text /\ (x = Thin \/ (x.pages = c.done /\ x.limit = limit))
  BY <1>1, <1>3, <1>4, AcceptedIs
<1>6. /\ text' \in [File -> Text \cup {None}]
      /\ \A g \in File : text'[g] = IF g = f THEN x ELSE text[g]
  BY <1>1, <1>4, <1>5 DEF TypeOK
<1>7. /\ cached' = cached /\ saved' = saved /\ torn' = torn /\ blame' = blame
      /\ limit' = limit /\ failures' = failures /\ circuit' = circuit /\ job' = job
  BY DEF Serve, breaker
<1>8. /\ TypeOK' /\ TakeTurns' /\ \A u \in Thread : JobInv(u)'
      /\ \A g \in File : text'[g] = text[g] \/ text'[g] \in {None, Thin} => FileInv(g)'
  BY <1>6, <1>7, NoAttempt
<1>9. x # Thin => x.pages # {} /\ \A p \in Pages[f] \ x.pages : x.limit <= blame'[f][p]
  <2>1. limit \in Nat /\ \A p \in Page : blame[f][p] \in Nat
    BY <1>1, LimitsAssumption DEF TypeOK
  <2>2. Pages[f] \subseteq Page
    BY PagesAssumption
  <2>3. CASE Complete(f, c)
    BY <1>1, <1>5, <2>3 DEF Complete
  <2>4. CASE c.spent # None /\ c.spent >= limit /\ c.done # {}
    <3>1. \A p \in Pages[f] \ c.done : c.spent <= blame[f][p]
      BY <1>1, <1>2, <2>4 DEF FileInv
    <3>2. QED
      BY <1>3, <1>5, <1>7, <2>1, <2>2, <2>4, <3>1
  <2>5. QED
    BY <1>2, <2>3, <2>4 DEF Final
<1>10. FileInv(f)'
  <2>1. CASE x = Thin
    BY <1>6, <1>8, <2>1
  <2>2. CASE x # Thin
    <3>1. Usable(f)' = Usable(f)
      BY <1>7 DEF Usable
    <3>2. \A tries : Owed(f, tries) => Owed(f, tries)'
      BY <1>7 DEF Owed
    <3>3. text'[f] = x
      BY <1>6
    <3>4. text'[f] # None /\ text'[f] # Thin =>
            text'[f].pages # {} /\ \A p \in Pages[f] \ text'[f].pages : text'[f].limit <= blame'[f][p]
      BY <1>9, <2>2, <3>3
    <3>5. QED
      BY <1>1, <1>7, <3>1, <3>2, <3>4 DEF FileInv
  <2>3. QED
    BY <2>1, <2>2
<1>11. QED
  BY <1>6, <1>8, <1>10 DEF OcrInv

\* The end of the process loses the attempts and nothing else.
LEMMA RestartStep ==
  ASSUME OcrInv, Restart
  PROVE  OcrInv'
<1>1. TypeOK /\ (\A f \in File : FileInv(f))
  BY DEF OcrInv
<1>2. /\ cached' = cached /\ saved' = saved /\ torn' = torn /\ text' = text /\ blame' = blame
      /\ failures' = 0 /\ circuit' = None /\ limit' \in Limits
      /\ job' = [t \in Thread |-> None]
  BY DEF Restart
<1>3. \A t \in Thread : job'[t] = None
  BY <1>2
<1>4. job' \in [Thread -> Attempt \cup {None}] /\ failures' \in 0..MaxFailures
  BY <1>2, FailuresAssumption
<1>5. TypeOK'
  BY <1>1, <1>2, <1>3, <1>4 DEF TypeOK
<1>6. TakeTurns' /\ \A t \in Thread : JobInv(t)'
  BY <1>3 DEF TakeTurns, JobInv
<1>7. \A f \in File : FileInv(f)'
  BY <1>1, <1>2, <1>5, SameBlame, FileKept DEF SameFile
<1>8. QED
  BY <1>5, <1>6, <1>7 DEF OcrInv

\* What is on disk is where an attempt starts from, and it is owed.
LEMMA ResumedIs ==
  ASSUME TypeOK, NEW f \in File, FileInv(f)
  PROVE  /\ Resumed(f).done \in SUBSET Page /\ Resumed(f).tries \in [Page -> Nat]
         /\ Resumed(f).done \subseteq Pages[f]
         /\ Kept(f) \subseteq Resumed(f).done
         /\ Owed(f, Resumed(f).tries)
<1>1. Pages[f] \subseteq Page /\ \A p \in Page : blame[f][p] \in Nat
  BY PagesAssumption DEF TypeOK
<1>2. CASE saved[f] # None
  <2>1. saved[f] \in Progress /\ Resumed(f) = saved[f]
    BY <1>2 DEF TypeOK, Resumed
  <2>2. Kept(f) \subseteq saved[f].done
    BY <1>2 DEF Kept, FileInv
  <2>3. QED
    BY <1>2, <2>1, <2>2 DEF Progress, FileInv
<1>3. CASE saved[f] = None /\ (cached[f] = None \/ ~cached[f].parses)
  <2>1. Resumed(f) = [done |-> {}, tries |-> [p \in Page |-> 0]]
    BY <1>3 DEF Resumed, Recovered, Fresh
  <2>2. Kept(f) = {}
    BY <1>3 DEF Kept, Usable
  <2>3. QED
    BY <1>1, <2>1, <2>2 DEF Owed
<1>4. CASE saved[f] = None /\ cached[f] # None /\ cached[f].parses
  <2> DEFINE c == cached[f]
  <2>1. c.done \in SUBSET Page /\ c.spent \in Nat \cup {None} /\ c.done \subseteq Pages[f]
    BY <1>4 DEF TypeOK, Cached, FileInv
  <2>2. Resumed(f) = [done |-> c.done, tries |-> Spent(c, f)]
    BY <1>4 DEF Resumed, Recovered
  <2>3. /\ Spent(c, f) \in [Page -> Nat]
        /\ \A p \in Page : Spent(c, f)[p] =
             IF p \in Pages[f] \ c.done /\ c.spent # None THEN c.spent ELSE 0
    BY <2>1 DEF Spent
  <2>4. c.spent # None => \A p \in Pages[f] \ c.done : c.spent <= blame[f][p]
    BY <1>4 DEF FileInv
  <2>5. Owed(f, Spent(c, f))
    BY <1>1, <2>1, <2>3, <2>4 DEF Owed
  <2>6. Kept(f) \subseteq c.done
    BY <1>4 DEF Kept, Usable
  <2>7. QED
    BY <2>1, <2>2, <2>3, <2>5, <2>6
<1>5. QED
  BY <1>2, <1>3, <1>4

\* Pages without an image are charged and blamed; the others are to be sent.
LEMMA BeginStep ==
  ASSUME OcrInv, NEW t \in Thread, NEW f \in File, Begin(t, f)
  PROVE  OcrInv'
<1>1. TypeOK /\ TakeTurns /\ (\A u \in Thread : JobInv(u)) /\ (\A g \in File : FileInv(g))
  BY DEF OcrInv
<1> DEFINE w == Resumed(f)
<1>2. PICK images \in SUBSET Pending(f, w) :
        /\ job' = [job EXCEPT ![t] =
             [file |-> f, phase |-> "ocr", done |-> w.done,
              tries |-> Charged(w.tries, Pending(f, w) \ images), todo |-> images, sent |-> {}]]
        /\ blame' = Blamed(f, Pending(f, w) \ images)
  BY DEF Begin, Rendered
<1> DEFINE lost == Pending(f, w) \ images
           tries == Charged(w.tries, lost)
           k == [file |-> f, phase |-> "ocr", done |-> w.done,
                 tries |-> tries, todo |-> images, sent |-> {}]
<1>3. /\ w.done \in SUBSET Page /\ w.tries \in [Page -> Nat]
      /\ w.done \subseteq Pages[f] /\ Kept(f) \subseteq w.done /\ Owed(f, w.tries)
  BY <1>1, ResumedIs
<1>4. /\ Pages[f] \subseteq Page /\ limit \in Nat /\ limit <= MaxLimit
      /\ \A p \in Page : blame[f][p] \in Nat /\ w.tries[p] \in Nat /\ w.tries[p] <= blame[f][p]
  BY <1>1, <1>3, PagesAssumption, LimitsAssumption, MaxLimitIs DEF TypeOK, Owed
<1>5. \A p \in Pending(f, w) : p \in Pages[f] \ w.done /\ w.tries[p] < limit
  BY DEF Pending
<1> HIDE DEF w
<1>6. /\ tries \in [Page -> Nat]
      /\ \A p \in Page : tries[p] = IF p \in lost THEN w.tries[p] + 1 ELSE w.tries[p]
  BY <1>3, <1>4 DEF Charged
<1>7. lost \in SUBSET Page /\ images \in SUBSET Page /\ images \subseteq Pages[f] \ w.done
  BY <1>4, <1>5
<1> HIDE DEF lost, tries
<1>8. k \in Attempt
  BY <1>3, <1>6, <1>7 DEF Attempt
<1>9. /\ job' \in [Thread -> Attempt \cup {None}]
      /\ \A u \in Thread : job'[u] = IF u = t THEN k ELSE job[u]
  BY <1>1, <1>2, <1>8 DEF TypeOK, lost, tries
<1>10. /\ blame' \in [File -> [Page -> Nat]] /\ BlameGrows
       /\ \A p \in lost, n \in Nat : n <= blame[f][p] /\ n < MaxLimit => n + 1 <= blame'[f][p]
  <2>1. blame' = Blamed(f, lost)
    BY <1>2 DEF lost
  <2>2. QED
    BY <1>1, <1>7, <2>1, BlamedIs DEF BlameGrows
<1>11. \A p \in lost : w.tries[p] < MaxLimit
  BY <1>4, <1>5, <1>7, MaxLimitIs DEF lost
<1>12. \A p \in Page : blame'[f][p] \in Nat
  BY <1>10
<1>13. StillOwed(f, tries)
  BY <1>4, <1>6, <1>10, <1>11, <1>12 DEF StillOwed, BlameGrows
<1>14. /\ cached' = cached /\ saved' = saved /\ torn' = torn /\ limit' = limit
       /\ failures' = failures /\ circuit' = circuit
       /\ text' = [text EXCEPT ![f] = None]
       /\ job[t] = None /\ Unlocked(f)
  BY DEF Begin, breaker
<1>15. \A g : SameFile(g)
  BY <1>14 DEF SameFile
<1>16. /\ text' \in [File -> Text \cup {None}]
       /\ \A g \in File : text'[g] = text[g] \/ text'[g] \in {None, Thin}
  BY <1>1, <1>14 DEF TypeOK
<1>17. k # None /\ k.file = f /\ k.phase = "ocr" /\ k.done = w.done /\ k.tries = tries
       /\ k.todo = images /\ k.sent = {}
  BY <1>8, NoneAssumption
<1> HIDE DEF k
<1>18. TypeOK'
  <2>1. \A u \in Thread : job'[u] # None =>
          /\ job'[u].todo \cup job'[u].sent \subseteq Pages[job'[u].file]
          /\ job'[u].todo \cap (job'[u].done \cup job'[u].sent) = {}
    BY <1>1, <1>7, <1>9, <1>17 DEF TypeOK
  <2>2. QED
    BY <1>1, <1>9, <1>10, <1>14, <1>16, <2>1 DEF TypeOK
<1>19. TakeTurns'
  BY <1>1, <1>9, <1>14, <1>17 DEF TakeTurns, Unlocked
<1>20. ASSUME NEW u \in Thread PROVE JobInv(u)'
  <2>1. CASE u = t
    <3>1. Kept(f)' = Kept(f)
      BY <1>14 DEF Kept, Usable
    <3>2. \A p \in images : tries[p] < limit
      BY <1>5, <1>6, <1>7 DEF lost
    <3>3. job'[t] = k
      BY <1>9
    <3>4. QED
      BY <1>3, <1>7, <1>13, <1>14, <1>17, <2>1, <3>1, <3>2, <3>3 DEF JobInv, StillOwed, Owed
  <2>2. CASE u # t /\ job[u] = None
    BY <1>9, <2>2 DEF JobInv
  <2>3. CASE u # t /\ job[u] # None
    BY <1>1, <1>9, <1>10, <1>14, <1>15, <1>18, <2>3, JobKept
  <2>4. QED
    BY <2>1, <2>2, <2>3
<1>21. ASSUME NEW g \in File PROVE FileInv(g)'
  BY <1>1, <1>10, <1>15, <1>16, <1>18, FileKept
<1>22. QED
  BY <1>18, <1>19, <1>20, <1>21 DEF OcrInv

-----------------------------------------------------------------------------
(* The end of an attempt. *)

\* What is known of an attempt whose pages are answered
LEMMA AnsweredIs ==
  ASSUME OcrInv, NEW t \in Thread, job[t] # None,
         Answered(t) \/ job[t].phase # "ocr"
  PROVE  LET j == job[t]
             f == j.file
         IN /\ j \in Attempt /\ f \in File /\ FileInv(f)
            /\ j.done \in SUBSET Page /\ j.tries \in [Page -> Nat]
            /\ j.done \subseteq Pages[f] /\ Kept(f) \subseteq j.done
            /\ j.todo = {} /\ j.sent = {} /\ Owed(f, j.tries)
            /\ Reached(j) \in Progress
            /\ Pending(f, j) = {} =>
                 \A p \in Pages[f] \ j.done : limit <= blame[f][p] /\ p \in Page
<1> DEFINE j == job[t]
           f == j.file
<1>1. TypeOK /\ JobInv(t)
  BY DEF OcrInv
<1>2. j \in Attempt /\ f \in File /\ FileInv(f) /\ j.done \in SUBSET Page /\ j.tries \in [Page -> Nat]
  BY <1>1, AttemptType DEF OcrInv
<1>3. /\ j.done \subseteq Pages[f] /\ Kept(f) \subseteq j.done
      /\ j.todo = {} /\ j.sent = {} /\ Owed(f, j.tries)
  BY <1>1 DEF JobInv, Answered
<1>4. Reached(j) \in Progress
  BY <1>2 DEF Reached, Progress
<1>5. ASSUME Pending(f, j) = {}, NEW p \in Pages[f] \ j.done
      PROVE  limit <= blame[f][p] /\ p \in Page
  <2>1. p \in Page /\ limit \in Nat
    BY <1>1, <1>2, PagesAssumption, LimitsAssumption DEF TypeOK
  <2>2. /\ j.tries[p] \in Nat /\ blame[f][p] \in Nat /\ j.tries[p] <= blame[f][p]
        /\ ~(j.tries[p] < limit)
    BY <1>1, <1>2, <1>3, <1>5, <2>1 DEF TypeOK, Owed, Pending
  <2>3. QED
    BY <2>1, <2>2
<1>6. QED
  BY <1>2, <1>3, <1>4, <1>5

\* The other attempts are on other files.
LEMMA Ended ==
  ASSUME OcrInv, NEW t \in Thread, job[t] # None, NEW k \in Attempt \cup {None},
         NEW f \in File, f = job[t].file,
         job' = [job EXCEPT ![t] = k],
         k # None => k.file = f /\ k.todo = {} /\ k.sent = {},
         failures' = failures, circuit' = circuit, limit' = limit, blame' = blame,
         cached' \in [File -> Cached \cup {None}], saved' \in [File -> Progress \cup {None}],
         torn' \in [File -> BOOLEAN], text' \in [File -> Text \cup {None}],
         \A g \in File : g # f => SameFile(g) /\ text'[g] = text[g],
         FileInv(f)', k # None => JobInv(t)'
  PROVE  OcrInv'
<1>1. TypeOK /\ TakeTurns /\ (\A u \in Thread : JobInv(u)) /\ (\A g \in File : FileInv(g))
  BY DEF OcrInv
<1>2. /\ job' \in [Thread -> Attempt \cup {None}]
      /\ \A u \in Thread : job'[u] = IF u = t THEN k ELSE job[u]
  BY <1>1 DEF TypeOK
<1>3. \A u \in Thread : u # t /\ job[u] # None => job[u].file # f /\ job[u].file \in File
  BY <1>1, AttemptType DEF TakeTurns
<1>4. TypeOK'
  <2>1. \A u \in Thread : job'[u] # None =>
          /\ job'[u].todo \cup job'[u].sent \subseteq Pages[job'[u].file]
          /\ job'[u].todo \cap (job'[u].done \cup job'[u].sent) = {}
    BY <1>1, <1>2 DEF TypeOK
  <2>2. QED
    BY <1>1, <1>2, <2>1 DEF TypeOK
<1>5. TakeTurns'
  BY <1>1, <1>2 DEF TakeTurns
<1>6. ASSUME NEW u \in Thread PROVE JobInv(u)'
  <2>1. CASE u = t
    BY <1>2, <2>1 DEF JobInv
  <2>2. CASE u # t /\ job[u] = None
    BY <1>2, <2>2 DEF JobInv
  <2>3. CASE u # t /\ job[u] # None
    BY <1>1, <1>2, <1>3, <1>4, <2>3, SameBlame, JobKept
  <2>4. QED
    BY <2>1, <2>2, <2>3
<1>7. ASSUME NEW g \in File PROVE FileInv(g)'
  <2>1. CASE g # f
    BY <1>1, <1>4, <2>1, SameBlame, FileKept
  <2>2. QED
    BY <2>1
<1>8. QED
  BY <1>4, <1>5, <1>6, <1>7 DEF OcrInv

\* Progress that is saved, or is not
LEMMA SavedIs ==
  ASSUME TypeOK, NEW f \in File, NEW w \in Progress \cup {None}, SavesProgress(f, w)
  PROVE  /\ saved' \in [File -> Progress \cup {None}]
         /\ \A g \in File : g # f => saved'[g] = saved[g]
         /\ saved' = saved \/ saved'[f] = w
         /\ saved'[f] \in {saved[f], w}
  BY DEF TypeOK, SavesProgress

\* The files of a document whose cached result and text stay
LEMMA FileSaved ==
  ASSUME OcrInv, NEW f \in File, cached'[f] = cached[f], torn'[f] = torn[f], blame' = blame,
         text'[f] = text[f] \/ text'[f] \in {None, Thin},
         NEW w, saved'[f] \in {saved[f], w},
         w # None => w.done \subseteq Pages[f],
         w # None => Owed(f, w.tries),
         w # None => Usable(f) \subseteq w.done
  PROVE  FileInv(f)'
<1>1. FileInv(f)
  BY DEF OcrInv
<1>2. Usable(f)' = Usable(f)
  BY DEF Usable
<1>3. saved'[f] # None => /\ saved'[f].done \subseteq Pages[f]
                          /\ Owed(f, saved'[f].tries)
                          /\ Usable(f) \subseteq saved'[f].done
  BY <1>1 DEF FileInv
<1>4. \A tries : Owed(f, tries) => \A p \in Page : tries[p] <= blame'[f][p]
  BY DEF Owed
<1>5. QED
  BY <1>1, <1>2, <1>3, <1>4 DEF FileInv, Owed

LEMMA SaveIncompleteStep ==
  ASSUME OcrInv, NEW t \in Thread, SaveIncomplete(t)
  PROVE  OcrInv'
<1> DEFINE j == job[t]
<1>0. PICK f : f = j.file
  OBVIOUS
<1>1. TypeOK /\ j # None /\ Answered(t)
  BY DEF OcrInv, SaveIncomplete, Answered
<1>2. /\ f \in File /\ Reached(j) \in Progress /\ Kept(f) \subseteq j.done
      /\ j.done \subseteq Pages[f] /\ Owed(f, j.tries)
  BY <1>0, <1>1, AnsweredIs
<1>3. /\ cached' = cached /\ torn' = torn /\ text' = text /\ blame' = blame /\ limit' = limit
      /\ failures' = failures /\ circuit' = circuit /\ job' = [job EXCEPT ![t] = None]
      /\ SavesProgress(f, Reached(j))
  BY <1>0 DEF SaveIncomplete, breaker
<1>4. /\ saved' \in [File -> Progress \cup {None}]
      /\ \A g \in File : g # f => saved'[g] = saved[g]
      /\ saved'[f] \in {saved[f], Reached(j)}
  BY <1>1, <1>2, <1>3, SavedIs
<1>5. /\ Reached(j).done \subseteq Pages[f] /\ Owed(f, Reached(j).tries)
      /\ Usable(f) \subseteq Reached(j).done
  BY <1>2 DEF Reached, Kept
<1>6. FileInv(f)'
  <2>1. cached'[f] = cached[f] /\ torn'[f] = torn[f] /\ text'[f] = text[f]
    BY <1>3
  <2>2. QED
    BY <1>2, <1>3, <1>4, <1>5, <2>1, FileSaved
<1>7. \A g \in File : g # f => SameFile(g) /\ text'[g] = text[g]
  BY <1>3, <1>4 DEF SameFile
<1>8. /\ cached' \in [File -> Cached \cup {None}] /\ torn' \in [File -> BOOLEAN]
      /\ text' \in [File -> Text \cup {None}]
  BY <1>1, <1>3 DEF TypeOK
<1>9. QED
  BY <1>0, <1>1, <1>2, <1>3, <1>4, <1>6, <1>7, <1>8, Ended

LEMMA RejectEmptyStep ==
  ASSUME OcrInv, NEW t \in Thread, RejectEmpty(t)
  PROVE  OcrInv'
<1> DEFINE j == job[t]
<1>0. PICK f : f = j.file
  OBVIOUS
<1>1. TypeOK /\ j # None /\ Answered(t)
  BY DEF OcrInv, RejectEmpty, Answered
<1>2. f \in File
  BY <1>0, <1>1, AnsweredIs
<1>3. /\ cached' = cached /\ torn' = torn /\ blame' = blame /\ limit' = limit
      /\ failures' = failures /\ circuit' = circuit /\ job' = [job EXCEPT ![t] = None]
      /\ SavesProgress(f, None) /\ text' = [text EXCEPT ![f] = Fallback(f)]
  BY <1>0 DEF RejectEmpty, breaker
<1>4. /\ saved' \in [File -> Progress \cup {None}]
      /\ \A g \in File : g # f => saved'[g] = saved[g]
      /\ saved'[f] \in {saved[f], None}
  BY <1>1, <1>2, <1>3, SavedIs
<1>5. /\ text' \in [File -> Text \cup {None}]
      /\ \A g \in File : text'[g] = text[g] \/ text'[g] \in {None, Thin}
      /\ \A g \in File : g # f => text'[g] = text[g]
  BY <1>1, <1>2, <1>3, FallbackIs DEF TypeOK
<1>6. FileInv(f)'
  <2>1. cached'[f] = cached[f] /\ torn'[f] = torn[f]
    BY <1>3
  <2>2. QED
    BY <1>2, <1>3, <1>4, <1>5, <2>1, FileSaved
<1>7. \A g \in File : g # f => SameFile(g) /\ text'[g] = text[g]
  BY <1>3, <1>4, <1>5 DEF SameFile
<1>8. cached' \in [File -> Cached \cup {None}] /\ torn' \in [File -> BOOLEAN]
  BY <1>1, <1>3 DEF TypeOK
<1>9. QED
  BY <1>0, <1>1, <1>2, <1>3, <1>4, <1>5, <1>6, <1>7, <1>8, Ended

\* A result that is cached has the pages of the attempt, and says of the others
\* no more attempts than they used.
LEMMA ResultIs ==
  ASSUME OcrInv, NEW t \in Thread, Answered(t), NEW f \in File, f = job[t].file,
         NEW b \in BOOLEAN
  PROVE  LET r == Result(f, job[t], b)
         IN /\ r \in Cached /\ r.done = job[t].done
            /\ job[t].done = Pages[f] => r.parses
            /\ r.spent # None => \A p \in Pages[f] \ r.done : r.spent <= blame[f][p]
<1> DEFINE j == job[t]
           D == Pages[f] \ j.done
           r == Result(f, j, b)
<1>1. j # None
  BY DEF Answered
<1>2. /\ j.done \in SUBSET Page /\ j.tries \in [Page -> Nat] /\ j.done \subseteq Pages[f]
      /\ Owed(f, j.tries)
  BY <1>1, AnsweredIs
<1>3. D \in SUBSET Page /\ \A p \in Page : blame[f][p] \in Nat
  BY PagesAssumption DEF OcrInv, TypeOK
<1>4. D = {} <=> j.done = Pages[f]
  BY <1>2
<1>5. D # {} => Fewest(j.tries, D) \in Nat /\ \A p \in D : Fewest(j.tries, D) <= j.tries[p]
  BY <1>2, <1>3, FewestIs
<1>6. r = [done |-> j.done, parses |-> b \/ j.done = Pages[f],
           spent |-> IF j.done = Pages[f] THEN None ELSE Fewest(j.tries, D)]
  BY DEF Result
<1>7. /\ r.done = j.done /\ r.parses = (b \/ j.done = Pages[f])
      /\ r.spent = IF j.done = Pages[f] THEN None ELSE Fewest(j.tries, D)
  BY <1>6
<1>8. (b \/ j.done = Pages[f]) \in BOOLEAN
  OBVIOUS
<1>9. r.spent \in Nat \cup {None}
  BY <1>4, <1>5, <1>7
<1>10. r \in Cached
  <2>1. r = [done |-> r.done, parses |-> r.parses, spent |-> r.spent]
    BY <1>6, <1>7
  <2>2. r.done \in SUBSET Page /\ r.parses \in BOOLEAN
    BY <1>2, <1>7, <1>8
  <2> HIDE DEF r
  <2>3. QED
    BY <2>1, <2>2, <1>9 DEF Cached
<1>11. r.spent # None => \A p \in Pages[f] \ r.done : r.spent <= blame[f][p]
  <2>1. CASE D # {}
    <3>1. \A p \in D : /\ Fewest(j.tries, D) \in Nat /\ j.tries[p] \in Nat /\ blame[f][p] \in Nat
                       /\ Fewest(j.tries, D) <= j.tries[p] /\ j.tries[p] <= blame[f][p]
      BY <1>2, <1>3, <1>5, <2>1 DEF Owed
    <3>2. r.spent = Fewest(j.tries, D) /\ Pages[f] \ r.done = D
      BY <1>4, <1>7, <2>1
    <3> HIDE DEF r, D
    <3>3. QED
      BY <3>1, <3>2
  <2>2. CASE D = {}
    BY <1>4, <1>7, <2>2
  <2>3. QED
    BY <2>1, <2>2
<1>12. QED
  BY <1>7, <1>10, <1>11

LEMMA SaveToCacheStep ==
  ASSUME OcrInv, NEW t \in Thread, SaveToCache(t)
  PROVE  OcrInv'
<1> DEFINE j == job[t]
<1>0. PICK f : f = j.file
  OBVIOUS
<1>1. TypeOK /\ j # None /\ Answered(t) /\ Pending(f, j) = {} /\ j.done # {} /\ JobInv(t)
  BY <1>0 DEF OcrInv, SaveToCache, Answered
<1>2. /\ f \in File /\ j \in Attempt /\ FileInv(f) /\ Kept(f) \subseteq j.done
      /\ j.done \subseteq Pages[f] /\ Owed(f, j.tries) /\ j.todo = {} /\ j.sent = {}
  BY <1>0, <1>1, AnsweredIs
<1>3. /\ saved' = saved /\ text' = text /\ blame' = blame /\ limit' = limit
      /\ failures' = failures /\ circuit' = circuit
  BY DEF SaveToCache, breaker
<1>4. /\ saved' \in [File -> Progress \cup {None}] /\ text' \in [File -> Text \cup {None}]
  BY <1>1, <1>3 DEF TypeOK
<1>5. PICK k : /\ job' = [job EXCEPT ![t] = k]
               /\ \/ /\ k = [j EXCEPT !.phase = "uncached"]
                     /\ cached' = cached /\ torn' = torn
                  \/ /\ k = [j EXCEPT !.phase = "cached"]
                     /\ \E b \in BOOLEAN : cached' = [cached EXCEPT ![f] = Result(f, j, b)]
                     /\ torn' = [torn EXCEPT ![f] = saved[f] # None]
  <2>1. CASE job' = [job EXCEPT ![t].phase = "uncached"] /\ cached' = cached /\ torn' = torn
    <3>1. job' = [job EXCEPT ![t] = [j EXCEPT !.phase = "uncached"]]
      BY <2>1
    <3>2. QED
      BY <2>1, <3>1
  <2>2. CASE /\ job' = [job EXCEPT ![t].phase = "cached"]
             /\ \E b \in BOOLEAN : cached' = [cached EXCEPT ![f] = Result(f, j, b)]
             /\ torn' = [torn EXCEPT ![f] = saved[f] # None]
    <3>1. job' = [job EXCEPT ![t] = [j EXCEPT !.phase = "cached"]]
      BY <2>2
    <3>2. QED
      BY <2>2, <3>1
  <2>3. QED
    BY <1>0, <2>1, <2>2 DEF SaveToCache
<1>6. /\ k \in Attempt /\ k # None /\ k.file = f /\ k.todo = {} /\ k.sent = {} /\ k.done = j.done
      /\ k.tries = j.tries /\ k.phase \in {"cached", "uncached"}
  BY <1>0, <1>2, <1>5, NoneAssumption DEF Attempt
<1>7. job'[t] = k
  BY <1>1, <1>5 DEF TypeOK
<1>8. Pending(f, k)' = {} /\ Owed(f, k.tries)'
  BY <1>1, <1>2, <1>3, <1>6 DEF Pending, Owed
<1>9. CASE k.phase = "uncached"
  <2>1. cached' = cached /\ torn' = torn
    BY <1>2, <1>5, <1>9 DEF Attempt
  <2>2. FileInv(f)' /\ Kept(f)' = Kept(f)
    BY <1>2, <1>3, <2>1 DEF FileInv, Owed, Usable, Kept
  <2>3. JobInv(t)'
    BY <1>1, <1>2, <1>3, <1>6, <1>7, <1>8, <1>9, <2>2 DEF JobInv
  <2>4. \A g \in File : g # f => SameFile(g) /\ text'[g] = text[g]
    BY <1>3, <2>1 DEF SameFile
  <2>5. cached' \in [File -> Cached \cup {None}] /\ torn' \in [File -> BOOLEAN]
    BY <1>1, <2>1 DEF TypeOK
  <2>6. QED
    BY <1>0, <1>1, <1>2, <1>3, <1>4, <1>5, <1>6, <2>2, <2>3, <2>4, <2>5, Ended
<1>10. CASE k.phase = "cached"
  <2>1. PICK b \in BOOLEAN : /\ cached' = [cached EXCEPT ![f] = Result(f, j, b)]
                             /\ torn' = [torn EXCEPT ![f] = saved[f] # None]
    BY <1>2, <1>5, <1>10 DEF Attempt
  <2>2. PICK r : r = Result(f, j, b)
    OBVIOUS
  <2>3. /\ r \in Cached /\ r.done = j.done /\ (j.done = Pages[f] => r.parses)
        /\ r.spent # None => \A p \in Pages[f] \ r.done : r.spent <= blame[f][p]
    BY <1>0, <1>1, <1>2, <2>2, ResultIs
  <2>4. /\ cached' \in [File -> Cached \cup {None}]
        /\ \A g \in File : cached'[g] = IF g = f THEN r ELSE cached[g]
    BY <1>1, <2>1, <2>2, <2>3 DEF TypeOK
  <2>5. /\ torn' \in [File -> BOOLEAN]
        /\ \A g \in File : torn'[g] = IF g = f THEN saved[f] # None ELSE torn[g]
    BY <1>1, <2>1 DEF TypeOK
  <2>6. cached'[f] = r /\ r # None /\ (torn'[f] <=> saved'[f] # None)
    BY <1>2, <1>3, <2>3, <2>4, <2>5, NoneAssumption
  <2>7. saved'[f] # None => Usable(f)' = {}
    BY <2>6 DEF Usable
  <2>8. Usable(f)' \subseteq j.done
    BY <2>3, <2>6 DEF Usable
  <2>9. saved[f] # None => saved[f].done \subseteq j.done
    BY <1>2 DEF Kept
  <2>10. Kept(f)' \subseteq j.done
    BY <1>3, <2>8, <2>9 DEF Kept
  <2>11. FileInv(f)'
    <3>1. saved'[f] # None => /\ saved'[f].done \subseteq Pages[f] /\ StillOwed(f, saved'[f].tries)
                              /\ Usable(f)' \subseteq saved'[f].done
      BY <1>2, <1>3, <2>7 DEF FileInv, Owed, StillOwed
    <3>2. text'[f] # None /\ text'[f] # Thin =>
            /\ text'[f].pages # {}
            /\ \A p \in Pages[f] \ text'[f].pages : text'[f].limit <= blame'[f][p]
      BY <1>2, <1>3 DEF FileInv
    <3>3. /\ cached'[f].done \subseteq Pages[f]
          /\ cached'[f].spent # None =>
               \A p \in Pages[f] \ cached'[f].done : cached'[f].spent <= blame'[f][p]
      BY <1>2, <1>3, <2>3, <2>6
    <3>4. QED
      BY <3>1, <3>2, <3>3 DEF FileInv, Owed, StillOwed
  <2>12. JobInv(t)'
    BY <1>1, <1>2, <1>3, <1>6, <1>7, <1>8, <2>3, <2>6, <2>10 DEF JobInv
  <2>13. \A g \in File : g # f => SameFile(g) /\ text'[g] = text[g]
    BY <1>3, <2>4, <2>5 DEF SameFile
  <2>14. QED
    BY <1>0, <1>1, <1>2, <1>3, <1>4, <1>5, <1>6, <2>4, <2>5, <2>11, <2>12, <2>13, Ended
<1>11. QED
  BY <1>6, <1>9, <1>10

\* What Finish leaves on disk: all that the attempt has, if anything was saved.
LEMMA FinishLeaves ==
  ASSUME OcrInv, NEW t \in Thread, Finish(t), NEW f \in File, f = job[t].file
  PROVE  /\ saved' \in [File -> Progress \cup {None}] /\ torn' \in [File -> BOOLEAN]
         /\ \A g \in File : g # f => saved'[g] = saved[g] /\ torn'[g] = torn[g]
         /\ \/ saved'[f] = saved[f] /\ torn'[f] = torn[f]
            \/ saved'[f] = Reached(job[t]) /\ Usable(f)' \subseteq job[t].done
            \/ /\ saved'[f] = None /\ ~torn'[f] /\ job[t].done = Pages[f]
               /\ cached[f] # None /\ cached[f].parses /\ cached[f].done = job[t].done
<1> DEFINE j == job[t]
<1>1. TypeOK /\ j # None /\ j.phase # "ocr" /\ JobInv(t)
  BY DEF OcrInv, Finish
<1>2. Reached(j) \in Progress /\ j \in Attempt /\ Kept(f) \subseteq j.done
  BY <1>1, AnsweredIs
<1>3. FinalProgress(j) \in Progress \cup {None}
  BY <1>2 DEF FinalProgress
<1>4. /\ SavesProgress(f, FinalProgress(j)) /\ cached' = cached
      /\ torn' = [torn EXCEPT ![f] = torn[f] /\ (saved' = saved \/ j.phase = "uncached")]
  BY DEF Finish
<1>5. /\ saved' \in [File -> Progress \cup {None}]
      /\ \A g \in File : g # f => saved'[g] = saved[g]
      /\ saved' = saved \/ saved'[f] = FinalProgress(j)
  BY <1>1, <1>3, <1>4, SavedIs
<1>6. /\ torn[f] \in BOOLEAN /\ torn' \in [File -> BOOLEAN]
      /\ \A g \in File : torn'[g] = IF g = f THEN torn[f] /\ (saved' = saved \/ j.phase = "uncached") ELSE torn[g]
  BY <1>1, <1>4 DEF TypeOK
<1>7. \/ saved'[f] = saved[f] /\ torn'[f] = torn[f]
      \/ saved'[f] = Reached(j) /\ Usable(f)' \subseteq j.done
      \/ /\ saved'[f] = None /\ ~torn'[f] /\ j.done = Pages[f]
         /\ cached[f] # None /\ cached[f].parses /\ cached[f].done = j.done
  <2>1. CASE saved' = saved
    BY <1>6, <2>1
  <2>2. CASE saved' # saved /\ j.phase = "uncached"
    <3>1. saved'[f] = Reached(j)
      BY <1>5, <2>2 DEF FinalProgress
    <3>2. torn'[f] = torn[f]
      BY <1>6, <2>2
    <3>3. Usable(f)' \subseteq j.done
      BY <1>2, <1>4, <3>2 DEF Usable, Kept
    <3>4. QED
      BY <3>1, <3>3
  <2>3. CASE saved' # saved /\ j.phase = "cached"
    <3>1. /\ cached[f] # None /\ cached[f].done = j.done
          /\ j.done = Pages[f] => cached[f].parses
      BY <1>1, <2>3 DEF JobInv
    <3>2. ~torn'[f]
      BY <1>6, <2>3
    <3>3. CASE j.done = Pages[f]
      BY <1>5, <2>3, <3>1, <3>2, <3>3 DEF FinalProgress
    <3>4. CASE j.done # Pages[f]
      <4>1. saved'[f] = Reached(j)
        BY <1>5, <2>3, <3>4 DEF FinalProgress
      <4>2. Usable(f)' \subseteq j.done
        BY <1>4, <3>1 DEF Usable
      <4>3. QED
        BY <4>1, <4>2
    <3>5. QED
      BY <3>3, <3>4
  <2>4. QED
    BY <1>1, <1>2, <2>1, <2>2, <2>3 DEF Attempt
<1>8. QED
  BY <1>5, <1>6, <1>7

LEMMA FinishStep ==
  ASSUME OcrInv, NEW t \in Thread, Finish(t)
  PROVE  OcrInv'
<1> DEFINE j == job[t]
<1>0. PICK f : f = j.file
  OBVIOUS
<1>1. TypeOK /\ j # None /\ j.phase # "ocr" /\ JobInv(t)
  BY DEF OcrInv, Finish
<1>2. /\ f \in File /\ j \in Attempt /\ FileInv(f) /\ j.done \in SUBSET Page
      /\ j.done \subseteq Pages[f] /\ Owed(f, j.tries)
  BY <1>0, <1>1, AnsweredIs
<1>3. j.done # {} /\ \A p \in Pages[f] \ j.done : limit <= blame[f][p]
  <2>1. j.done # {} /\ Pending(f, j) = {}
    BY <1>0, <1>1 DEF JobInv
  <2>2. QED
    BY <1>0, <1>1, <2>1, AnsweredIs
<1>4. /\ cached' = cached /\ blame' = blame /\ limit' = limit
      /\ failures' = failures /\ circuit' = circuit /\ job' = [job EXCEPT ![t] = None]
  BY DEF Finish, breaker
<1>5. PICK x \in Accepted(f, j.done) : text' = [text EXCEPT ![f] = x]
  BY <1>0 DEF Finish
<1>6. x \in Text /\ (x = Thin \/ (x.pages = j.done /\ x.limit = limit))
  BY <1>1, <1>2, AcceptedIs
<1>7. /\ text' \in [File -> Text \cup {None}] /\ cached' \in [File -> Cached \cup {None}]
      /\ \A g \in File : text'[g] = IF g = f THEN x ELSE text[g]
  BY <1>1, <1>4, <1>5, <1>6 DEF TypeOK
<1>8. /\ saved' \in [File -> Progress \cup {None}] /\ torn' \in [File -> BOOLEAN]
      /\ \A g \in File : g # f => saved'[g] = saved[g] /\ torn'[g] = torn[g]
      /\ \/ saved'[f] = saved[f] /\ torn'[f] = torn[f]
         \/ saved'[f] = Reached(j) /\ Usable(f)' \subseteq j.done
         \/ saved'[f] = None
  <2>1. /\ saved' \in [File -> Progress \cup {None}] /\ torn' \in [File -> BOOLEAN]
        /\ \A g \in File : g # f => saved'[g] = saved[g] /\ torn'[g] = torn[g]
    BY <1>0, <1>2, FinishLeaves
  <2>2. \/ saved'[f] = saved[f] /\ torn'[f] = torn[f]
        \/ saved'[f] = Reached(j) /\ Usable(f)' \subseteq j.done
        \/ saved'[f] = None
    BY <1>0, <1>2, FinishLeaves
  <2>3. QED
    BY <2>1, <2>2
<1>9. FileInv(f)'
  <2>1. saved'[f] # None => /\ saved'[f].done \subseteq Pages[f] /\ StillOwed(f, saved'[f].tries)
                            /\ Usable(f)' \subseteq saved'[f].done
    <3>1. CASE saved'[f] = saved[f] /\ torn'[f] = torn[f]
      BY <1>2, <1>4, <3>1 DEF FileInv, Owed, StillOwed, Usable
    <3>2. CASE saved'[f] = Reached(j) /\ Usable(f)' \subseteq j.done
      <4>1. Reached(j).done = j.done /\ Reached(j).tries = j.tries
        BY DEF Reached
      <4>2. QED
        BY <1>2, <1>4, <3>2, <4>1 DEF Owed, StillOwed
    <3>3. QED
      BY <1>8, <3>1, <3>2
  <2>2. text'[f] # None /\ text'[f] # Thin =>
          /\ text'[f].pages # {}
          /\ \A p \in Pages[f] \ text'[f].pages : text'[f].limit <= blame'[f][p]
    BY <1>2, <1>3, <1>4, <1>6, <1>7
  <2>3. QED
    BY <1>2, <1>4, <2>1, <2>2 DEF FileInv, Owed, StillOwed
<1>10. \A g \in File : g # f => SameFile(g) /\ text'[g] = text[g]
  BY <1>4, <1>7, <1>8 DEF SameFile
<1>11. QED
  BY <1>0, <1>1, <1>2, <1>4, <1>7, <1>8, <1>9, <1>10, Ended

-----------------------------------------------------------------------------
(* The specification. *)

LEMMA OcrInit == Init => OcrInv
<1> SUFFICES ASSUME Init PROVE OcrInv
  OBVIOUS
<1>1. cached \in [File -> Cached \cup {None}]
  <2>1. CASE cached = [f \in File |-> None]
    BY <2>1
  <2>2. CASE \E b \in BOOLEAN : cached \in
               [File -> [done : SUBSET Page, spent : {None}, parses : {b}] \cup {None}]
    <3>1. PICK b \in BOOLEAN : cached \in
            [File -> [done : SUBSET Page, spent : {None}, parses : {b}] \cup {None}]
      BY <2>2
    <3>2. [done : SUBSET Page, spent : {None}, parses : {b}] \subseteq Cached
      BY DEF Cached
    <3>3. QED
      BY <3>1, <3>2
  <2>3. QED
    BY <2>1, <2>2 DEF Init
<1>2. \A f \in File : cached[f] # None => cached[f].spent = None
  <2>1. CASE cached = [f \in File |-> None]
    BY <2>1
  <2>2. CASE \E b \in BOOLEAN : cached \in
               [File -> [done : SUBSET Page, spent : {None}, parses : {b}] \cup {None}]
    BY <2>2
  <2>3. QED
    BY <2>1, <2>2 DEF Init
<1>3. /\ saved = [f \in File |-> None] /\ job = [t \in Thread |-> None]
      /\ text = [f \in File |-> None] /\ torn = [f \in File |-> FALSE]
      /\ failures = 0 /\ circuit = None /\ limit \in Limits
      /\ blame = [f \in File |-> [p \in Page |-> 0]]
      /\ \A f \in File : cached[f] # None => cached[f].done \subseteq Pages[f]
  BY DEF Init
<1>4. TypeOK
  <2>1. failures \in 0..MaxFailures
    BY <1>3, FailuresAssumption
  <2>2. blame \in [File -> [Page -> Nat]]
    BY <1>3
  <2>3. QED
    BY <1>1, <1>3, <2>1, <2>2 DEF TypeOK
<1>5. TakeTurns /\ \A t \in Thread : JobInv(t)
  BY <1>3 DEF TakeTurns, JobInv
<1>6. \A f \in File : FileInv(f)
  BY <1>2, <1>3 DEF FileInv
<1>7. QED
  BY <1>4, <1>5, <1>6 DEF OcrInv

LEMMA OcrNext == OcrInv /\ [Next]_vars => OcrInv'
<1> SUFFICES ASSUME OcrInv, [Next]_vars PROVE OcrInv'
  OBVIOUS
<1>1. ASSUME NEW t \in Thread, NEW f \in File, Serve(t, f) \/ Begin(t, f) \/ CannotStart(t, f)
      PROVE  OcrInv'
  BY <1>1, ServeStep, BeginStep, CannotStartStep
<1>2. ASSUME NEW t \in Thread, Advance(t) PROVE OcrInv'
  BY <1>2, SendStep, ShortCircuitStep, SucceedStep, UnavailableStep, FailStep,
     SaveIncompleteStep, RejectEmptyStep, SaveToCacheStep, FinishStep DEF Advance, Answer
<1>3. ASSUME NEW t \in Thread, NEW u \in Thread, NEW p \in Page, NEW q \in Page,
             Overtaken(t, p, u, q)
      PROVE  OcrInv'
  BY <1>3, OvertakenStep
<1>4. CASE CoolDown
  BY <1>4, CoolDownStep
<1>5. CASE Restart
  BY <1>5, RestartStep
<1>6. CASE UNCHANGED vars
  BY <1>6 DEF vars, breaker, events, OcrInv, TypeOK, TakeTurns, JobInv, FileInv, Owed,
     Kept, Usable, Pending
<1>7. QED
  BY <1>1, <1>2, <1>3, <1>4, <1>5, <1>6 DEF Next

LEMMA Invariance == Spec => []OcrInv
  BY OcrInit, OcrNext, PTL DEF Spec

\* Every variable has its type, and an attempt sends only pages of its own file
\* that it has neither read nor sent.
THEOREM TypeCorrect == Spec => []TypeOK
<1>1. OcrInv => TypeOK
  BY DEF OcrInv
<1>2. QED
  BY <1>1, Invariance, PTL

\* _resume_ocr charges a page for what it failed itself and for nothing else,
\* whatever files are lost and however often the process ends.
THEOREM GivenUpEarned == Spec => []GivenUpIsEarned
<1>1. OcrInv => GivenUpIsEarned
  <2> SUFFICES ASSUME OcrInv, NEW f \in File
               PROVE  /\ cached[f] # None /\ cached[f].spent # None =>
                           \A p \in Pages[f] \ cached[f].done : blame[f][p] >= cached[f].spent
                      /\ text[f] # None /\ text[f] # Thin =>
                           /\ text[f].pages # {}
                           /\ \A p \in Pages[f] \ text[f].pages : blame[f][p] >= text[f].limit
    BY DEF GivenUpIsEarned
  <2>1. TypeOK /\ FileInv(f)
    BY DEF OcrInv
  <2>2. \A p \in Pages[f] : blame[f][p] \in Nat
    BY <2>1, PagesAssumption DEF TypeOK
  <2>3. cached[f] # None /\ cached[f].spent # None => cached[f].spent \in Nat
    BY <2>1 DEF TypeOK, Cached
  <2>4. text[f] # None /\ text[f] # Thin => text[f].limit \in Nat
    BY <2>1, LimitsAssumption DEF TypeOK, Text
  <2>5. QED
    BY <2>1, <2>2, <2>3, <2>4 DEF FileInv
<1>2. QED
  BY <1>1, Invariance, PTL

\* An attempt begins with every page that is on disk, so it sends none of them.
THEOREM SentOnce == Spec => NeverResent
<1> DEFINE Once == \A t \in Thread, p \in Page : Sends(t, p) => p \notin Kept(job[t].file)
<1>1. ASSUME OcrInv, Next, NEW t \in Thread, NEW p \in Page, Sends(t, p)
      PROVE  p \notin Kept(job[t].file)
  <2> DEFINE j == job[t]
             k == job'[t]
  <2>1. TypeOK /\ JobInv(t) /\ j # None /\ p \notin j.sent /\ k # None /\ p \in k.sent
    BY <1>1 DEF OcrInv, Sends
  <2>2. j \in Attempt /\ job \in [Thread -> Attempt \cup {None}]
    BY <2>1, AttemptType DEF TypeOK
  <2>3. /\ j.done \cap (j.todo \cup j.sent) = {} /\ j.todo \cap j.sent = {}
        /\ Kept(j.file) \subseteq j.done
    BY <2>1 DEF JobInv
  <2>4. ASSUME NEW q \in Page, Moved(j, k, q) PROVE p \notin Kept(j.file)
    <3>1. k.todo \cup k.sent \subseteq j.todo \cup j.sent
      <4> HIDE DEF j, k
      <4>1. QED
        BY <2>2, <2>3, <2>4, MovedIs
    <3>2. QED
      BY <2>1, <2>3, <3>1
  <2>5. ASSUME k.sent = j.sent \/ k = j PROVE FALSE
    BY <2>1, <2>5
  <2>6. ASSUME NEW u \in Thread, NEW f \in File, Serve(u, f) \/ Begin(u, f) \/ CannotStart(u, f)
        PROVE  FALSE
    <3>1. CASE k = j
      BY <2>5, <3>1
    <3>2. CASE Begin(u, f) /\ u = t
      BY <2>1, <3>2 DEF Begin
    <3>3. QED
      BY <2>2, <2>6, <3>1, <3>2 DEF Serve, Begin, CannotStart
  <2>7. ASSUME NEW u \in Thread, NEW q \in Page,
               Send(u, q) \/ ShortCircuit(u, q) \/ Answer(u, q)
        PROVE  p \notin Kept(j.file)
    <3>1. CASE u = t
      <4>1. Moved(j, k, q)
        BY <2>2, <2>7, <3>1 DEF Send, ShortCircuit, Answer, Succeed, Unavailable, Fail, Moved
      <4>2. QED
        BY <2>4, <4>1
    <3>2. CASE u # t
      <4>1. k = j
        BY <2>2, <2>7, <3>2 DEF Send, ShortCircuit, Answer, Succeed, Unavailable, Fail
      <4>2. QED
        BY <2>5, <4>1
    <3>3. QED
      BY <3>1, <3>2
  <2>8. ASSUME NEW u \in Thread, SaveIncomplete(u) \/ RejectEmpty(u) \/ SaveToCache(u) \/ Finish(u)
        PROVE  FALSE
    <3>1. CASE u = t
      <4>1. CASE SaveToCache(u)
        <5>1. job' = [job EXCEPT ![t].phase = "cached"] \/ job' = [job EXCEPT ![t].phase = "uncached"]
          BY <3>1, <4>1 DEF SaveToCache
        <5>2. k.sent = j.sent
          BY <2>2, <5>1 DEF Attempt
        <5>3. QED
          BY <2>5, <5>2
      <4>2. CASE SaveIncomplete(u) \/ RejectEmpty(u) \/ Finish(u)
        <5>1. k = None
          BY <2>2, <3>1, <4>2 DEF SaveIncomplete, RejectEmpty, Finish
        <5>2. QED
          BY <2>1, <5>1
      <4>3. QED
        BY <2>8, <4>1, <4>2
    <3>2. CASE u # t
      <4>1. k = j
        BY <2>2, <2>8, <3>2 DEF SaveIncomplete, RejectEmpty, SaveToCache, Finish
      <4>2. QED
        BY <2>5, <4>1
    <3>3. QED
      BY <3>1, <3>2
  <2>9. ASSUME NEW u \in Thread, NEW v \in Thread, NEW q \in Page, NEW r \in Page,
               Overtaken(u, q, v, r)
        PROVE  p \notin Kept(j.file)
    <3>1. CASE t = v
      <4>1. Moved(j, k, r)
        BY <2>2, <2>9, <3>1 DEF Overtaken, Moved
      <4>2. QED
        BY <2>4, <4>1
    <3>2. CASE t = u
      BY <2>1, <2>2, <2>9, <3>2 DEF Overtaken
    <3>3. CASE t # u /\ t # v
      <4>1. k = j
        BY <2>2, <2>9, <3>3 DEF Overtaken
      <4>2. QED
        BY <2>5, <4>1
    <3>4. QED
      BY <3>1, <3>2, <3>3
  <2>10. CASE CoolDown
    BY <2>5, <2>10 DEF CoolDown
  <2>11. CASE Restart
    BY <2>1, <2>11 DEF Restart
  <2>12. ASSUME NEW u \in Thread, Advance(u) PROVE p \notin Kept(j.file)
    BY <2>7, <2>8, <2>12 DEF Advance
  <2>13. QED
    BY <1>1, <2>6, <2>9, <2>10, <2>11, <2>12 DEF Next
<1>2. OcrInv /\ [Next]_vars => [Once]_vars
  BY <1>1
<1>3. QED
  BY <1>2, Invariance, PTL DEF Spec, NeverResent

\* Of the files of a document only the end of its attempt changes anything.
LEMMA DiskMoves ==
  ASSUME Next
  PROVE  \/ \A f \in File : SameFile(f)
         \/ \E t \in Thread : SaveIncomplete(t) \/ RejectEmpty(t) \/ SaveToCache(t) \/ Finish(t)
<1>1. ASSUME NEW t \in Thread, NEW f \in File, Serve(t, f) \/ Begin(t, f) \/ CannotStart(t, f)
      PROVE  \A g \in File : SameFile(g)
  BY <1>1 DEF Serve, Begin, CannotStart, SameFile
<1>2. ASSUME NEW t \in Thread, NEW p \in Page, Send(t, p) \/ ShortCircuit(t, p) \/ Answer(t, p)
      PROVE  \A g \in File : SameFile(g)
  BY <1>2 DEF Send, ShortCircuit, Answer, Succeed, Unavailable, Fail, SameFile
<1>3. ASSUME NEW t \in Thread, NEW u \in Thread, NEW p \in Page, NEW q \in Page, Overtaken(t, p, u, q)
      PROVE  \A g \in File : SameFile(g)
  BY <1>3 DEF Overtaken, SameFile
<1>4. ASSUME CoolDown \/ Restart PROVE \A g \in File : SameFile(g)
  BY <1>4 DEF CoolDown, Restart, SameFile
<1>5. QED
  BY <1>1, <1>2, <1>3, <1>4 DEF Next, Advance

\* Of the pages of a document on disk none is lost: an attempt has them all, and
\* progress that is removed was cached before.
THEOREM PagesKept == Spec => NothingForgotten
<1> DEFINE Stays == \A f \in File :
             cached'[f] = cached[f] \/ cached'[f].parses => Kept(f) \subseteq Kept(f)'
<1>1. ASSUME OcrInv, Next, NEW g \in File, cached'[g] = cached[g] \/ cached'[g].parses
      PROVE  Kept(g) \subseteq Kept(g)'
  <2>1. CASE SameFile(g)
    BY <2>1 DEF SameFile, Kept, Usable
  <2>2. ASSUME NEW t \in Thread,
               SaveIncomplete(t) \/ RejectEmpty(t) \/ SaveToCache(t) \/ Finish(t)
        PROVE  Kept(g) \subseteq Kept(g)'
    <3> DEFINE j == job[t]
    <3>0. PICK f : f = j.file
      OBVIOUS
    <3>1. TypeOK /\ j # None /\ (Answered(t) \/ j.phase # "ocr")
      <4>1. TypeOK
        BY <1>1 DEF OcrInv
      <4>2. Answered(t) \/ (j # None /\ j.phase # "ocr")
        BY <2>2 DEF SaveIncomplete, RejectEmpty, SaveToCache, Finish
      <4>3. Answered(t) => j # None
        BY DEF Answered
      <4>4. QED
        BY <4>1, <4>2, <4>3
    <3>2. /\ f \in File /\ FileInv(f) /\ Kept(f) \subseteq j.done /\ Reached(j) \in Progress
          /\ Reached(j) # None /\ Reached(j).done = j.done
      <4>1. f \in File /\ FileInv(f) /\ Kept(f) \subseteq j.done /\ Reached(j) \in Progress
        BY <1>1, <3>0, <3>1, AnsweredIs
      <4>2. QED
        BY <4>1, NoneAssumption DEF Reached
    <3>3. saved'[f] = Reached(j) => Kept(g) \subseteq Kept(g)' \/ g # f
      BY <3>2 DEF Kept
    <3>4. CASE SaveIncomplete(t)
      <4>1. cached' = cached /\ torn' = torn /\ SavesProgress(f, Reached(j))
        BY <3>0, <3>4 DEF SaveIncomplete
      <4>2. (\A h \in File : h # f => saved'[h] = saved[h]) /\ saved'[f] \in {saved[f], Reached(j)}
        BY <3>1, <3>2, <4>1, SavedIs
      <4>3. QED
        BY <2>1, <3>3, <4>1, <4>2 DEF SameFile
    <3>5. CASE RejectEmpty(t)
      <4>1. cached' = cached /\ torn' = torn /\ SavesProgress(f, None) /\ j.done = {}
        BY <3>0, <3>5 DEF RejectEmpty
      <4>2. \A h \in File : h # f => saved'[h] = saved[h]
        BY <3>1, <3>2, <4>1, SavedIs
      <4>3. Kept(f) = {}
        BY <3>2, <4>1
      <4>4. QED
        BY <2>1, <4>1, <4>2, <4>3 DEF SameFile
    <3>6. CASE SaveToCache(t)
      <4>1. saved' = saved /\ Answered(t)
        BY <3>6 DEF SaveToCache
      <4>2. CASE cached' = cached /\ torn' = torn
        BY <2>1, <4>1, <4>2 DEF SameFile
      <4>3. CASE /\ \E b \in BOOLEAN : cached' = [cached EXCEPT ![f] = Result(f, j, b)]
                 /\ torn' = [torn EXCEPT ![f] = saved[f] # None]
        <5>1. PICK b \in BOOLEAN : cached' = [cached EXCEPT ![f] = Result(f, j, b)]
          BY <4>3
        <5>2. PICK r : r = Result(f, j, b)
          OBVIOUS
        <5>3. r \in Cached /\ r.done = j.done
          BY <1>1, <3>0, <3>2, <4>1, <5>2, ResultIs
        <5>4. \A h \in File : /\ cached'[h] = IF h = f THEN r ELSE cached[h]
                              /\ torn'[h] = IF h = f THEN saved[f] # None ELSE torn[h]
          BY <3>1, <4>3, <5>1, <5>2 DEF TypeOK
        <5>5. CASE g # f
          BY <2>1, <4>1, <5>4, <5>5 DEF SameFile
        <5>6. CASE g = f /\ saved[f] # None
          <6>1. Usable(f) \subseteq saved[f].done
            BY <3>2, <5>6 DEF FileInv
          <6>2. QED
            BY <4>1, <5>6, <6>1 DEF Kept
        <5>7. CASE g = f /\ saved[f] = None
          <6>1. cached'[f] = r /\ ~torn'[f] /\ r # None
            BY <3>2, <5>3, <5>4, <5>7, NoneAssumption
          <6>2. CASE r.parses
            <7>1. Kept(f)' = j.done
              BY <4>1, <5>3, <5>7, <6>1, <6>2 DEF Kept, Usable
            <7>2. QED
              BY <3>2, <5>7, <7>1
          <6>3. CASE ~r.parses
            <7>1. Kept(f) = {}
              BY <1>1, <5>7, <6>1, <6>3 DEF Kept, Usable
            <7>2. QED
              BY <5>7, <7>1
          <6>4. QED
            BY <6>2, <6>3
        <5>8. QED
          BY <5>5, <5>6, <5>7
      <4>4. QED
        BY <3>0, <3>6, <4>2, <4>3 DEF SaveToCache
    <3>7. CASE Finish(t)
      <4>1. cached' = cached
        BY <3>7 DEF Finish
      <4>2. \A h \in File : h # f => saved'[h] = saved[h] /\ torn'[h] = torn[h]
        BY <1>1, <3>0, <3>2, <3>7, FinishLeaves
      <4>3. \/ saved'[f] = saved[f] /\ torn'[f] = torn[f]
            \/ saved'[f] = Reached(j)
            \/ /\ saved'[f] = None /\ ~torn'[f]
               /\ cached[f] # None /\ cached[f].parses /\ cached[f].done = j.done
        BY <1>1, <3>0, <3>2, <3>7, FinishLeaves
      <4>4. CASE \/ g # f
                 \/ saved'[f] = saved[f] /\ torn'[f] = torn[f]
        BY <2>1, <4>1, <4>2, <4>4 DEF SameFile
      <4>5. CASE g = f /\ saved'[f] = Reached(j)
        BY <3>3, <4>5
      <4>6. CASE /\ g = f /\ saved'[f] = None /\ ~torn'[f]
                 /\ cached[f] # None /\ cached[f].parses /\ cached[f].done = j.done
        <5>1. Kept(f)' = j.done
          BY <4>1, <4>6 DEF Kept, Usable
        <5>2. QED
          BY <3>2, <4>6, <5>1
      <4>7. QED
        BY <4>3, <4>4, <4>5, <4>6
    <3>8. QED
      BY <2>2, <3>4, <3>5, <3>6, <3>7
  <2>3. QED
    BY <1>1, <2>1, <2>2, DiskMoves
<1>2. OcrInv /\ [Next]_vars => [Stays]_vars
  BY <1>1
<1>3. QED
  BY <1>2, Invariance, PTL DEF Spec, NothingForgotten
=============================================================================

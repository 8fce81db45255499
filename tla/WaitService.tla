---------------------------- MODULE WaitService ----------------------------
(***************************************************************************)
(* What the processor promises to the callers of wait_for: an outcome is   *)
(* published to everybody who sleeps on the document and to nobody else,   *)
(* and whoever stops sleeping answers with the outcome it finds.  Nothing  *)
(* is said of events, of who creates and removes them, or of counts.       *)
(***************************************************************************)
CONSTANTS Doc,     \* documents
          Caller,  \* calls of wait_for
          Result,  \* the outcomes of a document
          None     \* no document, no outcome

VARIABLES outcome, \* of each document, while it is remembered
          waiter   \* of each call: its state, its document, and its answer

vars == <<outcome, waiter>>

Idle == [state |-> "idle", doc |-> None, answer |-> None]
Waiting(state, d) == [state |-> state, doc |-> d, answer |-> None]
Returned(answer) == [state |-> "returned", doc |-> None, answer |-> answer]

Asleep(c, d) == waiter[c].state = "asleep" /\ waiter[c].doc = d
Awake(c, d) == waiter[c].state = "awake" /\ waiter[c].doc = d

Init == /\ outcome = [d \in Doc |-> None]
        /\ waiter = [c \in Caller |-> Idle]

\* Every sleeper of the document is woken in the step that publishes.
Publish(d, result) ==
  /\ outcome' = [outcome EXCEPT ![d] = result]
  /\ waiter' = [c \in Caller |->
       IF Asleep(c, d) THEN [waiter[c] EXCEPT !.state = "awake"] ELSE waiter[c]]

\* A new submission withdraws the outcome of the one before.
Withdraw(d) == /\ outcome' = [outcome EXCEPT ![d] = None]
               /\ UNCHANGED waiter

\* A remembered outcome is the answer; without one the registry may have it.
AnswerAtOnce(c, d, result) ==
  /\ waiter[c].state = "idle" /\ outcome[d] \in {None, result}
  /\ waiter' = [waiter EXCEPT ![c] = Returned(result)]
  /\ UNCHANGED outcome

\* Nobody goes to sleep on a remembered outcome.  A call that finds others
\* awake, who have still to answer, joins them.
Wait(c, d) ==
  /\ waiter[c].state = "idle" /\ outcome[d] = None
  /\ waiter' = [waiter EXCEPT ![c] =
       Waiting(IF \E b \in Caller : Awake(b, d) THEN "awake" ELSE "asleep", d)]
  /\ UNCHANGED outcome

\* A woken call answers, and so does a sleeping one whose time is up.
Answer(c) ==
  /\ waiter[c].state \in {"asleep", "awake"}
  /\ waiter' = [waiter EXCEPT ![c] = Returned(outcome[waiter[c].doc])]
  /\ UNCHANGED outcome

\* The process ends.
Forget == /\ outcome' = [d \in Doc |-> None]
          /\ waiter' = [c \in Caller |-> Idle]

Next ==
  \/ \E d \in Doc : \/ Withdraw(d)
                    \/ \E result \in Result : Publish(d, result)
  \/ \E c \in Caller : \/ Answer(c)
                       \/ \E d \in Doc : \/ Wait(c, d)
                                         \/ \E result \in Result : AnswerAtOnce(c, d, result)
  \/ Forget

Spec == Init /\ [][Next]_vars
=============================================================================

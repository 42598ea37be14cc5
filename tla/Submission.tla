----------------------------- MODULE Submission -----------------------------
(***************************************************************************)
(* POST /thread/<slug>: the handler of src/lib/web/mod.rs from the form to *)
(* its answer, for several requests at once.  Requests whose slug, parent, *)
(* name and body agree have the same key; the handler lets the first of    *)
(* them through and answers the others with the same redirect for as long  *)
(* as the key was seen in the last 60 seconds.                             *)
(*                                                                         *)
(* The queue is a set of rows here, one per request that reached it.  What *)
(* becomes of a row is SmtpSink's; its request states are those between    *)
(* "invalidated" and the answer.                                           *)
(***************************************************************************)
EXTENDS Naturals, FiniteSets

CONSTANTS
  Requests,   \* the form submissions, re-clicks included
  Keys,       \* the keys they hash to
  KeyOf       \* KeyOf[r]: the key of request r

ASSUME SubmissionConstants == KeyOf \in [Requests -> Keys]

VARIABLES
  relay,     \* web.relay_comments
  recent,    \* the keys in recent_submissions seen within DEDUPE_WINDOW
  stage,     \* stage[r]: how far the handler of r has come, or its answer
  rows,      \* the requests whose comment was queued; survives a restart
  lapses     \* ghost: lapses[k]: how often k fell out of recent

vars == <<relay, recent, stage, rows, lapses>>

\* The handler is running.
InFlight == {"admitted", "invalidated", "queued"}

\* 303 twice (queued or taken for a duplicate), 400, 500, 403, no answer.
Answer == {"accepted", "duplicate", "malformed", "failed", "forbidden", "cut"}

Step(r, from, to) == stage[r] = from /\ stage' = [stage EXCEPT ![r] = to]

-----------------------------------------------------------------------------

Forbid(r) ==
  /\ ~relay /\ Step(r, "none", "forbidden")
  /\ UNCHANGED <<relay, recent, rows, lapses>>

\* Mutant of Admit: the key is looked up but not recorded.
MutAdmit(r) ==
  /\ relay /\ KeyOf[r] \notin recent
  /\ Step(r, "none", "admitted")
  /\ UNCHANGED <<relay, recent, rows, lapses>>

\* is_duplicate_submission records the key in the same locked step.
Admit(r) ==
  /\ relay /\ KeyOf[r] \notin recent
  /\ Step(r, "none", "admitted")
  /\ recent' = recent \cup {KeyOf[r]}
  /\ UNCHANGED <<relay, rows, lapses>>

\* Mutant of Deduplicate: any recent submission is taken for the same one.
MutDeduplicate(r) ==
  /\ relay /\ recent # {}
  /\ Step(r, "none", "duplicate")
  /\ UNCHANGED <<relay, recent, rows, lapses>>

\* A duplicate is recorded too, which keeps the key in the window.
Deduplicate(r) ==
  /\ relay /\ KeyOf[r] \in recent
  /\ Step(r, "none", "duplicate")
  /\ UNCHANGED <<relay, recent, rows, lapses>>

\* The cache entry of the thread is invalidated; an error is ignored.
Invalidate(r) ==
  /\ Step(r, "admitted", "invalidated")
  /\ UNCHANGED <<relay, recent, rows, lapses>>

\* compose fails on an address or on the content of the form.
ComposeFails(r) ==
  /\ Step(r, "invalidated", "malformed")
  /\ UNCHANGED <<relay, recent, rows, lapses>>

\* No envelope, or the sink could not write its queue.
SubmitFails(r) ==
  /\ Step(r, "invalidated", "failed")
  /\ UNCHANGED <<relay, recent, rows, lapses>>

\* Mutant of Enqueue: the row is written under the key.
MutEnqueue(r) ==
  /\ Step(r, "invalidated", "queued")
  /\ rows' = rows \cup {KeyOf[r]}
  /\ UNCHANGED <<relay, recent, lapses>>

\* submit's enqueue: from here on the comment survives a restart.
Enqueue(r) ==
  /\ Step(r, "invalidated", "queued")
  /\ rows' = rows \cup {r}
  /\ UNCHANGED <<relay, recent, lapses>>

Accept(r) ==
  /\ Step(r, "queued", "accepted")
  /\ UNCHANGED <<relay, recent, rows, lapses>>

\* DEDUPE_WINDOW passes without another submission of k.
Lapse(k) ==
  /\ k \in recent
  /\ recent' = recent \ {k}
  /\ lapses' = [lapses EXCEPT ![k] = @ + 1]
  /\ UNCHANGED <<relay, stage, rows>>

\* The process restarts: the keys are forgotten and running handlers cut.
Restart ==
  /\ recent' = {}
  /\ lapses' = [k \in Keys |-> IF k \in recent THEN lapses[k] + 1 ELSE lapses[k]]
  /\ stage' = [r \in Requests |-> IF stage[r] \in InFlight THEN "cut" ELSE stage[r]]
  /\ UNCHANGED <<relay, rows>>

Init ==
  /\ relay \in BOOLEAN
  /\ recent = {} /\ rows = {}
  /\ stage = [r \in Requests |-> "none"]
  /\ lapses = [k \in Keys |-> 0]

Handle(r) ==
  \/ Forbid(r) \/ Admit(r) \/ Deduplicate(r) \/ Invalidate(r)
  \/ ComposeFails(r) \/ SubmitFails(r) \/ Enqueue(r) \/ Accept(r)

Next ==
  \/ \E r \in Requests : Handle(r)
  \/ \E k \in Keys : Lapse(k)
  \/ Restart

Spec == Init /\ [][Next]_vars
-----------------------------------------------------------------------------

TypeOK ==
  /\ relay \in BOOLEAN /\ recent \in SUBSET Keys /\ rows \in SUBSET Requests
  /\ stage \in [Requests -> {"none"} \cup InFlight \cup Answer]
  /\ lapses \in [Keys -> Nat]

\* However clicks and handlers interleave, the same submission is queued once
\* per window: a second time only after its key fell out of the window or the
\* process restarted ("Guards against a re-click before a slow request
\* returns", src/lib/web/mod.rs:55).
RowsOf(k) == {r \in rows : KeyOf[r] = k}
OncePerWindow == \A k \in Keys : Cardinality(RowsOf(k)) <= 1 + lapses[k]

\* A submission is taken for a duplicate only if one like it was let through:
\* the first of its kind is never swallowed.
DuplicateOfSomething ==
  \A r \in Requests : stage[r] = "duplicate" =>
    \E q \in Requests : /\ KeyOf[q] = KeyOf[r]
                        /\ stage[q] \notin {"none", "duplicate", "forbidden"}

\* A redirect, unlike an error, tells the visitor that the comment is queued
\* ("A submitted comment is queued locally and delivered over SMTP in the
\* background", README.md:27): once every handler has answered, a comment
\* that was ever answered with a redirect has a row.
RedirectMeansQueued ==
  \A r \in Requests :
    /\ stage[r] \in {"accepted", "duplicate"}
    /\ \A q \in Requests : stage[q] \notin InFlight \cup {"cut"}
    => RowsOf(KeyOf[r]) # {}
=============================================================================

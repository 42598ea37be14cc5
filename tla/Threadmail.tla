----------------------------- MODULE Threadmail -----------------------------
(***************************************************************************)
(* The composition: a comment's way from the form through the outgoing     *)
(* queue to the list, from there into the mailbox and onto the page.  The  *)
(* POST handler is Submission's and the sink SmtpSink's, in one process    *)
(* that boots the sink before it binds its listener (src/main.rs) and dies *)
(* as a whole.  The incoming half enters by its promise, CommentCache,     *)
(* which Refresh implements; what others send to the list is left out.     *)
(*                                                                         *)
(* The rows of Submission are no state of their own here: a request has a  *)
(* row exactly if the sink's half of submit has written one.               *)
(***************************************************************************)
EXTENDS Naturals, FiniteSets, Sequences

CONSTANTS
  Requests,       \* the form submissions, re-clicks included
  Keys, KeyOf,    \* KeyOf[r]: the key r hashes to
  Slugs, SlugOf,  \* SlugOf[r]: the thread r is posted to
  Unusable, Workers, MaxDeliveries, MaxSends    \* see SmtpSink

\* The slug is part of the key.
ASSUME ThreadmailConstants ==
  /\ KeyOf \in [Requests -> Keys] /\ SlugOf \in [Requests -> Slugs]
  /\ \A q, r \in Requests : KeyOf[q] = KeyOf[r] => SlugOf[q] = SlugOf[r]
  /\ Unusable \subseteq Requests
  /\ MaxDeliveries \in Nat /\ MaxSends \in [Requests -> Nat]

VARIABLES
  serving,    \* the listener is bound
  mail,       \* mail[s]: whose comments the mailbox holds for s, in order
  cache,      \* cache[s]: how many of them the page of s shows
  relay, recent, stage, lapses,                             \* Submission
  up, queue, expired, request, worker, task, delivery, permits, wake, sent,
  doubt, reported                                           \* SmtpSink

webvars == <<relay, recent, stage, lapses>>
sinkvars == <<up, queue, expired, request, worker, task, delivery, permits,
              wake, sent, doubt, reported>>
vars == <<serving, mail, cache, webvars, sinkvars>>

Rows == {r \in Requests : request[r] \in {"enqueued", "accepted", "cut"}}

Mailbox == [s \in Slugs |-> Len(mail[s])]

Web == INSTANCE Submission WITH rows <- Rows
Sink == INSTANCE SmtpSink WITH Comments <- Requests
Cache == INSTANCE CommentCache WITH mailbox <- Mailbox

-----------------------------------------------------------------------------
(* The process *)

\* AppState::boot, before there is a listener.
Boot ==
  /\ Sink!Boot
  /\ UNCHANGED <<serving, mail, cache, webvars>>

Bind ==
  /\ up /\ ~serving
  /\ serving' = TRUE
  /\ UNCHANGED <<mail, cache, webvars, sinkvars>>

\* The process dies, by a listener that cannot be bound or by anything else.
Die ==
  /\ Sink!Crash
  /\ Web!Restart
  /\ serving' = FALSE
  /\ UNCHANGED <<mail, cache>>

-----------------------------------------------------------------------------
(* handle_post_thread, joined with submit *)

\* What the handler does before and besides submit.
Post(r) ==
  /\ serving
  /\ UNCHANGED <<serving, mail, cache, sinkvars>>
  /\ \/ Web!Forbid(r) \/ Web!Admit(r) \/ Web!Deduplicate(r)
     \/ Web!Invalidate(r) \/ Web!ComposeFails(r)

\* Mutant of SubmitFails: the error is found after the row was written.
MutSubmitFails(r) ==
  /\ stage[r] = "invalidated"
  /\ stage' = [stage EXCEPT ![r] = "failed"]
  /\ Sink!Enqueue(r)
  /\ UNCHANGED <<serving, mail, cache, relay, recent, lapses>>

\* There is no envelope, or the store refuses the row.
SubmitFails(r) ==
  /\ UNCHANGED sinkvars \/ Sink!EnqueueFails(r)
  /\ Web!SubmitFails(r)
  /\ UNCHANGED <<serving, mail, cache>>

Enqueue(r) ==
  /\ Sink!Enqueue(r)
  /\ Web!Enqueue(r)
  /\ UNCHANGED <<serving, mail, cache>>

\* submit starts or wakes the worker; the handler answers with its redirect.
Accept(r) ==
  /\ Sink!SubmitSpawn(r)
  /\ Web!Accept(r)
  /\ UNCHANGED <<serving, mail, cache>>

Handle(r) == Post(r) \/ SubmitFails(r) \/ Enqueue(r) \/ Accept(r)

\* DEDUPE_WINDOW passes.
Lapse(k) ==
  /\ UNCHANGED <<serving, mail, cache, sinkvars>>
  /\ Web!Lapse(k)

-----------------------------------------------------------------------------
(* The sink, the list and the page *)

SinkStep ==
  /\ \/ \E r \in Requests : Sink!Expire(r)
     \/ \E w \in Workers : Sink!Loop(w)
     \/ \E w \in Workers, r \in Requests : Sink!Attempt(w, r)
  /\ UNCHANGED <<serving, mail, cache, webvars>>

\* The copies of r in the mailbox, by position.
Copies(r) == {i \in 1..Len(mail[SlugOf[r]]) : mail[SlugOf[r]][i] = r}

\* The list distributes a message the server took; the bot gets a copy.
Distribute(r) ==
  /\ Cardinality(Copies(r)) < sent[r]
  /\ mail' = [mail EXCEPT ![SlugOf[r]] = Append(@, r)]
  /\ UNCHANGED <<serving, cache, webvars, sinkvars>>

\* A refresh of the thread stores its result.
Refresh(s) ==
  /\ up
  /\ UNCHANGED <<serving, mail, webvars, sinkvars>>
  /\ Cache!CatchUp(s)

-----------------------------------------------------------------------------

Init ==
  /\ serving = FALSE
  /\ mail = [s \in Slugs |-> <<>>] /\ cache = [s \in Slugs |-> 0]
  /\ Sink!Init
  /\ Web!Init

Next ==
  \/ Boot \/ Bind \/ Die
  \/ \E r \in Requests : Handle(r) \/ Distribute(r)
  \/ \E k \in Keys : Lapse(k)
  \/ SinkStep
  \/ \E s \in Slugs : Refresh(s)

Spec == Init /\ [][Next]_vars

-----------------------------------------------------------------------------
(* Properties *)

\* The copies on the page of s that are one and the same submission.
Shown(s, k) == {i \in 1..cache[s] : KeyOf[mail[s][i]] = k}

\* However clicks, handlers, deliveries and restarts interleave, a page shows a
\* submission once per deduplication window, but for a message the server took
\* without its success being recorded ("Guards against a re-click before a slow
\* request returns", src/lib/web/mod.rs:55).
ShownOncePerWindow ==
  \A s \in Slugs, k \in Keys :
    \/ Cardinality(Shown(s, k)) <= 1 + lapses[k]
    \/ \E r \in doubt : KeyOf[r] = k

\* A visitor who was redirected, also as a duplicate, finds the comment queued,
\* taken by the server or given up, unless a submission like it failed, was cut
\* by a restart or is still being handled ("a restart mid-delivery doesn't lose
\* it", README.md:27).
Kept(r) == r \in queue \cup expired \cup Unusable \/ sent[r] > 0

RedirectIsKept ==
  \A r \in Requests : stage[r] \in {"accepted", "duplicate"} =>
    \E q \in Requests :
      /\ KeyOf[q] = KeyOf[r]
      /\ Kept(q) \/ stage[q] \in Web!InFlight \cup {"malformed", "failed", "cut"}

\* A visitor who was told of an error may post again without the first attempt
\* turning up: nothing that was refused is ever queued or sent
\* (MailSink::submit, src/lib/source/mod.rs:14, accepts or returns the error).
ErrorIsFinal ==
  \A r \in Requests : stage[r] \in {"malformed", "failed", "forbidden"} =>
    r \notin queue /\ sent[r] = 0
=============================================================================

------------------------------ MODULE SmtpSink ------------------------------
(***************************************************************************)
(* The outgoing half of threadmail: SmtpSink (src/lib/smtp_sink/mod.rs) on *)
(* the outgoing_comments table of SqliteStore.  HTTP handlers queue        *)
(* comments with submit(); a background worker, alive only while something *)
(* is queued, sweeps the queue and hands every row to a delivery task; the *)
(* process may die between any two steps and boot again on what the        *)
(* database kept.  Every failure the code handles is a step of its own:    *)
(* the store refusing a write or a read, a permit not granted in time, an  *)
(* SMTP error with or without the server having taken the message.         *)
(*                                                                         *)
(* Clocks are abstracted: expired holds the queued comments for which      *)
(* is_expired(outgoing_message_ttl) holds, and Expire adds to it.  The     *)
(* retry sleep may end at any time.                                        *)
(***************************************************************************)
EXTENDS Naturals, FiniteSets

CONSTANTS
  Comments,       \* the comments visitors submit, each by one request
  Unusable,       \* those whose stored addresses no longer parse
  Workers,        \* slots for running instances of the worker task
  MaxDeliveries,  \* smtp.max_concurrent_deliveries
  MaxSends        \* bound: MaxSends[c]: how often the server takes c

ASSUME SinkConstants ==
  /\ Unusable \subseteq Comments
  /\ MaxDeliveries \in Nat
  /\ MaxSends \in [Comments -> Nat]

VARIABLES
  up,        \* the process is running
  queue,     \* rows of outgoing_comments; survives a crash
  expired,   \* queued comments older than their TTL
  request,   \* request[c]: how far the handler that submits c has come
  worker,    \* Inner.worker is Some
  task,      \* task[w]: where worker instance w is in its loop
  delivery,  \* delivery[w][c]: how w's attempt_delivery of c stands
  permits,   \* free permits of delivery_limit
  wake,      \* the Notify holds a stored permit
  sent,      \* sent[c]: how often the mail server has taken c
  doubt,     \* ghost: taken at least once, but the row outlived it
  reported   \* comments for which on_delivered was called

vars == <<up, queue, expired, request, worker, task, delivery, permits, wake,
          sent, doubt, reported>>

durable == <<queue, expired>>
outcome == <<sent, doubt, reported>>

-----------------------------------------------------------------------------
(* States of a request, of the worker loop and of a delivery task. *)

RequestState == {"none", "enqueued", "accepted", "refused", "cut"}

\* "locked": pending() was read and the worker mutex is still held.
TaskState == {"idle", "sweep", "locked", "deliver", "sleep", "woken"}

\* A delivery task that has not finished yet.
Running == {"spawned", "waiting", "sending", "taken", "confirmed", "expiring",
            "unusable", "removed", "unremoved"}

DeliveryState == Running \cup {"none", "left", "kept"}

\* The delivery task holds a permit of delivery_limit.
Holding == {"sending", "taken", "unusable"}

NoDeliveries == [w \in Workers |-> [c \in Comments |-> "none"]]

-----------------------------------------------------------------------------
(* spawn_worker and the Notify *)

\* Mutant of LockFree: the decision to exit is taken outside the lock.
MutLockFree == TRUE

\* The worker mutex is held across steps only by a sweep between its read of
\* the queue and its decision to exit.
LockFree == \A w \in Workers : task[w] # "locked"

\* Mutant of AlreadyRunning: every submit starts a worker.
MutAlreadyRunning == FALSE

AlreadyRunning == worker

\* Mutant of NotifyOne: notify_waiters, which stores no permit.
MutNotifyOne ==
  /\ task' = [w \in Workers |-> IF task[w] = "sleep" THEN "woken" ELSE task[w]]
  /\ UNCHANGED wake

\* notify_one: wakes the sleeping worker, or stores one permit.
NotifyOne ==
  \/ \E w \in Workers : /\ task[w] = "sleep"
                        /\ task' = [task EXCEPT ![w] = "woken"]
                        /\ UNCHANGED wake
  \/ /\ \A w \in Workers : task[w] # "sleep"
     /\ wake' = TRUE
     /\ UNCHANGED task

SpawnWorker ==
  /\ LockFree
  /\ \/ /\ AlreadyRunning
        /\ NotifyOne
        /\ UNCHANGED worker
     \/ /\ ~AlreadyRunning
        /\ worker' = TRUE
        /\ \E w \in Workers : /\ task[w] = "idle"
                              /\ task' = [task EXCEPT ![w] = "sweep"]
        /\ UNCHANGED wake

-----------------------------------------------------------------------------
(* submit, boot and the death of the process *)

\* First half of submit: the row is written.
Enqueue(c) ==
  /\ up /\ request[c] = "none"
  /\ queue' = queue \cup {c}
  /\ request' = [request EXCEPT ![c] = "enqueued"]
  /\ UNCHANGED <<up, expired, worker, task, delivery, permits, wake, outcome>>

\* The store refuses the row: submit returns the error, nothing is queued.
EnqueueFails(c) ==
  /\ up /\ request[c] = "none"
  /\ request' = [request EXCEPT ![c] = "refused"]
  /\ UNCHANGED <<up, durable, worker, task, delivery, permits, wake, outcome>>

\* Second half of submit: start or wake the worker, then answer Ok.
SubmitSpawn(c) ==
  /\ up /\ request[c] = "enqueued"
  /\ SpawnWorker
  /\ request' = [request EXCEPT ![c] = "accepted"]
  /\ UNCHANGED <<up, durable, delivery, permits, outcome>>

\* Mutant of Boot: rows left from before a restart wait for the next submit.
MutBoot ==
  /\ ~up
  /\ up' = TRUE
  /\ UNCHANGED <<durable, request, worker, task, wake, delivery, permits, outcome>>

\* boot runs before the listener is bound, so before any submit.
Boot ==
  /\ ~up
  /\ up' = TRUE
  /\ SpawnWorker
  /\ UNCHANGED <<durable, request, delivery, permits, outcome>>

\* Only the database survives.  A message the server took whose row is still
\* there will be sent again.
Crash ==
  /\ up
  /\ up' = FALSE
  /\ worker' = FALSE /\ wake' = FALSE /\ permits' = MaxDeliveries
  /\ task' = [w \in Workers |-> "idle"]
  /\ delivery' = NoDeliveries
  /\ request' = [c \in Comments |->
                   IF request[c] = "enqueued" THEN "cut" ELSE request[c]]
  /\ doubt' = doubt \cup {c \in Comments : \E w \in Workers :
                            delivery[w][c] \in {"taken", "confirmed"}}
  /\ UNCHANGED <<durable, sent, reported>>

\* The TTL of a queued comment passes, whether or not the process runs.
Expire(c) ==
  /\ c \in queue \ expired
  /\ expired' = expired \cup {c}
  /\ UNCHANGED <<up, queue, request, worker, task, delivery, permits, wake, outcome>>

-----------------------------------------------------------------------------
(* The worker loop of spawn_worker *)

\* Under the worker mutex: pending() returns every queued row.
SweepRead(w) ==
  /\ task[w] = "sweep" /\ LockFree
  /\ task' = [task EXCEPT ![w] = "locked"]
  /\ delivery' = [delivery EXCEPT ![w] =
                    [c \in Comments |-> IF c \in queue THEN "spawned" ELSE "none"]]
  /\ UNCHANGED <<up, durable, request, worker, permits, wake, outcome>>

\* Mutant of SweepDecide: the worker returns without clearing the Option.
MutSweepDecide(w) ==
  /\ task[w] = "locked"
  /\ task' = [task EXCEPT ![w] = IF \A c \in Comments : delivery[w][c] = "none"
                                 THEN "idle" ELSE "deliver"]
  /\ UNCHANGED <<up, durable, request, worker, delivery, permits, wake, outcome>>

\* Still under the mutex: exit when nothing was pending, else deliver_all.
SweepDecide(w) ==
  /\ task[w] = "locked"
  /\ \/ /\ delivery[w] = [c \in Comments |-> "none"]
        /\ worker' = FALSE
        /\ task' = [task EXCEPT ![w] = "idle"]
     \/ /\ \E c \in Comments : delivery[w][c] = "spawned"
        /\ task' = [task EXCEPT ![w] = "deliver"]
        /\ UNCHANGED worker
  /\ UNCHANGED <<up, durable, request, delivery, permits, wake, outcome>>

\* The select! between the retry sleep and the Notify: a stored permit ends
\* it at once.
Rest(w) ==
  \/ /\ wake
     /\ wake' = FALSE
     /\ task' = [task EXCEPT ![w] = "sweep"]
  \/ /\ ~wake
     /\ task' = [task EXCEPT ![w] = "sleep"]
     /\ UNCHANGED wake

\* pending() fails: nothing is attempted and the worker rests.
SweepFails(w) ==
  /\ task[w] = "sweep" /\ LockFree
  /\ delivery' = [delivery EXCEPT ![w] = [c \in Comments |-> "none"]]
  /\ Rest(w)
  /\ UNCHANGED <<up, durable, request, worker, permits, outcome>>

\* Mutant of AllJoined: the sweep ends with the first finished delivery.
MutAllJoined(w) == \E c \in Comments : delivery[w][c] \in {"left", "kept"}

\* deliver_all joins every delivery before it returns.
AllJoined(w) == \A c \in Comments : delivery[w][c] \notin Running

AllLeftQueue(w) == \A c \in Comments : delivery[w][c] # "kept"

Join(w) ==
  /\ task[w] = "deliver" /\ AllJoined(w)
  /\ \/ /\ AllLeftQueue(w)
        /\ task' = [task EXCEPT ![w] = "sweep"]
        /\ UNCHANGED wake
     \/ /\ ~AllLeftQueue(w)
        /\ Rest(w)
  /\ UNCHANGED <<up, durable, request, worker, delivery, permits, outcome>>

\* The sleep runs out.
SleepElapses(w) ==
  /\ task[w] = "sleep"
  /\ task' = [task EXCEPT ![w] = "sweep"]
  /\ UNCHANGED <<up, durable, request, worker, delivery, permits, wake, outcome>>

\* The notified worker is scheduled.  If its sleep ran out as well, select!
\* may take that branch, and the dropped Notified passes its wake-up on.
Wakes(w) ==
  /\ task[w] = "woken"
  /\ task' = [task EXCEPT ![w] = "sweep"]
  /\ wake' \in {wake, TRUE}
  /\ UNCHANGED <<up, durable, request, worker, delivery, permits, outcome>>

-----------------------------------------------------------------------------
(* attempt_delivery, one task per row of the sweep *)

\* Mutant of IsExpired: the TTL is never looked at.
MutIsExpired(c) == FALSE

IsExpired(c) == c \in expired

SetDelivery(w, c, s) ==
  /\ task[w] = "deliver"
  /\ delivery' = [delivery EXCEPT ![w][c] = s]
  /\ UNCHANGED <<up, expired, request, worker, task, wake>>

StartAttempt(w, c) ==
  /\ delivery[w][c] = "spawned"
  /\ SetDelivery(w, c, IF IsExpired(c) THEN "expiring" ELSE "waiting")
  /\ UNCHANGED <<queue, permits, outcome>>

\* Mutant of AcquirePermit: a permit is taken without waiting for a free one.
MutAcquirePermit(w, c) ==
  /\ delivery[w][c] = "waiting"
  /\ permits' = permits - 1
  /\ SetDelivery(w, c, IF c \in Unusable THEN "unusable" ELSE "sending")
  /\ UNCHANGED <<queue, outcome>>

AcquirePermit(w, c) ==
  /\ delivery[w][c] = "waiting" /\ permits > 0
  /\ permits' = permits - 1
  /\ SetDelivery(w, c, IF c \in Unusable THEN "unusable" ELSE "sending")
  /\ UNCHANGED <<queue, outcome>>

\* A permit that is free is handed to a waiter, so only a waiter without one
\* runs into PERMIT_TIMEOUT.
PermitTimeout(w, c) ==
  /\ delivery[w][c] = "waiting" /\ permits = 0
  /\ SetDelivery(w, c, "kept")
  /\ UNCHANGED <<queue, permits, outcome>>

\* The mail server takes the message; the client does not know it yet.
ServerTakes(w, c) ==
  /\ delivery[w][c] = "sending" /\ sent[c] < MaxSends[c]
  /\ sent' = [sent EXCEPT ![c] = @ + 1]
  /\ SetDelivery(w, c, "taken")
  /\ UNCHANGED <<queue, permits, doubt, reported>>

\* send_raw returned Ok; the permit is dropped before the row is removed.
SendOk(w, c) ==
  /\ delivery[w][c] = "taken"
  /\ permits' = permits + 1
  /\ SetDelivery(w, c, "confirmed")
  /\ UNCHANGED <<queue, outcome>>

\* Mutant of SendFails: the error of send_raw is not looked at.
MutSendFails(w, c) ==
  /\ delivery[w][c] \in {"sending", "taken"}
  /\ permits' = permits + 1
  /\ SetDelivery(w, c, "confirmed")
  /\ UNCHANGED <<queue, outcome>>

\* Mutant of SendFails: the permit is leaked with the error.
MutSendFailsLeaks(w, c) ==
  /\ delivery[w][c] \in {"sending", "taken"}
  /\ doubt' = IF delivery[w][c] = "taken" THEN doubt \cup {c} ELSE doubt
  /\ SetDelivery(w, c, "kept")
  /\ UNCHANGED <<queue, permits, sent, reported>>

\* send_raw failed or its blocking task panicked, before or after the server
\* took the message.
SendFails(w, c) ==
  /\ delivery[w][c] \in {"sending", "taken"}
  /\ permits' = permits + 1
  /\ doubt' = IF delivery[w][c] = "taken" THEN doubt \cup {c} ELSE doubt
  /\ SetDelivery(w, c, "kept")
  /\ UNCHANGED <<queue, sent, reported>>

Removing == {"expiring", "unusable", "confirmed"}

\* An unusable comment is removed with the permit still in hand.
DropPermit(w, c) ==
  permits' = IF delivery[w][c] = "unusable" THEN permits + 1 ELSE permits

RemoveOk(w, c) ==
  /\ delivery[w][c] \in Removing
  /\ queue' = queue \ {c}
  /\ DropPermit(w, c)
  /\ SetDelivery(w, c, IF delivery[w][c] = "confirmed" THEN "removed" ELSE "left")
  /\ UNCHANGED outcome

\* Mutant of RemoveFails: on_delivered is called only if the row is gone.
MutRemoveFails(w, c) ==
  /\ delivery[w][c] \in Removing
  /\ DropPermit(w, c)
  /\ doubt' = IF delivery[w][c] = "confirmed" THEN doubt \cup {c} ELSE doubt
  /\ SetDelivery(w, c, "kept")
  /\ UNCHANGED <<queue, sent, reported>>

\* The row stays, so a delivered comment will be delivered again.
RemoveFails(w, c) ==
  /\ delivery[w][c] \in Removing
  /\ DropPermit(w, c)
  /\ doubt' = IF delivery[w][c] = "confirmed" THEN doubt \cup {c} ELSE doubt
  /\ SetDelivery(w, c, IF delivery[w][c] = "confirmed" THEN "unremoved" ELSE "kept")
  /\ UNCHANGED <<queue, sent, reported>>

\* on_delivered is called whether or not the row could be removed.
Report(w, c) ==
  /\ delivery[w][c] \in {"removed", "unremoved"}
  /\ reported' = reported \cup {c}
  /\ SetDelivery(w, c, IF delivery[w][c] = "removed" THEN "left" ELSE "kept")
  /\ UNCHANGED <<queue, permits, sent, doubt>>

-----------------------------------------------------------------------------

Init ==
  /\ up = FALSE
  /\ queue = {} /\ expired = {}
  /\ request = [c \in Comments |-> "none"]
  /\ worker = FALSE /\ wake = FALSE
  /\ task = [w \in Workers |-> "idle"]
  /\ delivery = NoDeliveries
  /\ permits = MaxDeliveries
  /\ sent = [c \in Comments |-> 0]
  /\ doubt = {} /\ reported = {}

Attempt(w, c) ==
  \/ StartAttempt(w, c) \/ AcquirePermit(w, c) \/ PermitTimeout(w, c)
  \/ ServerTakes(w, c) \/ SendOk(w, c) \/ SendFails(w, c)
  \/ RemoveOk(w, c) \/ RemoveFails(w, c) \/ Report(w, c)

Loop(w) ==
  \/ SweepRead(w) \/ SweepDecide(w) \/ SweepFails(w) \/ Join(w)
  \/ SleepElapses(w) \/ Wakes(w)

Handler(c) == Enqueue(c) \/ EnqueueFails(c) \/ SubmitSpawn(c)

Next ==
  \/ Boot
  \/ Crash
  \/ \E c \in Comments : Handler(c) \/ Expire(c)
  \/ \E w \in Workers : Loop(w)
  \/ \E w \in Workers, c \in Comments : Attempt(w, c)

Spec == Init /\ [][Next]_vars
-----------------------------------------------------------------------------
(* Fairness.  The tokio runtime polls every ready task (weak fairness of the *)
(* worker, of each delivery and of each handler; at most one worker runs, so *)
(* it does not matter which slot a step is of), timers fire and the wall     *)
(* clock advances; the store does not refuse every read or every removal for *)
(* ever (strong fairness).  Nothing is assumed of the mail server, of        *)
(* visitors or of whoever restarts the process.                              *)

LoopRuns(w) == SweepDecide(w) \/ Join(w) \/ SleepElapses(w) \/ Wakes(w)

AttemptRuns(w, c) ==
  \/ StartAttempt(w, c) \/ AcquirePermit(w, c) \/ PermitTimeout(w, c)
  \/ ServerTakes(w, c) \/ SendOk(w, c) \/ SendFails(w, c) \/ Report(w, c)

Progress ==
  /\ WF_vars(\E w \in Workers : LoopRuns(w))
  /\ SF_vars(\E w \in Workers : SweepRead(w))
  /\ \A c \in Comments :
       /\ WF_vars(\E w \in Workers : AttemptRuns(w, c))
       /\ SF_vars(\E w \in Workers : RemoveOk(w, c))
       /\ WF_vars(SubmitSpawn(c))

FairSpec == Spec /\ Progress

\* The wall clock moves on: a queued comment reaches its TTL.
TimePasses == \A c \in Comments : WF_vars(Expire(c))

\* The server takes messages now and then, and from some point on every session
\* ends before the deliveries that wait for its permit run into PERMIT_TIMEOUT.
\* Without the latter a comment starves behind older ones whose sessions hang:
\* it is never even attempted.
ServerRecovers ==
  /\ \A c \in Comments : SF_vars(\E w \in Workers : ServerTakes(w, c))
  /\ <>[][\A w \in Workers, c \in Comments : ~PermitTimeout(w, c)]_vars

-----------------------------------------------------------------------------
(* Properties *)

TypeOK ==
  /\ up \in BOOLEAN /\ worker \in BOOLEAN /\ wake \in BOOLEAN
  /\ queue \in SUBSET Comments /\ expired \in SUBSET Comments
  /\ request \in [Comments -> RequestState]
  /\ task \in [Workers -> TaskState]
  /\ delivery \in [Workers -> [Comments -> DeliveryState]]
  /\ permits \in Nat
  /\ sent \in [Comments -> Nat]
  /\ doubt \in SUBSET Comments /\ reported \in SUBSET Comments

\* At most one worker instance runs, and the Option in the mutex is Some
\* exactly while it does ("doubles as the lock that keeps it to a single
\* instance", smtp_sink/mod.rs:75).
SingleWorker ==
  /\ \A v, w \in Workers : task[v] # "idle" /\ task[w] # "idle" => v = w
  /\ worker <=> \E w \in Workers : task[w] # "idle"

\* No queued comment is left without a worker: if none runs, the handler that
\* queued the comment is still on its way to spawn_worker (the race the
\* comment at smtp_sink/mod.rs:205 is about).
NoStranded ==
  \A c \in queue : up => worker \/ request[c] = "enqueued"

\* The worker never sleeps on a comment it has not looked at: whatever is
\* queued was attempted in the sweep before this sleep, or its handler is
\* still to wake the worker; only a sweep that could not read the queue is
\* excused (the stored permit of smtp_sink/mod.rs:192).
NoSleepOnUnseen ==
  \A w \in Workers :
    task[w] = "sleep" /\ delivery[w] # [c \in Comments |-> "none"]
      => \A c \in queue : delivery[w][c] = "kept" \/ request[c] = "enqueued"

\* Every path of attempt_delivery gives its permit back exactly once, so
\* SMTP sessions never exceed MaxDeliveries and the semaphore never runs dry.
Holders == {x \in Workers \X Comments : delivery[x[1]][x[2]] \in Holding}
PermitsConserved == permits + Cardinality(Holders) = MaxDeliveries

\* A comment reaches the mail server twice only if an earlier success could
\* not be recorded: its row could not be removed, the server's answer was
\* lost, or the process died in between.  Neither an ordinary retry, nor a
\* wake-up, nor a worker restart duplicates a message.
NoUnforcedDuplicate == \A c \in Comments : sent[c] > 1 => c \in doubt

\* The sink keeps the promise of OutgoingQueue, crashes included: an accepted
\* comment leaves the queue only after the server took it or it was given up.
QueueState ==
  [c \in Comments |-> IF c \in queue THEN "queued"
                      ELSE IF request[c] \in {"none", "refused"} THEN "new"
                      ELSE "gone"]
Queue == INSTANCE OutgoingQueue WITH state <- QueueState
ImplementsQueue == Queue!QueueSpec

\* The loop whose time Heartbeat measures is this one: without the clock (every
\* duration zero, nothing late), whatever the worker and its deliveries do here
\* some worker of Heartbeat does, so its answers about stalls are answers about
\* this loop.
Active == CHOOSE w \in Workers : task[w] # "idle"

LoopPhase ==
  IF \A w \in Workers : task[w] = "idle" THEN "none"
  ELSE IF task[Active] \in {"deliver", "sleep"} THEN task[Active] ELSE "sweep"

LoopStage(s) ==
  IF s \in {"taken", "unusable"} THEN "sending"
  ELSE IF s \in {"expiring", "confirmed", "removed", "unremoved"} THEN "removing"
  ELSE s

LoopDelivery ==
  [c \in Comments |-> IF LoopPhase = "deliver" THEN LoopStage(delivery[Active][c])
                                               ELSE "none"]

Timed == INSTANCE Heartbeat WITH
  SweepInterval <- 0, PERMIT_TIMEOUT <- 0, DeliveryTimeout <- 0,
  phase <- LoopPhase, delivery <- LoopDelivery, gap <- 0, slept <- 0, late <- 0,
  slow <- {}, age <- [c \in Comments |-> 0]
ImplementsTimedLoop == Timed!Spec

\* Once the process stays up, every comment leaves the queue for good, even
\* when the mail server never takes one (README: "retried until it succeeds
\* or a TTL passes").
Drains == TimePasses /\ <>[]up => <>[](queue = {})

\* Once the process stays up, the worker retires for good after the last
\* comment (config.example.toml:105, "The worker only runs while something is
\* queued").
WorkerRetires == TimePasses /\ <>[]up => <>[]~worker

\* While the process stays up, every queued comment with a usable envelope is
\* sent or reaches its TTL, also one left over from before a restart.
Retried ==
  ServerRecovers /\ <>[]up => \A c \in Comments \ Unusable :
                                 c \in queue ~> sent[c] > 0 \/ c \in expired

\* A delivery the server confirmed is over only when on_delivered was called
\* for it, also when the row cannot be removed; only the death of the process
\* comes before.
Confirmed == {"confirmed", "removed", "unremoved"}
ConfirmedIsReported ==
  [][\A w \in Workers, c \in Comments :
       delivery[w][c] \in Confirmed =>
         delivery'[w][c] \in Confirmed \/ c \in reported' \/ ~up']_vars
=============================================================================

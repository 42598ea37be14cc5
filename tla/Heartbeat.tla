----------------------------- MODULE Heartbeat -----------------------------
(***************************************************************************)
(* The stall check behind /healthz: SweepHeartbeat and SmtpSink::health    *)
(* (src/lib/smtp_sink/mod.rs) beside the worker loop they watch, with a    *)
(* clock.  The loop is SmtpSink's, reduced to where its time goes: waiting *)
(* for a permit, in an SMTP session, asleep.                               *)
(*                                                                         *)
(* Tick is one unit of time.  Anything that is due may nevertheless be     *)
(* late: the ghost late counts the units since the last sweep in which a   *)
(* step was due but not taken, by a busy runtime or a slow store.  Time    *)
(* counters stop at the first value beyond which they tell nothing new.    *)
(***************************************************************************)
EXTENDS Naturals, FiniteSets

CONSTANTS
  Comments,         \* the comments that may be queued
  SweepInterval,    \* storage.outgoing_comment_sweep_interval_secs
  PERMIT_TIMEOUT,   \* how long a delivery waits for its permit
  DeliveryTimeout,  \* smtp.delivery_timeout_secs
  MaxDeliveries     \* smtp.max_concurrent_deliveries

ASSUME HeartbeatConstants ==
  {SweepInterval, PERMIT_TIMEOUT, DeliveryTimeout, MaxDeliveries} \subseteq Nat

VARIABLES
  phase,      \* "none" without a worker, else where its loop is
  gap,        \* last_swept.elapsed(), up to MaxGap + 1
  delivery,   \* delivery[c]: how the attempt to deliver c stands
  age,        \* age[c]: how long c has been waiting, or its session open
  slept,      \* how long the worker has been asleep
  permits,    \* free permits of delivery_limit
  late,       \* ghost: overdue time since the last sweep
  slow        \* ghost: whose session in this sweep outlasted DeliveryTimeout

vars == <<phase, gap, delivery, age, slept, permits, late, slow>>

Waits == {"waiting", "sending"}
Overdue == {"spawned", "removing"}
Done == {"none", "left", "kept"}

-----------------------------------------------------------------------------
(* SweepHeartbeat *)

Grace == 3

\* Mutant of MaxGap: the wait for a permit is not allowed for.
MutMaxGap == SweepInterval * Grace + DeliveryTimeout

MaxGap == SweepInterval * Grace + PERMIT_TIMEOUT + DeliveryTimeout

\* last_swept becomes now; the ghosts start over with it.
RecordSweep == gap' = 0 /\ late' = 0 /\ slow' = {}

KeepHeartbeat == UNCHANGED <<gap, late, slow>>

NoDeliveries == [c \in Comments |-> "none"]

\* What health answers besides a store error; without a worker all is well.
ReportsStall == phase # "none" /\ gap > MaxGap

-----------------------------------------------------------------------------
(* spawn_worker and the loop *)

\* Mutant of Submit: a submit refreshes the heartbeat of a running worker.
MutSubmit ==
  /\ phase' = IF phase \in {"none", "sleep"} THEN "sweep" ELSE phase
  /\ RecordSweep
  /\ UNCHANGED <<delivery, age, slept, permits>>

\* A submit (or boot) starts the worker with a fresh heartbeat, or wakes it.  A
\* busy worker gets a stored permit, which Rest needs no state to use.
Submit ==
  /\ \/ phase = "none" /\ RecordSweep
     \/ phase = "sleep" /\ KeepHeartbeat
  /\ phase' = "sweep"
  /\ UNCHANGED <<delivery, age, slept, permits>>

\* Nothing is queued: the worker exits and the heartbeat goes with it.
Exit ==
  /\ phase = "sweep"
  /\ phase' = "none"
  /\ KeepHeartbeat
  /\ UNCHANGED <<delivery, age, slept, permits>>

Sweep ==
  /\ phase = "sweep"
  /\ phase' = "deliver"
  /\ RecordSweep
  /\ \E Queued \in (SUBSET Comments) \ {{}} :
       delivery' = [c \in Comments |-> IF c \in Queued THEN "spawned" ELSE "none"]
  /\ UNCHANGED <<age, slept, permits>>

\* The select! after a sweep: a stored permit of the Notify ends it at once.
Rest ==
  \/ phase' = "sleep" /\ slept' = 0
  \/ phase' = "sweep" /\ UNCHANGED slept

\* The queue cannot be read; the attempt counts as a sweep.
SweepFails ==
  /\ phase = "sweep"
  /\ Rest
  /\ RecordSweep
  /\ UNCHANGED <<delivery, age, permits>>

Joined == \A c \in Comments : delivery[c] \in Done

Join ==
  /\ phase = "deliver" /\ Joined
  /\ \/ /\ \A c \in Comments : delivery[c] # "kept"
        /\ phase' = "sweep" /\ UNCHANGED slept
     \/ /\ \E c \in Comments : delivery[c] = "kept"
        /\ Rest
  /\ delivery' = NoDeliveries
  /\ KeepHeartbeat
  /\ UNCHANGED <<age, permits>>

\* The sleep runs out, perhaps early.
Wake ==
  /\ phase = "sleep"
  /\ phase' = "sweep"
  /\ KeepHeartbeat
  /\ UNCHANGED <<delivery, age, slept, permits>>

-----------------------------------------------------------------------------
(* attempt_delivery *)

Attempt(c, from, to) ==
  /\ phase = "deliver" /\ delivery[c] = from
  /\ delivery' = [delivery EXCEPT ![c] = to]
  /\ age' = [age EXCEPT ![c] = 0]
  /\ KeepHeartbeat
  /\ UNCHANGED <<phase, slept>>

\* An expired comment is removed at once, any other waits for a permit.
StartAttempt(c) ==
  \E next \in {"waiting", "removing"} :
    Attempt(c, "spawned", next) /\ UNCHANGED permits

\* Mutant of AcquirePermit: a permit is taken without waiting for a free one.
MutAcquirePermit(c) ==
  permits' = permits - 1 /\ Attempt(c, "waiting", "sending")

AcquirePermit(c) ==
  permits > 0 /\ permits' = permits - 1 /\ Attempt(c, "waiting", "sending")

TimesOut(c) ==
  age[c] = PERMIT_TIMEOUT /\ Attempt(c, "waiting", "kept") /\ UNCHANGED permits

\* The session ends, with its permit: to be retried, or to be removed.  (A
\* comment whose envelope is unusable has a session of no length, and is
\* removed before its permit is free.)
SessionEnds(c) ==
  \E next \in {"left", "kept", "removing"} :
    Attempt(c, "sending", next) /\ permits' = permits + 1

Remove(c) ==
  \E next \in {"left", "kept"} :
    Attempt(c, "removing", next) /\ UNCHANGED permits

-----------------------------------------------------------------------------
(* Time *)

\* Some step of the worker or of a delivery should have been taken by now.
Due ==
  \/ phase = "sweep"
  \/ phase = "deliver" /\ \/ Joined
                          \/ \E c \in Comments : delivery[c] \in Overdue
                          \/ \E c \in Comments : /\ delivery[c] = "waiting"
                                                 /\ permits > 0 \/ age[c] = PERMIT_TIMEOUT
  \/ phase = "sleep" /\ slept = SweepInterval

AgeLimit(c) == IF delivery[c] = "waiting" THEN PERMIT_TIMEOUT ELSE DeliveryTimeout

Tick ==
  /\ phase # "none"
  /\ gap' = IF gap <= MaxGap THEN gap + 1 ELSE gap
  /\ late' = IF Due /\ late <= 2 * SweepInterval THEN late + 1 ELSE late
  /\ slow' = slow \cup {c \in Comments : /\ delivery[c] = "sending"
                                         /\ age[c] = DeliveryTimeout}
  /\ age' = [c \in Comments |->
               IF delivery[c] \in Waits /\ age[c] < AgeLimit(c) THEN age[c] + 1
                                                                ELSE age[c]]
  /\ slept' = IF phase = "sleep" /\ slept < SweepInterval THEN slept + 1 ELSE slept
  /\ UNCHANGED <<phase, delivery, permits>>

-----------------------------------------------------------------------------

Init ==
  /\ phase = "none"
  /\ gap = 0 /\ late = 0 /\ slow = {} /\ slept = 0
  /\ delivery = NoDeliveries
  /\ age = [c \in Comments |-> 0]
  /\ permits = MaxDeliveries

\* The process dies: all of this is memory.
Crash ==
  /\ phase' = "none"
  /\ gap' = 0 /\ late' = 0 /\ slow' = {} /\ slept' = 0
  /\ delivery' = NoDeliveries
  /\ age' = [c \in Comments |-> 0]
  /\ permits' = MaxDeliveries

Loop == Exit \/ Sweep \/ SweepFails \/ Join \/ Wake

Deliver(c) ==
  \/ StartAttempt(c) \/ AcquirePermit(c) \/ TimesOut(c)
  \/ SessionEnds(c) \/ Remove(c)

Next == Submit \/ Loop \/ (\E c \in Comments : Deliver(c)) \/ Tick \/ Crash

Spec == Init /\ [][Next]_vars

\* Time passes, whatever else happens.
FairSpec == Spec /\ WF_vars(Tick)

-----------------------------------------------------------------------------
(* Properties *)

TypeOK ==
  /\ phase \in {"none", "sweep", "deliver", "sleep"}
  /\ gap \in Nat /\ slept \in 0..SweepInterval /\ late \in Nat
  /\ slow \subseteq Comments /\ permits \in Nat
  /\ delivery \in [Comments -> Waits \cup Overdue \cup Done]
  /\ age \in [Comments -> Nat]

\* A worker is reported as stalled only if a session outlasted its timeout or
\* the steps of the loop were late by more than the two intervals the grace
\* leaves ("so a slow one isn't reported as stalled", config/mod.rs:218).
NoFalseAlarm == ReportsStall => slow # {} \/ late > 2 * SweepInterval

\* A session that never ends gets the worker reported, and keeps it reported,
\* however often comments are submitted meanwhile.
HungIsReported ==
  \A c \in Comments : <>[](delivery[c] = "sending") => <>[]ReportsStall
=============================================================================

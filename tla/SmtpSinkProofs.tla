--------------------------- MODULE SmtpSinkProofs ---------------------------
(***************************************************************************)
(* Theorems about SmtpSink: its type invariant, the safety invariants the  *)
(* runs of MCSmtpSink check, and the refinement of OutgoingQueue, for any  *)
(* number of comments, worker slots and permits.                           *)
(*                                                                         *)
(* None of the invariants but TypeOK is inductive alone.  They are proved  *)
(* together from Inv below: the worker is alone, so a delivery's row can   *)
(* only be removed by that delivery; what a sweep has not seen is still to *)
(* wake the worker; what the server took is still in a delivery's hands,   *)
(* off the queue, or in doubt.                                             *)
(***************************************************************************)
EXTENDS SmtpSink, FiniteSetTheorems, TLAPS

\* A process that is down has no worker; an idle slot has no deliveries.
DownIsIdle ==
  /\ ~up => ~worker
  /\ \A w \in Workers, c \in Comments :
       task[w] = "idle" => delivery[w][c] = "none"

\* Delivery tasks live only between a sweep and its join.
LoopShape ==
  \A w \in Workers, c \in Comments :
    /\ task[w] = "locked" => delivery[w][c] \in {"none", "spawned"}
    /\ task[w] \in {"sweep", "sleep", "woken"} =>
         delivery[w][c] \in {"none", "left", "kept"}

\* Rows come from requests that wrote them.
RowHasRequest ==
  \A c \in Comments :
    request[c] \in {"none", "refused"} =>
      /\ c \notin queue /\ sent[c] = 0
      /\ \A w \in Workers : delivery[w][c] = "none"

\* What the running sweep did not see still has a wake-up ahead.
UnseenWakes ==
  \A w \in Workers, c \in Comments :
    /\ c \in queue /\ task[w] = "locked" =>
         delivery[w][c] = "spawned" \/ request[c] = "enqueued"
    /\ c \in queue /\ task[w] = "deliver" =>
         delivery[w][c] # "none" \/ request[c] = "enqueued" \/ wake

\* The row of a delivery in progress is there until that delivery removes it,
\* and what the delivery relies on later still holds.
DeliveryFacts ==
  \A w \in Workers, c \in Comments :
    /\ delivery[w][c] \in Running \ {"removed"} => c \in queue
    /\ delivery[w][c] \in {"removed", "left"} => c \notin queue
    /\ delivery[w][c] = "expiring" => c \in expired
    /\ delivery[w][c] = "unusable" => c \in Unusable
    /\ delivery[w][c] \in {"taken", "confirmed"} => sent[c] > 0

\* A row the server took is in doubt unless its delivery is about to remove it.
TakenIsAccounted ==
  \A c \in queue :
    sent[c] > 0 => \/ c \in doubt
                   \/ \E w \in Workers : delivery[w][c] \in {"taken", "confirmed"}

Inv ==
  /\ TypeOK /\ SingleWorker /\ NoStranded /\ NoSleepOnUnseen
  /\ NoUnforcedDuplicate
  /\ DownIsIdle /\ LoopShape /\ RowHasRequest /\ UnseenWakes
  /\ DeliveryFacts /\ TakenIsAccounted
-----------------------------------------------------------------------------
(* Type correctness *)

LEMMA InitType == Init => TypeOK
<1> SUFFICES ASSUME Init PROVE TypeOK
  OBVIOUS
<1>1. request \in [Comments -> RequestState] /\ task \in [Workers -> TaskState]
  BY DEF Init, RequestState, TaskState
<1>2. delivery \in [Workers -> [Comments -> DeliveryState]]
  BY DEF Init, NoDeliveries, DeliveryState
<1>3. permits \in Nat
  BY SinkConstants DEF SinkConstants, Init
<1> QED
  BY <1>1, <1>2, <1>3 DEF Init, TypeOK

\* One step per action.
LEMMA TypeStep == TypeOK /\ [Next]_vars => TypeOK'
<1> SUFFICES ASSUME TypeOK, [Next]_vars PROVE TypeOK'
  OBVIOUS
<1> USE DEF TypeOK, RequestState, TaskState, DeliveryState, Running, durable, outcome
<1>1. CASE Boot
  BY <1>1 DEF Boot, SpawnWorker, NotifyOne
<1>2. CASE Crash
  BY <1>2, SinkConstants DEF SinkConstants, Crash, NoDeliveries
<1>3. ASSUME NEW c \in Comments, Enqueue(c) PROVE TypeOK'
  BY <1>3 DEF Enqueue
<1>4. ASSUME NEW c \in Comments, EnqueueFails(c) PROVE TypeOK'
  BY <1>4 DEF EnqueueFails
<1>5. ASSUME NEW c \in Comments, SubmitSpawn(c) PROVE TypeOK'
  BY <1>5 DEF SubmitSpawn, SpawnWorker, NotifyOne
<1>6. ASSUME NEW c \in Comments, Expire(c) PROVE TypeOK'
  BY <1>6 DEF Expire
<1>7. ASSUME NEW w \in Workers, SweepRead(w) PROVE TypeOK'
  BY <1>7 DEF SweepRead
<1>8. ASSUME NEW w \in Workers, SweepDecide(w) PROVE TypeOK'
  BY <1>8 DEF SweepDecide
<1>9. ASSUME NEW w \in Workers, SweepFails(w) PROVE TypeOK'
  BY <1>9 DEF SweepFails, Rest
<1>10. ASSUME NEW w \in Workers, Join(w) PROVE TypeOK'
  BY <1>10 DEF Join, Rest
<1>11. ASSUME NEW w \in Workers, SleepElapses(w) PROVE TypeOK'
  BY <1>11 DEF SleepElapses
<1>12. ASSUME NEW w \in Workers, Wakes(w) PROVE TypeOK'
  BY <1>12 DEF Wakes
<1>13. ASSUME NEW w \in Workers, NEW c \in Comments, StartAttempt(w, c) PROVE TypeOK'
  BY <1>13 DEF StartAttempt, SetDelivery
<1>14. ASSUME NEW w \in Workers, NEW c \in Comments, AcquirePermit(w, c) PROVE TypeOK'
  BY <1>14 DEF AcquirePermit, SetDelivery
<1>15. ASSUME NEW w \in Workers, NEW c \in Comments, PermitTimeout(w, c) PROVE TypeOK'
  BY <1>15 DEF PermitTimeout, SetDelivery
<1>16. ASSUME NEW w \in Workers, NEW c \in Comments, ServerTakes(w, c) PROVE TypeOK'
  BY <1>16 DEF ServerTakes, SetDelivery
<1>17. ASSUME NEW w \in Workers, NEW c \in Comments, SendOk(w, c) PROVE TypeOK'
  BY <1>17 DEF SendOk, SetDelivery
<1>18. ASSUME NEW w \in Workers, NEW c \in Comments, SendFails(w, c) PROVE TypeOK'
  BY <1>18 DEF SendFails, SetDelivery
<1>19. ASSUME NEW w \in Workers, NEW c \in Comments, RemoveOk(w, c) PROVE TypeOK'
  BY <1>19 DEF RemoveOk, SetDelivery, DropPermit, Removing
<1>20. ASSUME NEW w \in Workers, NEW c \in Comments, RemoveFails(w, c) PROVE TypeOK'
  BY <1>20 DEF RemoveFails, SetDelivery, DropPermit, Removing
<1>21. ASSUME NEW w \in Workers, NEW c \in Comments, Report(w, c) PROVE TypeOK'
  BY <1>21 DEF Report, SetDelivery
<1>22. CASE UNCHANGED vars
  BY <1>22 DEF vars
<1> QED
  BY <1>1, <1>2, <1>3, <1>4, <1>5, <1>6, <1>7, <1>8, <1>9, <1>10, <1>11, <1>12,
     <1>13, <1>14, <1>15, <1>16, <1>17, <1>18, <1>19, <1>20, <1>21, <1>22
     DEF Next, Handler, Loop, Attempt

\* Every reachable state is well typed; in particular the semaphore never
\* hands out a permit it does not have.
THEOREM TypeCorrect == Spec => []TypeOK
  BY InitType, TypeStep, PTL DEF Spec

-----------------------------------------------------------------------------
(* One lemma per action: Inv is preserved. *)

\* Boot finds no worker, so it starts the only one.
LEMMA BootInv ==
  ASSUME Inv, TypeOK', Boot
  PROVE  Inv'
<1> USE DEF TypeOK, RequestState, TaskState, DeliveryState, Running, durable, outcome
<1>1. SingleWorker' /\ NoStranded' /\ NoSleepOnUnseen'
      /\ NoUnforcedDuplicate'
  BY DEF Inv, SingleWorker, NoStranded, NoSleepOnUnseen, NoUnforcedDuplicate,
         Boot, SpawnWorker, LockFree, AlreadyRunning, NotifyOne
<1>2. DownIsIdle' /\ RowHasRequest' /\ UnseenWakes' /\ DeliveryFacts'
      /\ TakenIsAccounted'
  BY DEF Inv, DownIsIdle, RowHasRequest, UnseenWakes, DeliveryFacts,
         TakenIsAccounted, Boot, SpawnWorker, LockFree, AlreadyRunning,
         NotifyOne
<1>3. LoopShape'
  BY DEF Inv, LoopShape, DownIsIdle, Boot, SpawnWorker, LockFree,
         AlreadyRunning, NotifyOne
<1> QED
  BY <1>1, <1>2, <1>3 DEF Inv

\* A crash empties every slot; what was taken moves into doubt.
LEMMA CrashInv ==
  ASSUME Inv, TypeOK', Crash
  PROVE  Inv'
<1> USE DEF TypeOK, RequestState, TaskState, DeliveryState, Running, durable, outcome
<1>1. SingleWorker' /\ NoStranded' /\ NoSleepOnUnseen'
      /\ NoUnforcedDuplicate' /\ DownIsIdle'
  BY DEF Inv, SingleWorker, NoStranded, NoSleepOnUnseen, NoUnforcedDuplicate,
         DownIsIdle, Crash, NoDeliveries
<1>2. LoopShape' /\ RowHasRequest' /\ UnseenWakes' /\ DeliveryFacts'
      /\ TakenIsAccounted'
  BY DEF Inv, LoopShape, RowHasRequest, UnseenWakes, DeliveryFacts,
         TakenIsAccounted, Crash, NoDeliveries
<1> QED
  BY <1>1, <1>2 DEF Inv

\* A new row was never sent, and its handler is on its way to spawn_worker.
LEMMA EnqueueInv ==
  ASSUME Inv, TypeOK', NEW c \in Comments, Enqueue(c)
  PROVE  Inv'
<1> USE DEF TypeOK, RequestState, TaskState, DeliveryState, Running, durable, outcome
<1>1. SingleWorker' /\ NoStranded' /\ NoSleepOnUnseen'
      /\ NoUnforcedDuplicate'
  BY DEF Inv, SingleWorker, NoStranded, NoSleepOnUnseen, NoUnforcedDuplicate,
         Enqueue
<1>2. DownIsIdle' /\ LoopShape' /\ RowHasRequest' /\ UnseenWakes'
  BY DEF Inv, DownIsIdle, LoopShape, RowHasRequest, UnseenWakes, Enqueue
<1>3. DeliveryFacts'
  BY DEF Inv, DeliveryFacts, RowHasRequest, Enqueue
<1>4. TakenIsAccounted'
  BY DEF Inv, TakenIsAccounted, RowHasRequest, Enqueue
<1> QED
  BY <1>1, <1>2, <1>3, <1>4 DEF Inv

LEMMA EnqueueFailsInv ==
  ASSUME Inv, TypeOK', NEW c \in Comments, EnqueueFails(c)
  PROVE  Inv'
<1> USE DEF TypeOK, RequestState, TaskState, DeliveryState, Running, durable, outcome
<1>1. SingleWorker' /\ NoStranded' /\ NoSleepOnUnseen'
      /\ NoUnforcedDuplicate' /\ DownIsIdle'
  BY DEF Inv, SingleWorker, NoStranded, NoSleepOnUnseen, NoUnforcedDuplicate,
         DownIsIdle, EnqueueFails
<1>2. LoopShape' /\ RowHasRequest' /\ UnseenWakes' /\ DeliveryFacts'
      /\ TakenIsAccounted'
  BY DEF Inv, LoopShape, RowHasRequest, UnseenWakes, DeliveryFacts,
         TakenIsAccounted, EnqueueFails
<1> QED
  BY <1>1, <1>2 DEF Inv

\* The handler wakes the one worker there is, or starts one.
LEMMA SubmitSpawnInv ==
  ASSUME Inv, TypeOK', NEW c \in Comments, SubmitSpawn(c)
  PROVE  Inv'
<1> USE DEF TypeOK, RequestState, TaskState, DeliveryState, Running, durable, outcome
<1>1. SingleWorker' /\ NoStranded' /\ NoUnforcedDuplicate' /\ DownIsIdle'
      /\ RowHasRequest' /\ DeliveryFacts' /\ TakenIsAccounted'
  BY DEF Inv, SingleWorker, NoStranded, NoUnforcedDuplicate, DownIsIdle,
         RowHasRequest, DeliveryFacts, TakenIsAccounted, SubmitSpawn,
         SpawnWorker, LockFree, AlreadyRunning, NotifyOne
<1>2. NoSleepOnUnseen'
  BY DEF Inv, NoSleepOnUnseen, SingleWorker, SubmitSpawn, SpawnWorker,
         LockFree, AlreadyRunning, NotifyOne
<1>3. LoopShape'
  BY DEF Inv, LoopShape, DownIsIdle, SubmitSpawn, SpawnWorker, LockFree,
         AlreadyRunning, NotifyOne
<1>4. UnseenWakes'
  BY DEF Inv, UnseenWakes, SingleWorker, SubmitSpawn, SpawnWorker, LockFree,
         AlreadyRunning, NotifyOne
<1> QED
  BY <1>1, <1>2, <1>3, <1>4 DEF Inv

LEMMA ExpireInv ==
  ASSUME Inv, TypeOK', NEW c \in Comments, Expire(c)
  PROVE  Inv'
<1> USE DEF TypeOK, RequestState, TaskState, DeliveryState, Running, durable, outcome
<1>1. SingleWorker' /\ NoStranded' /\ NoSleepOnUnseen'
      /\ NoUnforcedDuplicate' /\ DownIsIdle'
  BY DEF Inv, SingleWorker, NoStranded, NoSleepOnUnseen, NoUnforcedDuplicate,
         DownIsIdle, Expire
<1>2. LoopShape' /\ RowHasRequest' /\ UnseenWakes' /\ DeliveryFacts'
      /\ TakenIsAccounted'
  BY DEF Inv, LoopShape, RowHasRequest, UnseenWakes, DeliveryFacts,
         TakenIsAccounted, Expire
<1> QED
  BY <1>1, <1>2 DEF Inv

\* Deliveries that are overwritten had all ended.
LEMMA SweepReadInv ==
  ASSUME Inv, TypeOK', NEW w \in Workers, SweepRead(w)
  PROVE  Inv'
<1> USE DEF TypeOK, RequestState, TaskState, DeliveryState, Running, durable, outcome
<1>1. SingleWorker' /\ NoStranded' /\ NoUnforcedDuplicate' /\ DownIsIdle'
  BY DEF Inv, SingleWorker, NoStranded, NoUnforcedDuplicate, DownIsIdle,
         SweepRead, LockFree
<1>2. LoopShape' /\ RowHasRequest' /\ UnseenWakes' /\ DeliveryFacts'
  BY DEF Inv, LoopShape, RowHasRequest, UnseenWakes, DeliveryFacts,
         SweepRead, LockFree
<1>3. NoSleepOnUnseen'
  BY DEF Inv, NoSleepOnUnseen, LoopShape, SweepRead, LockFree
<1>4. TakenIsAccounted'
  <2> SUFFICES ASSUME NEW c \in queue', sent'[c] > 0, c \notin doubt'
               PROVE  \E v \in Workers : delivery'[v][c] \in {"taken", "confirmed"}
    BY DEF TakenIsAccounted
  <2>1. PICK v \in Workers : delivery[v][c] \in {"taken", "confirmed"}
    BY DEF Inv, TakenIsAccounted, SweepRead
  <2>2. v # w
    BY <2>1 DEF Inv, LoopShape, SweepRead
  <2> QED
    BY <2>1, <2>2 DEF SweepRead
<1> QED
  BY <1>1, <1>2, <1>3, <1>4 DEF Inv

\* The lock is held since the queue was read: a row the sweep did not see
\* still has its handler ahead.
LEMMA SweepDecideInv ==
  ASSUME Inv, TypeOK', NEW w \in Workers, SweepDecide(w)
  PROVE  Inv'
<1> USE DEF TypeOK, RequestState, TaskState, DeliveryState, Running, durable, outcome
<1>1. SingleWorker' /\ NoSleepOnUnseen' /\ NoUnforcedDuplicate'
      /\ DownIsIdle'
  BY DEF Inv, SingleWorker, NoSleepOnUnseen, NoUnforcedDuplicate, DownIsIdle,
         SweepDecide
<1>2. LoopShape' /\ RowHasRequest' /\ UnseenWakes' /\ DeliveryFacts'
      /\ TakenIsAccounted'
  BY DEF Inv, LoopShape, RowHasRequest, UnseenWakes, DeliveryFacts,
         TakenIsAccounted, SweepDecide
<1>3. NoStranded'
  BY DEF Inv, NoStranded, UnseenWakes, SweepDecide
<1> QED
  BY <1>1, <1>2, <1>3 DEF Inv

LEMMA SweepFailsInv ==
  ASSUME Inv, TypeOK', NEW w \in Workers, SweepFails(w)
  PROVE  Inv'
<1> USE DEF TypeOK, RequestState, TaskState, DeliveryState, Running, durable, outcome
<1>1. SingleWorker' /\ NoStranded' /\ NoSleepOnUnseen'
      /\ NoUnforcedDuplicate'
  BY DEF Inv, SingleWorker, NoStranded, NoSleepOnUnseen, NoUnforcedDuplicate,
         SweepFails, Rest, LockFree
<1>2. DownIsIdle' /\ LoopShape' /\ RowHasRequest' /\ DeliveryFacts'
  BY DEF Inv, DownIsIdle, LoopShape, RowHasRequest, DeliveryFacts,
         SweepFails, Rest, LockFree
<1>3. UnseenWakes'
  BY DEF Inv, UnseenWakes, SingleWorker, SweepFails, Rest, LockFree
<1>4. TakenIsAccounted'
  BY DEF Inv, TakenIsAccounted, LoopShape, SweepFails, Rest, LockFree
<1> QED
  BY <1>1, <1>2, <1>3, <1>4 DEF Inv

\* Unless a wake-up is stored, every row was attempted and kept.
LEMMA JoinInv ==
  ASSUME Inv, TypeOK', NEW w \in Workers, Join(w)
  PROVE  Inv'
<1> USE DEF TypeOK, RequestState, TaskState, DeliveryState, Running, durable, outcome
<1>1. SingleWorker' /\ NoStranded' /\ NoUnforcedDuplicate' /\ DownIsIdle'
  BY DEF Inv, SingleWorker, NoStranded, NoUnforcedDuplicate, DownIsIdle,
         Join, Rest, AllJoined, AllLeftQueue
<1>2. LoopShape' /\ RowHasRequest' /\ DeliveryFacts' /\ TakenIsAccounted'
  BY DEF Inv, LoopShape, RowHasRequest, DeliveryFacts, TakenIsAccounted,
         Join, Rest, AllJoined, AllLeftQueue
<1>3. NoSleepOnUnseen'
  BY DEF Inv, NoSleepOnUnseen, UnseenWakes, DeliveryFacts, Join, Rest,
         AllJoined, AllLeftQueue
<1>4. UnseenWakes'
  BY DEF Inv, UnseenWakes, SingleWorker, Join, Rest, AllJoined, AllLeftQueue
<1> QED
  BY <1>1, <1>2, <1>3, <1>4 DEF Inv

LEMMA SleepElapsesInv ==
  ASSUME Inv, TypeOK', NEW w \in Workers, SleepElapses(w)
  PROVE  Inv'
<1> USE DEF TypeOK, RequestState, TaskState, DeliveryState, Running, durable, outcome
<1>1. SingleWorker' /\ NoStranded' /\ NoSleepOnUnseen'
      /\ NoUnforcedDuplicate' /\ DownIsIdle'
  BY DEF Inv, SingleWorker, NoStranded, NoSleepOnUnseen, NoUnforcedDuplicate,
         DownIsIdle, SleepElapses
<1>2. LoopShape' /\ RowHasRequest' /\ UnseenWakes' /\ DeliveryFacts'
      /\ TakenIsAccounted'
  BY DEF Inv, LoopShape, RowHasRequest, UnseenWakes, DeliveryFacts,
         TakenIsAccounted, SleepElapses
<1> QED
  BY <1>1, <1>2 DEF Inv

LEMMA WakesInv ==
  ASSUME Inv, TypeOK', NEW w \in Workers, Wakes(w)
  PROVE  Inv'
<1> USE DEF TypeOK, RequestState, TaskState, DeliveryState, Running, durable, outcome
<1>1. SingleWorker' /\ NoStranded' /\ NoSleepOnUnseen'
      /\ NoUnforcedDuplicate'
  BY DEF Inv, SingleWorker, NoStranded, NoSleepOnUnseen, NoUnforcedDuplicate,
         Wakes
<1>2. DownIsIdle' /\ LoopShape' /\ RowHasRequest' /\ DeliveryFacts'
      /\ TakenIsAccounted'
  BY DEF Inv, DownIsIdle, LoopShape, RowHasRequest, DeliveryFacts,
         TakenIsAccounted, Wakes
<1>3. UnseenWakes'
  BY DEF Inv, UnseenWakes, SingleWorker, Wakes
<1> QED
  BY <1>1, <1>2, <1>3 DEF Inv

LEMMA StartAttemptInv ==
  ASSUME Inv, TypeOK', NEW w \in Workers, NEW c \in Comments, StartAttempt(w, c)
  PROVE  Inv'
<1> USE DEF TypeOK, RequestState, TaskState, DeliveryState, Running, durable, outcome
<1>1. SingleWorker' /\ NoStranded' /\ NoSleepOnUnseen'
      /\ NoUnforcedDuplicate' /\ DownIsIdle'
  BY DEF Inv, SingleWorker, NoStranded, NoSleepOnUnseen, NoUnforcedDuplicate,
         DownIsIdle, StartAttempt, SetDelivery, IsExpired
<1>2. LoopShape' /\ RowHasRequest' /\ UnseenWakes' /\ DeliveryFacts'
      /\ TakenIsAccounted'
  BY DEF Inv, LoopShape, RowHasRequest, UnseenWakes, DeliveryFacts,
         TakenIsAccounted, StartAttempt, SetDelivery, IsExpired
<1> QED
  BY <1>1, <1>2 DEF Inv

LEMMA AcquirePermitInv ==
  ASSUME Inv, TypeOK', NEW w \in Workers, NEW c \in Comments, AcquirePermit(w, c)
  PROVE  Inv'
<1> USE DEF TypeOK, RequestState, TaskState, DeliveryState, Running, durable, outcome
<1>1. SingleWorker' /\ NoStranded' /\ NoSleepOnUnseen'
      /\ NoUnforcedDuplicate' /\ DownIsIdle'
  BY DEF Inv, SingleWorker, NoStranded, NoSleepOnUnseen, NoUnforcedDuplicate,
         DownIsIdle, AcquirePermit, SetDelivery
<1>2. LoopShape' /\ RowHasRequest' /\ UnseenWakes' /\ DeliveryFacts'
      /\ TakenIsAccounted'
  BY DEF Inv, LoopShape, RowHasRequest, UnseenWakes, DeliveryFacts,
         TakenIsAccounted, AcquirePermit, SetDelivery
<1> QED
  BY <1>1, <1>2 DEF Inv

LEMMA PermitTimeoutInv ==
  ASSUME Inv, TypeOK', NEW w \in Workers, NEW c \in Comments, PermitTimeout(w, c)
  PROVE  Inv'
<1> USE DEF TypeOK, RequestState, TaskState, DeliveryState, Running, durable, outcome
<1>1. SingleWorker' /\ NoStranded' /\ NoSleepOnUnseen'
      /\ NoUnforcedDuplicate' /\ DownIsIdle'
  BY DEF Inv, SingleWorker, NoStranded, NoSleepOnUnseen, NoUnforcedDuplicate,
         DownIsIdle, PermitTimeout, SetDelivery
<1>2. LoopShape' /\ RowHasRequest' /\ UnseenWakes' /\ DeliveryFacts'
      /\ TakenIsAccounted'
  BY DEF Inv, LoopShape, RowHasRequest, UnseenWakes, DeliveryFacts,
         TakenIsAccounted, PermitTimeout, SetDelivery
<1> QED
  BY <1>1, <1>2 DEF Inv

\* A second taking needs a row that outlived the first.
LEMMA ServerTakesInv ==
  ASSUME Inv, TypeOK', NEW w \in Workers, NEW c \in Comments, ServerTakes(w, c)
  PROVE  Inv'
<1> USE DEF TypeOK, RequestState, TaskState, DeliveryState, Running, durable, outcome
<1>1. SingleWorker' /\ NoStranded' /\ NoSleepOnUnseen' /\ DownIsIdle'
  BY DEF Inv, SingleWorker, NoStranded, NoSleepOnUnseen, DownIsIdle,
         ServerTakes, SetDelivery
<1>2. LoopShape' /\ RowHasRequest' /\ UnseenWakes' /\ DeliveryFacts'
      /\ TakenIsAccounted'
  BY DEF Inv, LoopShape, RowHasRequest, UnseenWakes, DeliveryFacts,
         TakenIsAccounted, ServerTakes, SetDelivery
<1>3. NoUnforcedDuplicate'
  <2>1. c \in queue
    BY DEF Inv, DeliveryFacts, ServerTakes
  <2>2. ASSUME sent[c] > 0 PROVE c \in doubt
    <3>1. SUFFICES ASSUME NEW v \in Workers, delivery[v][c] \in {"taken", "confirmed"}
                   PROVE  FALSE
      BY <2>1, <2>2 DEF Inv, TakenIsAccounted
    <3>2. task[v] # "idle" /\ task[w] # "idle"
      BY <3>1 DEF Inv, DownIsIdle, ServerTakes, SetDelivery
    <3>3. v = w
      BY <3>2 DEF Inv, SingleWorker
    <3> QED
      BY <3>1, <3>3 DEF ServerTakes
  <2> QED
    BY <2>2 DEF Inv, NoUnforcedDuplicate, ServerTakes, SetDelivery
<1> QED
  BY <1>1, <1>2, <1>3 DEF Inv

LEMMA SendOkInv ==
  ASSUME Inv, TypeOK', NEW w \in Workers, NEW c \in Comments, SendOk(w, c)
  PROVE  Inv'
<1> USE DEF TypeOK, RequestState, TaskState, DeliveryState, Running, durable, outcome
<1>1. SingleWorker' /\ NoStranded' /\ NoSleepOnUnseen'
      /\ NoUnforcedDuplicate' /\ DownIsIdle'
  BY DEF Inv, SingleWorker, NoStranded, NoSleepOnUnseen, NoUnforcedDuplicate,
         DownIsIdle, SendOk, SetDelivery
<1>2. LoopShape' /\ RowHasRequest' /\ UnseenWakes' /\ DeliveryFacts'
      /\ TakenIsAccounted'
  BY DEF Inv, LoopShape, RowHasRequest, UnseenWakes, DeliveryFacts,
         TakenIsAccounted, SendOk, SetDelivery
<1> QED
  BY <1>1, <1>2 DEF Inv

LEMMA SendFailsInv ==
  ASSUME Inv, TypeOK', NEW w \in Workers, NEW c \in Comments, SendFails(w, c)
  PROVE  Inv'
<1> USE DEF TypeOK, RequestState, TaskState, DeliveryState, Running, durable, outcome
<1>1. SingleWorker' /\ NoStranded' /\ NoSleepOnUnseen'
      /\ NoUnforcedDuplicate' /\ DownIsIdle'
  BY DEF Inv, SingleWorker, NoStranded, NoSleepOnUnseen, NoUnforcedDuplicate,
         DownIsIdle, SendFails, SetDelivery
<1>2. LoopShape' /\ RowHasRequest' /\ UnseenWakes' /\ DeliveryFacts'
      /\ TakenIsAccounted'
  BY DEF Inv, LoopShape, RowHasRequest, UnseenWakes, DeliveryFacts,
         TakenIsAccounted, SendFails, SetDelivery
<1> QED
  BY <1>1, <1>2 DEF Inv

\* No other delivery works on the removed row, for the worker is alone.
LEMMA RemoveOkInv ==
  ASSUME Inv, TypeOK', NEW w \in Workers, NEW c \in Comments, RemoveOk(w, c)
  PROVE  Inv'
<1> USE DEF TypeOK, RequestState, TaskState, DeliveryState, Running, durable, outcome
<1>1. SingleWorker' /\ NoStranded' /\ NoSleepOnUnseen'
      /\ NoUnforcedDuplicate'
  BY DEF Inv, SingleWorker, NoStranded, NoSleepOnUnseen, NoUnforcedDuplicate,
         RemoveOk, SetDelivery, DropPermit, Removing
<1>2. DownIsIdle' /\ LoopShape' /\ RowHasRequest' /\ UnseenWakes'
      /\ TakenIsAccounted'
  BY DEF Inv, DownIsIdle, LoopShape, RowHasRequest, UnseenWakes,
         TakenIsAccounted, RemoveOk, SetDelivery, DropPermit, Removing
<1>3. DeliveryFacts'
  BY DEF Inv, DeliveryFacts, SingleWorker, DownIsIdle, RemoveOk, SetDelivery,
         DropPermit, Removing
<1> QED
  BY <1>1, <1>2, <1>3 DEF Inv

LEMMA RemoveFailsInv ==
  ASSUME Inv, TypeOK', NEW w \in Workers, NEW c \in Comments, RemoveFails(w, c)
  PROVE  Inv'
<1> USE DEF TypeOK, RequestState, TaskState, DeliveryState, Running, durable, outcome
<1>1. SingleWorker' /\ NoStranded' /\ NoSleepOnUnseen'
      /\ NoUnforcedDuplicate' /\ DownIsIdle'
  BY DEF Inv, SingleWorker, NoStranded, NoSleepOnUnseen, NoUnforcedDuplicate,
         DownIsIdle, RemoveFails, SetDelivery, DropPermit, Removing
<1>2. LoopShape' /\ RowHasRequest' /\ UnseenWakes' /\ DeliveryFacts'
      /\ TakenIsAccounted'
  BY DEF Inv, LoopShape, RowHasRequest, UnseenWakes, DeliveryFacts,
         TakenIsAccounted, RemoveFails, SetDelivery, DropPermit, Removing
<1> QED
  BY <1>1, <1>2 DEF Inv

LEMMA ReportInv ==
  ASSUME Inv, TypeOK', NEW w \in Workers, NEW c \in Comments, Report(w, c)
  PROVE  Inv'
<1> USE DEF TypeOK, RequestState, TaskState, DeliveryState, Running, durable, outcome
<1>1. SingleWorker' /\ NoStranded' /\ NoSleepOnUnseen'
      /\ NoUnforcedDuplicate' /\ DownIsIdle'
  BY DEF Inv, SingleWorker, NoStranded, NoSleepOnUnseen, NoUnforcedDuplicate,
         DownIsIdle, Report, SetDelivery
<1>2. LoopShape' /\ RowHasRequest' /\ UnseenWakes' /\ DeliveryFacts'
      /\ TakenIsAccounted'
  BY DEF Inv, LoopShape, RowHasRequest, UnseenWakes, DeliveryFacts,
         TakenIsAccounted, Report, SetDelivery
<1> QED
  BY <1>1, <1>2 DEF Inv

-----------------------------------------------------------------------------
(* The invariants *)

\* Inv holds in every reachable state.
THEOREM Invariance == Spec => []Inv
<1>1. Init => Inv
  <2> SUFFICES ASSUME Init PROVE Inv
    OBVIOUS
  <2>1. TypeOK
    BY InitType
  <2> QED
    BY <2>1 DEF Init, NoDeliveries, Running, Inv, SingleWorker, NoStranded,
           NoSleepOnUnseen, NoUnforcedDuplicate, DownIsIdle, LoopShape,
           RowHasRequest, UnseenWakes, DeliveryFacts, TakenIsAccounted
<1>2. Inv /\ [Next]_vars => Inv'
  <2> SUFFICES ASSUME Inv, [Next]_vars PROVE Inv'
    OBVIOUS
  <2>0. TypeOK'
    BY TypeStep DEF Inv
  <2>1. CASE Boot
    BY <2>1, <2>0, BootInv
  <2>2. CASE Crash
    BY <2>2, <2>0, CrashInv
  <2>3. ASSUME NEW c \in Comments, Enqueue(c) PROVE Inv'
    BY <2>3, <2>0, EnqueueInv
  <2>4. ASSUME NEW c \in Comments, EnqueueFails(c) PROVE Inv'
    BY <2>4, <2>0, EnqueueFailsInv
  <2>5. ASSUME NEW c \in Comments, SubmitSpawn(c) PROVE Inv'
    BY <2>5, <2>0, SubmitSpawnInv
  <2>6. ASSUME NEW c \in Comments, Expire(c) PROVE Inv'
    BY <2>6, <2>0, ExpireInv
  <2>7. ASSUME NEW w \in Workers, SweepRead(w) PROVE Inv'
    BY <2>7, <2>0, SweepReadInv
  <2>8. ASSUME NEW w \in Workers, SweepDecide(w) PROVE Inv'
    BY <2>8, <2>0, SweepDecideInv
  <2>9. ASSUME NEW w \in Workers, SweepFails(w) PROVE Inv'
    BY <2>9, <2>0, SweepFailsInv
  <2>10. ASSUME NEW w \in Workers, Join(w) PROVE Inv'
    BY <2>10, <2>0, JoinInv
  <2>11. ASSUME NEW w \in Workers, SleepElapses(w) PROVE Inv'
    BY <2>11, <2>0, SleepElapsesInv
  <2>12. ASSUME NEW w \in Workers, Wakes(w) PROVE Inv'
    BY <2>12, <2>0, WakesInv
  <2>13. ASSUME NEW w \in Workers, NEW c \in Comments, StartAttempt(w, c) PROVE Inv'
    BY <2>13, <2>0, StartAttemptInv
  <2>14. ASSUME NEW w \in Workers, NEW c \in Comments, AcquirePermit(w, c) PROVE Inv'
    BY <2>14, <2>0, AcquirePermitInv
  <2>15. ASSUME NEW w \in Workers, NEW c \in Comments, PermitTimeout(w, c) PROVE Inv'
    BY <2>15, <2>0, PermitTimeoutInv
  <2>16. ASSUME NEW w \in Workers, NEW c \in Comments, ServerTakes(w, c) PROVE Inv'
    BY <2>16, <2>0, ServerTakesInv
  <2>17. ASSUME NEW w \in Workers, NEW c \in Comments, SendOk(w, c) PROVE Inv'
    BY <2>17, <2>0, SendOkInv
  <2>18. ASSUME NEW w \in Workers, NEW c \in Comments, SendFails(w, c) PROVE Inv'
    BY <2>18, <2>0, SendFailsInv
  <2>19. ASSUME NEW w \in Workers, NEW c \in Comments, RemoveOk(w, c) PROVE Inv'
    BY <2>19, <2>0, RemoveOkInv
  <2>20. ASSUME NEW w \in Workers, NEW c \in Comments, RemoveFails(w, c) PROVE Inv'
    BY <2>20, <2>0, RemoveFailsInv
  <2>21. ASSUME NEW w \in Workers, NEW c \in Comments, Report(w, c) PROVE Inv'
    BY <2>21, <2>0, ReportInv
  <2>22. CASE UNCHANGED vars
    BY <2>22 DEF vars, Inv, TypeOK, SingleWorker, NoStranded, NoSleepOnUnseen,
           NoUnforcedDuplicate, DownIsIdle, LoopShape, RowHasRequest, UnseenWakes,
           DeliveryFacts, TakenIsAccounted, RequestState, TaskState, DeliveryState,
           Running
  <2> QED
    BY <2>1, <2>2, <2>3, <2>4, <2>5, <2>6, <2>7, <2>8, <2>9, <2>10, <2>11,
       <2>12, <2>13, <2>14, <2>15, <2>16, <2>17, <2>18, <2>19, <2>20, <2>21,
       <2>22
       DEF Next, Handler, Loop, Attempt
<1> QED
  BY <1>1, <1>2, PTL DEF Spec

\* At most one worker instance runs, whatever handlers, exits and restarts do.
THEOREM OneWorker == Spec => []SingleWorker
<1>1. Inv => SingleWorker
  BY DEF Inv
<1> QED
  BY <1>1, Invariance, PTL

\* No queued comment is left without a worker: an exit never races with a
\* submit so that the row stays behind.
THEOREM NothingStranded == Spec => []NoStranded
<1>1. Inv => NoStranded
  BY DEF Inv
<1> QED
  BY <1>1, Invariance, PTL

\* No wake-up is lost: the worker sleeps only on comments it has attempted.
THEOREM NoLostWakeUp == Spec => []NoSleepOnUnseen
<1>1. Inv => NoSleepOnUnseen
  BY DEF Inv
<1> QED
  BY <1>1, Invariance, PTL

\* A message is sent twice only if an earlier success could not be recorded.
THEOREM DuplicatesAreForced == Spec => []NoUnforcedDuplicate
<1>1. Inv => NoUnforcedDuplicate
  BY DEF Inv
<1> QED
  BY <1>1, Invariance, PTL
-----------------------------------------------------------------------------
(* Consequences *)

\* The mutex is free for the worker's next sweep; whoever holds it can decide.
MutexMoves ==
  \A w \in Workers :
    /\ task[w] = "sweep" => LockFree
    /\ task[w] = "locked" => \/ delivery[w] = [c \in Comments |-> "none"]
                             \/ \E c \in Comments : delivery[w][c] = "spawned"

\* The worker never waits for the mutex, and no handler waits for it for ever.
THEOREM MutexIsReleased == Spec => []MutexMoves
<1>1. Inv => MutexMoves
  <2> SUFFICES ASSUME Inv, NEW w \in Workers
               PROVE  /\ task[w] = "sweep" => LockFree
                      /\ task[w] = "locked" =>
                           \/ delivery[w] = [c \in Comments |-> "none"]
                           \/ \E c \in Comments : delivery[w][c] = "spawned"
    BY DEF MutexMoves
  <2>1. task[w] = "sweep" => LockFree
    BY DEF Inv, SingleWorker, LockFree
  <2>2. ASSUME task[w] = "locked", \A c \in Comments : delivery[w][c] # "spawned"
        PROVE  delivery[w] = [c \in Comments |-> "none"]
    <3>1. \A c \in Comments : delivery[w][c] = "none"
      BY <2>2 DEF Inv, LoopShape
    <3>2. delivery[w] \in [Comments -> DeliveryState]
      BY DEF Inv, TypeOK
    <3> QED
      BY <3>1, <3>2
  <2> QED
    BY <2>1, <2>2
<1> QED
  BY <1>1, Invariance, PTL

LEMMA ConfirmedStep ==
  ASSUME Inv, Next, NEW w \in Workers, NEW c \in Comments,
         delivery[w][c] \in Confirmed
  PROVE  delivery'[w][c] \in Confirmed \/ c \in reported' \/ ~up'
<1> USE DEF Confirmed, Inv, TypeOK
<1>1. CASE Crash
  BY <1>1 DEF Crash
<1>2. CASE Boot \/ \E d \in Comments : Handler(d) \/ Expire(d)
  BY <1>2 DEF Boot, Handler, Enqueue, EnqueueFails, SubmitSpawn, Expire
<1>3. ASSUME NEW v \in Workers, Loop(v)
      PROVE  delivery'[w][c] \in Confirmed
  <2>1. CASE SweepRead(v) \/ SweepFails(v)
    <3>1. v # w
      BY <2>1 DEF SweepRead, SweepFails, LoopShape
    <3> QED
      BY <2>1, <3>1 DEF SweepRead, SweepFails
  <2>2. CASE SweepDecide(v) \/ Join(v) \/ SleepElapses(v) \/ Wakes(v)
    BY <2>2 DEF SweepDecide, Join, SleepElapses, Wakes
  <2> QED
    BY <1>3, <2>1, <2>2 DEF Loop
<1>4. ASSUME NEW v \in Workers, NEW d \in Comments, Attempt(v, d)
      PROVE  delivery'[w][c] \in Confirmed \/ c \in reported'
  <2>1. CASE v # w \/ d # c
    <3>1. delivery'[w][c] = delivery[w][c]
      BY <1>4, <2>1 DEF Attempt, StartAttempt, AcquirePermit, PermitTimeout, ServerTakes,
         SendOk, SendFails, RemoveOk, RemoveFails, Report, SetDelivery
    <3> QED
      BY <3>1
  <2>2. CASE v = w /\ d = c
    <3>1. RemoveOk(w, c) \/ RemoveFails(w, c) \/ Report(w, c)
      BY <1>4, <2>2 DEF Attempt, StartAttempt, AcquirePermit, PermitTimeout, ServerTakes,
         SendOk, SendFails
    <3> QED
      BY <3>1 DEF RemoveOk, RemoveFails, Report, SetDelivery, Removing
  <2> QED
    BY <2>1, <2>2
<1> QED
  BY <1>1, <1>2, <1>3, <1>4 DEF Next

\* A confirmed delivery is reported whatever becomes of its row: only the death
\* of the process comes before.
THEOREM ConfirmedAreReported == Spec => ConfirmedIsReported
<1> DEFINE Reported ==
             \A w \in Workers, c \in Comments :
               delivery[w][c] \in Confirmed =>
                 delivery'[w][c] \in Confirmed \/ c \in reported' \/ ~up'
<1>1. Inv /\ [Next]_vars => [Reported]_vars
  BY ConfirmedStep
<1> QED
  BY <1>1, Invariance, PTL DEF Spec, ConfirmedIsReported

\* A step after which the sink knows what the server took: the process does not
\* die, no answer is lost, and the row of a sent comment is removed.
Recorded ==
  /\ ~Crash
  /\ \A w \in Workers, c \in Comments :
       /\ SendFails(w, c) => delivery[w][c] # "taken"
       /\ RemoveFails(w, c) => delivery[w][c] # "confirmed"

NoDoubt == doubt = {}

LEMMA RecordedStep == NoDoubt /\ [Next]_vars /\ [Recorded]_vars => NoDoubt'
<1> SUFFICES ASSUME NoDoubt, [Next]_vars, [Recorded]_vars PROVE NoDoubt'
  OBVIOUS
<1> USE DEF NoDoubt, outcome
<1>1. CASE UNCHANGED vars
  BY <1>1 DEF vars
<1>2. ASSUME Recorded, Crash PROVE FALSE
  BY <1>2 DEF Recorded
<1>3. ASSUME NEW c \in Comments, Handler(c) \/ Expire(c) PROVE UNCHANGED doubt
  BY <1>3 DEF Handler, Enqueue, EnqueueFails, SubmitSpawn, Expire
<1>4. ASSUME NEW w \in Workers, Loop(w) PROVE UNCHANGED doubt
  BY <1>4 DEF Loop, SweepRead, SweepDecide, SweepFails, Join, SleepElapses, Wakes
<1>5. ASSUME NEW w \in Workers, NEW c \in Comments, Attempt(w, c), Recorded
      PROVE  UNCHANGED doubt
  <2>1. CASE SendFails(w, c) \/ RemoveFails(w, c)
    BY <1>5, <2>1 DEF Recorded, SendFails, RemoveFails
  <2>2. CASE ~SendFails(w, c) /\ ~RemoveFails(w, c)
    BY <1>5, <2>2 DEF Attempt, StartAttempt, AcquirePermit, PermitTimeout, ServerTakes,
       SendOk, RemoveOk, Report
  <2> QED
    BY <2>1, <2>2
<1>6. CASE Boot
  BY <1>6 DEF Boot
<1> QED
  BY <1>1, <1>2, <1>3, <1>4, <1>5, <1>6 DEF Next

\* While every success is recorded no message is sent twice: retries, wake-ups,
\* refused writes and worker restarts alone never duplicate one.
THEOREM RecordedIsSentOnce ==
  Spec /\ [][Recorded]_vars => [](\A c \in Comments : sent[c] <= 1)
<1> DEFINE SentOnce == \A c \in Comments : sent[c] <= 1
<1>1. Init => NoDoubt
  BY DEF Init, NoDoubt
<1>2. Inv /\ NoDoubt => SentOnce
  BY DEF NoDoubt, Inv, TypeOK, NoUnforcedDuplicate
<1> HIDE DEF SentOnce
<1>3. Spec /\ [][Recorded]_vars => []SentOnce
  BY <1>1, <1>2, Invariance, RecordedStep, PTL DEF Spec
<1> QED
  BY <1>3, PTL DEF SentOnce
-----------------------------------------------------------------------------
(* Refinement of OutgoingQueue *)

\* An unfinished delivery's row is queued until that delivery removes it, and
\* by then there is a reason for it to leave.
LEMMA RemoveOkLeaves ==
  ASSUME Inv, NEW w \in Workers, NEW c \in Comments, RemoveOk(w, c)
  PROVE  Queue!Leave(c)
<1>1. c \in queue
  BY DEF Inv, DeliveryFacts, RemoveOk, Removing, Running
<1>2. sent[c] > 0 \/ c \in expired \/ c \in Unusable
  BY DEF Inv, DeliveryFacts, RemoveOk, Removing
<1>3. request[c] \notin {"none", "refused"}
  BY <1>1 DEF Inv, RowHasRequest
<1>4. QueueState' = [QueueState EXCEPT ![c] = "gone"]
  BY <1>1, <1>3 DEF RemoveOk, SetDelivery, QueueState, outcome
<1>5. QueueState[c] = "queued"
  BY <1>1 DEF QueueState
<1> QED
  BY <1>2, <1>4, <1>5 DEF Queue!Leave, RemoveOk, SetDelivery, outcome

LEMMA QueueStep == Inv /\ [Next]_vars => [Queue!QueueNext]_(Queue!qvars)
<1> SUFFICES ASSUME Inv, [Next]_vars PROVE [Queue!QueueNext]_(Queue!qvars)
  OBVIOUS
<1> USE DEF durable, outcome
<1>1. ASSUME NEW c \in Comments, Enqueue(c) PROVE Queue!Accept(c)
  <2>1. c \notin queue
    BY <1>1 DEF Inv, RowHasRequest, Enqueue
  <2>2. QueueState[c] = "new" /\ QueueState' = [QueueState EXCEPT ![c] = "queued"]
    BY <1>1, <2>1 DEF Inv, TypeOK, Enqueue, QueueState
  <2> QED
    BY <1>1, <2>2 DEF Enqueue, Queue!Accept
<1>2. ASSUME NEW c \in Comments, Expire(c) PROVE Queue!Age(c)
  BY <1>2 DEF Expire, Queue!Age, QueueState
<1>3. ASSUME NEW w \in Workers, NEW c \in Comments, ServerTakes(w, c)
      PROVE  Queue!Deliver(c)
  <2>1. c \in queue
    BY <1>3 DEF Inv, DeliveryFacts, ServerTakes, Running
  <2> QED
    BY <1>3, <2>1 DEF ServerTakes, SetDelivery, Queue!Deliver, QueueState
<1>4. ASSUME NEW w \in Workers, NEW c \in Comments, RemoveOk(w, c)
      PROVE  Queue!Leave(c)
  BY <1>4, RemoveOkLeaves
<1>5. ASSUME NEW c \in Comments, EnqueueFails(c) \/ SubmitSpawn(c)
      PROVE  UNCHANGED Queue!qvars
  <2>1. QueueState' = QueueState
    BY <1>5 DEF Inv, TypeOK, EnqueueFails, SubmitSpawn, QueueState
  <2> QED
    BY <1>5, <2>1 DEF EnqueueFails, SubmitSpawn, Queue!qvars
<1>6. CASE Boot \/ Crash
  <2>1. QueueState' = QueueState
    BY <1>6 DEF Inv, TypeOK, Boot, Crash, QueueState
  <2> QED
    BY <1>6, <2>1 DEF Boot, Crash, Queue!qvars
<1>7. ASSUME NEW w \in Workers, Loop(w) PROVE UNCHANGED Queue!qvars
  BY <1>7 DEF Loop, SweepRead, SweepDecide, SweepFails, Join, SleepElapses, Wakes,
     QueueState, Queue!qvars
<1>8. ASSUME NEW w \in Workers, NEW c \in Comments, Attempt(w, c),
             ~ServerTakes(w, c), ~RemoveOk(w, c)
      PROVE  UNCHANGED Queue!qvars
  BY <1>8 DEF Attempt, StartAttempt, AcquirePermit, PermitTimeout, SendOk, SendFails,
     RemoveFails, Report, SetDelivery, QueueState, Queue!qvars
<1>9. CASE UNCHANGED vars
  BY <1>9 DEF vars, QueueState, Queue!qvars
<1> QED
  BY <1>1, <1>2, <1>3, <1>4, <1>5, <1>6, <1>7, <1>8, <1>9
     DEF Next, Handler, Attempt, Queue!QueueNext

\* The sink implements the queue it promises, for any number of comments,
\* crashes included: nothing accepted is lost before it was delivered or
\* given up.
THEOREM SinkImplementsQueue == Spec => ImplementsQueue
<1>1. Init => Queue!QueueInit
  BY DEF Init, Queue!QueueInit, QueueState
<1> QED
  BY <1>1, Invariance, QueueStep, PTL DEF Spec, ImplementsQueue, Queue!QueueSpec
-----------------------------------------------------------------------------
(* The permits of delivery_limit *)

\* A delivery that takes a permit joins the holders.
LEMMA HoldersGrow ==
  ASSUME TypeOK, NEW w \in Workers, NEW c \in Comments, NEW s \in Holding,
         SetDelivery(w, c, s)
  PROVE  Holders' = Holders \cup {<<w, c>>}
<1>1. ASSUME NEW v \in Workers, NEW d \in Comments
      PROVE  delivery'[v][d] = IF v = w /\ d = c THEN s ELSE delivery[v][d]
  BY DEF SetDelivery, TypeOK
<1> QED
  BY <1>1 DEF Holders

\* A delivery that holds none after a step is not among them.
LEMMA HoldersShrink ==
  ASSUME TypeOK, NEW w \in Workers, NEW c \in Comments, NEW s, s \notin Holding,
         SetDelivery(w, c, s)
  PROVE  Holders' = Holders \ {<<w, c>>}
<1>1. ASSUME NEW v \in Workers, NEW d \in Comments
      PROVE  delivery'[v][d] = IF v = w /\ d = c THEN s ELSE delivery[v][d]
  BY DEF SetDelivery, TypeOK
<1> QED
  BY <1>1 DEF Holders

\* A sweep that replaces the deliveries of w disturbs no permit holder.
LEMMA SweepKeepsHolders ==
  ASSUME Inv, NEW w \in Workers, task[w] = "sweep",
         NEW f, \A c \in Comments : f[c] \notin Holding,
         delivery' = [delivery EXCEPT ![w] = f]
  PROVE  Holders' = Holders
<1>1. ASSUME NEW v \in Workers, NEW c \in Comments
      PROVE  delivery'[v][c] \in Holding <=> delivery[v][c] \in Holding
  <2>1. delivery[w][c] \notin Holding
    BY DEF Inv, LoopShape, Holding
  <2> QED
    BY <2>1 DEF Inv, TypeOK
<1> QED
  BY <1>1 DEF Holders

\* The inductive form: the holders are finitely many.
PermitInv == IsFiniteSet(Holders) /\ PermitsConserved

LEMMA PermitStep == Inv /\ PermitInv /\ [Next]_vars => PermitInv'
<1> SUFFICES ASSUME Inv, PermitInv, [Next]_vars PROVE PermitInv'
  OBVIOUS
<1>0. TypeOK /\ Cardinality(Holders) \in Nat /\ permits \in Nat /\ MaxDeliveries \in Nat
  BY FS_CardinalityType, SinkConstants DEF Inv, TypeOK, PermitInv, SinkConstants
<1>a. ASSUME Holders' = Holders, permits' = permits PROVE PermitInv'
  BY <1>a DEF PermitInv, PermitsConserved
<1>b. ASSUME NEW x \in Holders, Holders' = Holders \ {x}, permits' = permits + 1
      PROVE  PermitInv'
  BY <1>0, <1>b, FS_RemoveElement DEF PermitInv, PermitsConserved
<1>c. ASSUME UNCHANGED <<delivery, permits>> PROVE PermitInv'
  BY <1>a, <1>c DEF Holders
<1>1. ASSUME NEW w \in Workers, NEW c \in Comments, AcquirePermit(w, c) PROVE PermitInv'
  <2>1. Holders' = Holders \cup {<<w, c>>}
    BY <1>0, <1>1, HoldersGrow DEF AcquirePermit, Holding
  <2>2. <<w, c>> \notin Holders
    BY <1>1 DEF AcquirePermit, Holders, Holding
  <2>3. /\ IsFiniteSet(Holders')
        /\ Cardinality(Holders') = Cardinality(Holders) + 1
    BY <2>1, <2>2, FS_AddElement DEF PermitInv
  <2>4. permits' = permits - 1
    BY <1>1 DEF AcquirePermit
  <2> QED
    BY <1>0, <2>3, <2>4 DEF PermitInv, PermitsConserved
<1>2. ASSUME NEW w \in Workers, NEW c \in Comments,
             delivery[w][c] \notin Holding, permits' = permits,
             NEW s, s \notin Holding, SetDelivery(w, c, s)
      PROVE  PermitInv'
  <2>1. Holders' = Holders
    BY <1>0, <1>2, HoldersShrink DEF Holders
  <2> QED
    BY <1>2, <2>1, <1>a
<1>3. ASSUME NEW w \in Workers, NEW c \in Comments,
             delivery[w][c] \in Holding, permits' = permits + 1,
             NEW s, s \notin Holding, SetDelivery(w, c, s)
      PROVE  PermitInv'
  <2>1. Holders' = Holders \ {<<w, c>>}
    BY <1>0, <1>3, HoldersShrink
  <2>2. <<w, c>> \in Holders
    BY <1>3 DEF Holders
  <2> QED
    BY <1>3, <2>1, <2>2, <1>b
<1>4. ASSUME NEW w \in Workers, NEW c \in Comments, Attempt(w, c) PROVE PermitInv'
  <2>1. CASE StartAttempt(w, c)
    BY <2>1, <1>2 DEF StartAttempt, Holding
  <2>2. CASE AcquirePermit(w, c)
    BY <2>2, <1>1
  <2>3. CASE PermitTimeout(w, c)
    BY <2>3, <1>2 DEF PermitTimeout, Holding
  <2>4. CASE ServerTakes(w, c)
    <3>1. Holders' = Holders \cup {<<w, c>>}
      BY <1>0, <2>4, HoldersGrow DEF ServerTakes, Holding
    <3>2. <<w, c>> \in Holders
      BY <2>4 DEF ServerTakes, Holders, Holding
    <3> QED
      BY <2>4, <3>1, <3>2, <1>a DEF ServerTakes
  <2>5. CASE SendOk(w, c)
    BY <2>5, <1>3 DEF SendOk, Holding
  <2>6. CASE SendFails(w, c)
    BY <2>6, <1>3 DEF SendFails, Holding
  <2>7. CASE RemoveOk(w, c) \/ RemoveFails(w, c)
    <3>1. CASE delivery[w][c] = "unusable"
      BY <2>7, <3>1, <1>3 DEF RemoveOk, RemoveFails, DropPermit, Holding
    <3>2. CASE delivery[w][c] # "unusable"
      BY <2>7, <3>2, <1>2 DEF RemoveOk, RemoveFails, DropPermit, Removing, Holding
    <3> QED
      BY <3>1, <3>2
  <2>8. CASE Report(w, c)
    BY <2>8, <1>2 DEF Report, Holding
  <2> QED
    BY <1>4, <2>1, <2>2, <2>3, <2>4, <2>5, <2>6, <2>7, <2>8 DEF Attempt
<1>5. ASSUME NEW w \in Workers, SweepRead(w) \/ SweepFails(w) PROVE PermitInv'
  <2>1. PICK f : /\ task[w] = "sweep" /\ delivery' = [delivery EXCEPT ![w] = f]
                 /\ \A c \in Comments : f[c] \notin Holding
    <3>1. CASE SweepRead(w)
      <4> DEFINE f == [c \in Comments |-> IF c \in queue THEN "spawned" ELSE "none"]
      <4>1. task[w] = "sweep" /\ delivery' = [delivery EXCEPT ![w] = f]
        BY <3>1 DEF SweepRead
      <4>2. \A c \in Comments : f[c] \notin Holding
        BY DEF Holding
      <4> QED
        BY <4>1, <4>2
    <3>2. CASE SweepFails(w)
      <4> DEFINE f == [c \in Comments |-> "none"]
      <4>1. task[w] = "sweep" /\ delivery' = [delivery EXCEPT ![w] = f]
        BY <3>2 DEF SweepFails
      <4>2. \A c \in Comments : f[c] \notin Holding
        BY DEF Holding
      <4> QED
        BY <4>1, <4>2
    <3> QED
      BY <1>5, <3>1, <3>2
  <2>2. Holders' = Holders
    BY <2>1, SweepKeepsHolders
  <2> QED
    BY <1>5, <2>2, <1>a DEF SweepRead, SweepFails
<1>6. CASE Crash
  <2>1. Holders' = {} /\ permits' = MaxDeliveries
    BY <1>6 DEF Crash, NoDeliveries, Holders, Holding
  <2> QED
    BY <1>0, <2>1, FS_EmptySet DEF PermitInv, PermitsConserved
<1>7. ASSUME NEW w \in Workers,
             SweepDecide(w) \/ Join(w) \/ SleepElapses(w) \/ Wakes(w)
      PROVE  PermitInv'
  BY <1>7, <1>c DEF SweepDecide, Join, SleepElapses, Wakes
<1>8. ASSUME NEW c \in Comments, Handler(c) \/ Expire(c) PROVE PermitInv'
  BY <1>8, <1>c DEF Handler, Enqueue, EnqueueFails, SubmitSpawn, Expire
<1>9. CASE Boot \/ UNCHANGED vars
  BY <1>9, <1>c DEF Boot, vars
<1> QED
  BY <1>4, <1>5, <1>6, <1>7, <1>8, <1>9 DEF Next, Loop

LEMMA PermitInvariance == Spec => []PermitInv
<1>1. Init => PermitInv
  <2> SUFFICES ASSUME Init PROVE PermitInv
    OBVIOUS
  <2>1. Holders = {}
    BY DEF Init, NoDeliveries, Holders, Holding
  <2> QED
    BY <2>1, FS_EmptySet, SinkConstants
       DEF Init, PermitInv, PermitsConserved, SinkConstants
<1> QED
  BY <1>1, Invariance, PermitStep, PTL DEF Spec

\* Every path of a delivery returns its permit exactly once, so SMTP sessions
\* never exceed the configured cap and the semaphore never runs dry.
THEOREM PermitsNeverLeak == Spec => []PermitsConserved
<1>1. PermitInv => PermitsConserved
  BY DEF PermitInv
<1> QED
  BY <1>1, PermitInvariance, PTL

\* A configured cap of 0, which nothing rejects, means that nothing is ever
\* sent: comments only wait for their TTL.
THEOREM NoPermitsNoMail ==
  ASSUME MaxDeliveries = 0
  PROVE  Spec => [](\A c \in Comments : sent[c] = 0)
<1> DEFINE Unsent == \A c \in Comments : sent[c] = 0
<1>1. Init => Unsent
  BY DEF Init
<1>2. Inv /\ PermitInv /\ Unsent /\ [Next]_vars => Unsent'
  <2> SUFFICES ASSUME Inv, PermitInv, Unsent, [Next]_vars PROVE Unsent'
    OBVIOUS
  <2>1. Cardinality(Holders) = 0 /\ IsFiniteSet(Holders)
    <3>1. Cardinality(Holders) \in Nat /\ permits \in Nat
      BY FS_CardinalityType DEF PermitInv, Inv, TypeOK
    <3> QED
      BY <3>1 DEF PermitInv, PermitsConserved
  <2>2. \A w \in Workers, c \in Comments : delivery[w][c] # "sending"
    <3>1. Holders = {}
      BY <2>1, FS_EmptySet
    <3>2. ASSUME NEW w \in Workers, NEW c \in Comments, delivery[w][c] = "sending"
          PROVE  <<w, c>> \in Holders
      BY <3>2 DEF Holders, Holding
    <3> QED
      BY <3>1, <3>2
  <2>3. sent' = sent
    BY <2>2 DEF Next, Boot, Crash, Handler, Enqueue, EnqueueFails, SubmitSpawn, Expire,
       Loop, SweepRead, SweepDecide, SweepFails, Join, SleepElapses, Wakes, Attempt,
       StartAttempt, AcquirePermit, PermitTimeout, ServerTakes, SendOk, SendFails,
       RemoveOk, RemoveFails, Report, outcome, vars
  <2> QED
    BY <2>3
<1> QED
  BY <1>1, <1>2, Invariance, PermitInvariance, PTL DEF Spec
-----------------------------------------------------------------------------
(* What a composition with the sink relies on *)

\* No step forgets that the server took a message or that a row was written.
LEMMA SentAndWrittenStay ==
  TypeOK /\ [Next]_vars =>
    \A c \in Comments :
      /\ sent'[c] >= sent[c]
      /\ request[c] \notin {"none", "refused"} => request'[c] \notin {"none", "refused"}
<1> SUFFICES ASSUME TypeOK, [Next]_vars, NEW c \in Comments
             PROVE  /\ sent'[c] >= sent[c]
                    /\ request[c] \notin {"none", "refused"}
                         => request'[c] \notin {"none", "refused"}
  OBVIOUS
<1> USE DEF TypeOK, durable, outcome
<1>1. CASE Boot \/ Crash
  BY <1>1 DEF Boot, Crash
<1>2. ASSUME NEW d \in Comments, Handler(d) \/ Expire(d)
      PROVE  /\ sent' = sent
             /\ request[c] \notin {"none", "refused"}
                  => request'[c] \notin {"none", "refused"}
  BY <1>2 DEF Handler, Enqueue, EnqueueFails, SubmitSpawn, Expire
<1>3. ASSUME NEW w \in Workers, Loop(w) PROVE UNCHANGED <<sent, request>>
  BY <1>3 DEF Loop, SweepRead, SweepDecide, SweepFails, Join, SleepElapses, Wakes
<1>4. ASSUME NEW w \in Workers, NEW d \in Comments, Attempt(w, d)
      PROVE  sent'[c] >= sent[c] /\ request' = request
  BY <1>4 DEF Attempt, StartAttempt, AcquirePermit, PermitTimeout, ServerTakes,
     SendOk, SendFails, RemoveOk, RemoveFails, Report, SetDelivery
<1>5. CASE UNCHANGED vars
  BY <1>5 DEF vars
<1> QED
  BY <1>1, <1>2, <1>3, <1>4, <1>5 DEF Next

\* What was written is queued, taken by the server or given up.
RowKept ==
  \A c \in Comments :
    request[c] \notin {"none", "refused"} =>
      c \in queue \cup expired \cup Unusable \/ sent[c] > 0

LEMMA RowKeptStep == Inv /\ RowKept /\ [Next]_vars => RowKept'
<1> SUFFICES ASSUME Inv, RowKept, [Next]_vars PROVE RowKept'
  OBVIOUS
<1>0. \A c \in Comments : sent'[c] >= sent[c] /\ sent[c] \in Nat /\ sent'[c] \in Nat
  BY SentAndWrittenStay, TypeStep DEF Inv, TypeOK
<1>a. ASSUME queue \subseteq queue', expired \subseteq expired', request' = request
      PROVE  RowKept'
  BY <1>0, <1>a DEF RowKept
<1> USE DEF durable, outcome
<1>1. CASE Boot \/ UNCHANGED vars
  BY <1>1, <1>a DEF Boot, vars
<1>2. CASE Crash
  BY <1>0, <1>2 DEF Inv, TypeOK, RowKept, Crash
<1>3. ASSUME NEW c \in Comments, Handler(c) \/ Expire(c) PROVE RowKept'
  BY <1>0, <1>3 DEF Inv, TypeOK, RowKept, Handler, Enqueue, EnqueueFails, SubmitSpawn, Expire
<1>4. ASSUME NEW w \in Workers, Loop(w) PROVE RowKept'
  BY <1>4, <1>a DEF Loop, SweepRead, SweepDecide, SweepFails, Join, SleepElapses, Wakes
<1>5. ASSUME NEW w \in Workers, NEW c \in Comments, Attempt(w, c), ~RemoveOk(w, c)
      PROVE  RowKept'
  BY <1>5, <1>a DEF Attempt, StartAttempt, AcquirePermit, PermitTimeout, ServerTakes,
     SendOk, SendFails, RemoveFails, Report, SetDelivery
<1>6. ASSUME NEW w \in Workers, NEW c \in Comments, RemoveOk(w, c)
      PROVE  RowKept'
  <2>1. sent[c] > 0 \/ c \in expired \/ c \in Unusable
    BY <1>6 DEF Inv, DeliveryFacts, RemoveOk, Removing
  <2> QED
    BY <1>0, <1>6, <2>1 DEF RowKept, RemoveOk, SetDelivery
<1> QED
  BY <1>1, <1>2, <1>3, <1>4, <1>5, <1>6 DEF Next, Attempt

\* A comment whose row was written is at any later time queued, taken by the
\* server, past its TTL or unusable: none is lost without a reason.
THEOREM RowsAreKept == Spec => []RowKept
<1>1. Init => RowKept
  BY DEF Init, RowKept
<1> QED
  BY <1>1, Invariance, RowKeptStep, PTL DEF Spec
-----------------------------------------------------------------------------
(* Refinement of the loop of Heartbeat *)

LEMMA ChooseOne ==
  ASSUME NEW S, NEW t, NEW w \in S, t[w] # "idle",
         \A v \in S : t[v] # "idle" => v = w
  PROVE  (CHOOSE v \in S : t[v] # "idle") = w
OBVIOUS

\* What Heartbeat sees of the worker w, now and after a step.
PhaseOf(s) == IF s \in {"deliver", "sleep"} THEN s ELSE "sweep"

LEMMA LoopNow ==
  ASSUME SingleWorker, NEW w \in Workers, task[w] # "idle"
  PROVE  /\ LoopPhase = PhaseOf(task[w])
         /\ LoopDelivery = [c \in Comments |-> IF task[w] = "deliver"
                                               THEN LoopStage(delivery[w][c]) ELSE "none"]
<1>1. Active = w
  BY ChooseOne DEF SingleWorker, Active
<1> QED
  BY <1>1 DEF LoopPhase, LoopDelivery, PhaseOf

LEMMA LoopNext ==
  ASSUME SingleWorker', NEW w \in Workers, task'[w] # "idle"
  PROVE  /\ LoopPhase' = PhaseOf(task'[w])
         /\ LoopDelivery' = [c \in Comments |-> IF task'[w] = "deliver"
                                                THEN LoopStage(delivery'[w][c]) ELSE "none"]
<1>1. Active' = w
  BY ChooseOne DEF SingleWorker, Active
<1> QED
  BY <1>1 DEF LoopPhase, LoopDelivery, PhaseOf, LoopStage

LEMMA NoLoopNow ==
  ASSUME SingleWorker, ~worker
  PROVE  LoopPhase = "none" /\ LoopDelivery = Timed!NoDeliveries
BY DEF SingleWorker, LoopPhase, LoopDelivery, Timed!NoDeliveries

LEMMA NoLoopNext ==
  ASSUME SingleWorker', ~worker'
  PROVE  LoopPhase' = "none" /\ LoopDelivery' = Timed!NoDeliveries
BY DEF SingleWorker, LoopPhase, LoopDelivery, Timed!NoDeliveries

\* Nothing Heartbeat looks at has changed.
LEMMA LoopUnchanged ==
  ASSUME UNCHANGED <<task, delivery, permits>>
  PROVE  UNCHANGED Timed!vars
BY DEF Timed!vars, LoopPhase, LoopDelivery, LoopStage, Active

\* A worker that is started, or woken from its sleep, is Heartbeat's Submit; a
\* permit stored for a busy one is none of its business.
LEMMA TimedSpawn ==
  ASSUME Inv, Inv', SpawnWorker, UNCHANGED <<delivery, permits>>
  PROVE  Timed!Submit \/ UNCHANGED Timed!vars
<1>0. SingleWorker /\ SingleWorker' /\ TypeOK
  BY DEF Inv
<1>1. CASE AlreadyRunning /\ NotifyOne
  <2>1. CASE UNCHANGED task
    BY <1>1, <2>1, LoopUnchanged
  <2>2. ASSUME NEW w \in Workers, task[w] = "sleep",
               task' = [task EXCEPT ![w] = "woken"]
        PROVE  Timed!Submit
    <3>1. task'[w] = "woken"
      BY <1>0, <2>2 DEF TypeOK
    <3>2. LoopPhase = "sleep" /\ LoopDelivery = Timed!NoDeliveries
      BY <1>0, <2>2, LoopNow DEF PhaseOf, Timed!NoDeliveries
    <3>3. LoopPhase' = "sweep" /\ LoopDelivery' = Timed!NoDeliveries
      BY <1>0, <3>1, LoopNext DEF PhaseOf, Timed!NoDeliveries
    <3> QED
      BY <3>2, <3>3 DEF Timed!Submit, Timed!KeepHeartbeat
  <2> QED
    BY <1>1, <2>1, <2>2 DEF NotifyOne
<1>2. ASSUME ~worker, NEW w \in Workers, task[w] = "idle",
             task' = [task EXCEPT ![w] = "sweep"]
      PROVE  Timed!Submit
  <2>1. task'[w] = "sweep"
    BY <1>0, <1>2 DEF TypeOK
  <2>2. LoopPhase = "none" /\ LoopDelivery = Timed!NoDeliveries
    BY <1>0, <1>2, NoLoopNow
  <2>3. LoopPhase' = "sweep" /\ LoopDelivery' = Timed!NoDeliveries
    BY <1>0, <2>1, LoopNext DEF PhaseOf, Timed!NoDeliveries
  <2> QED
    BY <2>2, <2>3 DEF Timed!Submit, Timed!RecordSweep
<1> QED
  BY <1>1, <1>2 DEF SpawnWorker, AlreadyRunning

LEMMA TimedSweep ==
  ASSUME Inv, Inv', NEW w \in Workers, SweepRead(w) \/ SweepDecide(w) \/ SweepFails(w)
  PROVE  Timed!Loop \/ UNCHANGED Timed!vars
<1>0. SingleWorker /\ SingleWorker' /\ TypeOK
  BY DEF Inv
<1>1. task[w] \in {"sweep", "locked"}
  BY DEF SweepRead, SweepDecide, SweepFails
<1>2. LoopPhase = "sweep" /\ LoopDelivery = Timed!NoDeliveries
  BY <1>0, <1>1, LoopNow DEF PhaseOf, Timed!NoDeliveries
<1>3. CASE SweepRead(w)
  <2>1. task'[w] = "locked"
    BY <1>0, <1>3 DEF SweepRead, TypeOK
  <2>2. LoopPhase' = "sweep" /\ LoopDelivery' = Timed!NoDeliveries
    BY <1>0, <2>1, LoopNext DEF PhaseOf, Timed!NoDeliveries
  <2> QED
    BY <1>2, <1>3, <2>2 DEF SweepRead, Timed!vars
<1>4. ASSUME SweepDecide(w), ~worker' PROVE Timed!Exit
  BY <1>0, <1>2, <1>4, NoLoopNext DEF SweepDecide, Timed!Exit, Timed!KeepHeartbeat
<1>5. ASSUME SweepDecide(w), task' = [task EXCEPT ![w] = "deliver"],
             NEW c \in Comments, delivery[w][c] = "spawned"
      PROVE  Timed!Sweep
  <2> DEFINE Queued == {d \in Comments : delivery[w][d] = "spawned"}
  <2>1. task'[w] = "deliver" /\ delivery' = delivery
    BY <1>0, <1>5 DEF SweepDecide, TypeOK
  <2>2. \A d \in Comments : delivery[w][d] \in {"none", "spawned"}
    BY <1>5 DEF Inv, LoopShape, SweepDecide
  <2>3. /\ LoopPhase' = "deliver"
        /\ LoopDelivery' = [d \in Comments |-> LoopStage(delivery[w][d])]
    BY <1>0, <2>1, LoopNext DEF PhaseOf
  <2>4. LoopDelivery' = [d \in Comments |-> IF d \in Queued THEN "spawned" ELSE "none"]
    BY <2>2, <2>3 DEF LoopStage
  <2>5. Queued \in (SUBSET Comments) \ {{}}
    BY <1>5
  <2> QED
    BY <1>2, <1>5, <2>3, <2>4, <2>5 DEF SweepDecide, Timed!Sweep, Timed!RecordSweep
<1>6. CASE SweepFails(w)
  <2>1. task'[w] \in {"sweep", "sleep"}
    BY <1>0, <1>6 DEF SweepFails, Rest, TypeOK
  <2>2. LoopPhase' \in {"sweep", "sleep"} /\ LoopDelivery' = Timed!NoDeliveries
    BY <1>0, <2>1, LoopNext DEF PhaseOf, Timed!NoDeliveries
  <2>3. Timed!SweepFails
    BY <1>2, <1>6, <2>2 DEF SweepFails, Timed!SweepFails, Timed!Rest, Timed!RecordSweep
  <2> QED
    BY <2>3 DEF Timed!Loop
<1>7. CASE SweepDecide(w)
  BY <1>4, <1>5, <1>7 DEF SweepDecide, Timed!Loop
<1> QED
  BY <1>3, <1>6, <1>7

LEMMA TimedJoin ==
  ASSUME Inv, Inv', NEW w \in Workers, Join(w)
  PROVE  Timed!Join
<1>0. SingleWorker /\ SingleWorker' /\ TypeOK
  BY DEF Inv
<1>1. /\ LoopPhase = "deliver"
      /\ LoopDelivery = [c \in Comments |-> LoopStage(delivery[w][c])]
  BY <1>0, LoopNow DEF Join, PhaseOf
<1>2. \A c \in Comments : LoopDelivery[c] = delivery[w][c]
                          /\ delivery[w][c] \in {"none", "left", "kept"}
  BY <1>0, <1>1 DEF TypeOK, Join, AllJoined, DeliveryState, Running, LoopStage
<1>3. Timed!Joined
  BY <1>2 DEF Timed!Joined, Timed!Done
<1>4. task'[w] \in {"sweep", "sleep"}
  BY <1>0 DEF Join, Rest, TypeOK
<1>5. LoopPhase' = task'[w] /\ LoopDelivery' = Timed!NoDeliveries
  BY <1>0, <1>4, LoopNext DEF PhaseOf, Timed!NoDeliveries
<1>6. CASE AllLeftQueue(w)
  <2>1. \A c \in Comments : LoopDelivery[c] # "kept"
    BY <1>2, <1>6 DEF AllLeftQueue
  <2>2. task'[w] = "sweep"
    BY <1>0, <1>6 DEF Join, TypeOK
  <2> QED
    BY <1>1, <1>3, <1>5, <2>1, <2>2 DEF Join, Timed!Join, Timed!KeepHeartbeat
<1>7. CASE ~AllLeftQueue(w)
  <2>1. \E c \in Comments : LoopDelivery[c] = "kept"
    BY <1>2, <1>7 DEF AllLeftQueue
  <2> QED
    BY <1>1, <1>3, <1>4, <1>5, <2>1 DEF Join, Timed!Join, Timed!Rest, Timed!KeepHeartbeat
<1> QED
  BY <1>6, <1>7

LEMMA TimedRise ==
  ASSUME Inv, Inv', NEW w \in Workers, SleepElapses(w) \/ Wakes(w)
  PROVE  Timed!Wake \/ UNCHANGED Timed!vars
<1>0. SingleWorker /\ SingleWorker' /\ TypeOK
  BY DEF Inv
<1>1. task[w] \in {"sleep", "woken"} /\ task'[w] = "sweep"
  BY <1>0 DEF SleepElapses, Wakes, TypeOK
<1>2. LoopPhase = PhaseOf(task[w]) /\ LoopDelivery = Timed!NoDeliveries
  BY <1>0, <1>1, LoopNow DEF Timed!NoDeliveries
<1>3. LoopPhase' = "sweep" /\ LoopDelivery' = Timed!NoDeliveries
  BY <1>0, <1>1, LoopNext DEF PhaseOf, Timed!NoDeliveries
<1> QED
  BY <1>2, <1>3 DEF SleepElapses, Wakes, PhaseOf, Timed!Wake, Timed!KeepHeartbeat, Timed!vars

\* A delivery that gets on, as Heartbeat sees it.
LEMMA TimedSet ==
  ASSUME Inv, Inv', NEW w \in Workers, NEW c \in Comments, NEW s, SetDelivery(w, c, s)
  PROVE  /\ LoopPhase = "deliver" /\ LoopPhase' = "deliver"
         /\ LoopDelivery[c] = LoopStage(delivery[w][c])
         /\ LoopDelivery' = [LoopDelivery EXCEPT ![c] = LoopStage(s)]
<1>0. SingleWorker /\ SingleWorker' /\ TypeOK /\ task[w] = "deliver" /\ task' = task
  BY DEF Inv, SetDelivery
<1>1. /\ LoopPhase = "deliver"
      /\ LoopDelivery = [d \in Comments |-> LoopStage(delivery[w][d])]
  BY <1>0, LoopNow DEF PhaseOf
<1>2. /\ LoopPhase' = "deliver"
      /\ LoopDelivery' = [d \in Comments |-> LoopStage(delivery'[w][d])]
  BY <1>0, LoopNext DEF PhaseOf
<1>3. \A d \in Comments : delivery'[w][d] = IF d = c THEN s ELSE delivery[w][d]
  BY <1>0 DEF SetDelivery, TypeOK
<1> QED
  BY <1>1, <1>2, <1>3

LEMMA TimedAttempt ==
  ASSUME Inv, Inv', NEW w \in Workers, NEW c \in Comments, Attempt(w, c)
  PROVE  Timed!Deliver(c) \/ UNCHANGED Timed!vars
<1> DEFINE Sees(from, to) == Timed!Attempt(c, from, to)
<1>1. ASSUME NEW s, SetDelivery(w, c, s)
      PROVE  Sees(LoopStage(delivery[w][c]), LoopStage(s))
  BY <1>1, TimedSet DEF Timed!Attempt, Timed!KeepHeartbeat
<1>2. ASSUME NEW s, SetDelivery(w, c, s), LoopStage(s) = LoopStage(delivery[w][c]),
             UNCHANGED permits
      PROVE  UNCHANGED Timed!vars
  <2>1. LoopDelivery = [d \in Comments |-> LoopDelivery[d]]
    BY DEF LoopDelivery
  <2>2. LoopPhase' = LoopPhase /\ LoopDelivery' = LoopDelivery
    BY <1>2, <2>1, TimedSet
  <2> QED
    BY <1>2, <2>2 DEF Timed!vars
<1> USE DEF LoopStage, outcome
<1>3. CASE StartAttempt(w, c)
  BY <1>1, <1>3 DEF StartAttempt, Timed!StartAttempt, Timed!Deliver
<1>4. CASE AcquirePermit(w, c)
  BY <1>1, <1>4 DEF AcquirePermit, Timed!AcquirePermit, Timed!Deliver
<1>5. CASE PermitTimeout(w, c)
  BY <1>1, <1>5 DEF PermitTimeout, Timed!TimesOut, Timed!Deliver
<1>6. CASE ServerTakes(w, c)
  BY <1>2, <1>6 DEF ServerTakes
<1>7. CASE SendOk(w, c) \/ SendFails(w, c)
  BY <1>1, <1>7 DEF SendOk, SendFails, Timed!SessionEnds, Timed!Deliver
<1>8. CASE RemoveOk(w, c)
  <2>1. CASE delivery[w][c] = "unusable"
    BY <1>1, <1>8, <2>1 DEF RemoveOk, DropPermit, Timed!SessionEnds, Timed!Deliver
  <2>2. CASE delivery[w][c] = "expiring"
    BY <1>1, <1>8, <2>2 DEF RemoveOk, DropPermit, Timed!Remove, Timed!Deliver
  <2>3. CASE delivery[w][c] = "confirmed"
    BY <1>2, <1>8, <2>3 DEF RemoveOk, DropPermit
  <2> QED
    BY <1>8, <2>1, <2>2, <2>3 DEF RemoveOk, Removing
<1>9. CASE RemoveFails(w, c)
  <2>1. CASE delivery[w][c] = "unusable"
    BY <1>1, <1>9, <2>1 DEF RemoveFails, DropPermit, Timed!SessionEnds, Timed!Deliver
  <2>2. CASE delivery[w][c] = "expiring"
    BY <1>1, <1>9, <2>2 DEF RemoveFails, DropPermit, Timed!Remove, Timed!Deliver
  <2>3. CASE delivery[w][c] = "confirmed"
    BY <1>2, <1>9, <2>3 DEF RemoveFails, DropPermit
  <2> QED
    BY <1>9, <2>1, <2>2, <2>3 DEF RemoveFails, Removing
<1>10. CASE Report(w, c)
  BY <1>1, <1>10 DEF Report, Timed!Remove, Timed!Deliver
<1> QED
  BY <1>3, <1>4, <1>5, <1>6, <1>7, <1>8, <1>9, <1>10 DEF Attempt

LEMMA TimedStep == Inv /\ Inv' /\ [Next]_vars => [Timed!Next]_(Timed!vars)
<1> SUFFICES ASSUME Inv, Inv', [Next]_vars PROVE [Timed!Next]_(Timed!vars)
  OBVIOUS
<1>1. CASE Boot
  BY <1>1, TimedSpawn DEF Boot, Timed!Next
<1>2. CASE Crash
  <2>1. LoopPhase' = "none" /\ LoopDelivery' = Timed!NoDeliveries
    BY <1>2, NoLoopNext DEF Inv, Crash
  <2>2. Timed!Crash
    BY <1>2, <2>1 DEF Crash, Timed!Crash
  <2> QED
    BY <2>2 DEF Timed!Next
<1>3. ASSUME NEW c \in Comments, SubmitSpawn(c) PROVE [Timed!Next]_(Timed!vars)
  BY <1>3, TimedSpawn DEF SubmitSpawn, Timed!Next
<1>4. ASSUME NEW c \in Comments, Enqueue(c) \/ EnqueueFails(c) \/ Expire(c)
      PROVE  UNCHANGED Timed!vars
  BY <1>4, LoopUnchanged DEF Enqueue, EnqueueFails, Expire
<1>5. ASSUME NEW w \in Workers, Loop(w) PROVE [Timed!Next]_(Timed!vars)
  BY <1>5, TimedSweep, TimedJoin, TimedRise DEF Loop, Timed!Loop, Timed!Next
<1>6. ASSUME NEW w \in Workers, NEW c \in Comments, Attempt(w, c)
      PROVE  [Timed!Next]_(Timed!vars)
  BY <1>6, TimedAttempt DEF Timed!Next
<1>7. CASE UNCHANGED vars
  BY <1>7, LoopUnchanged DEF vars
<1> QED
  BY <1>1, <1>2, <1>3, <1>4, <1>5, <1>6, <1>7 DEF Next, Handler

\* Whatever the worker and its deliveries do here, some worker of Heartbeat
\* does: an answer Heartbeat gives about stalls is about this loop.
THEOREM SinkImplementsTimedLoop == Spec => ImplementsTimedLoop
<1>1. Inv /\ Init => Timed!Init
  <2> SUFFICES ASSUME Inv, Init PROVE Timed!Init
    OBVIOUS
  <2>1. LoopPhase = "none" /\ LoopDelivery = Timed!NoDeliveries
    BY NoLoopNow DEF Inv, Init
  <2> QED
    BY <2>1 DEF Init, Timed!Init
<1> QED
  BY <1>1, Invariance, TimedStep, PTL DEF Spec, ImplementsTimedLoop, Timed!Spec
=============================================================================

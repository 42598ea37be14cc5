-------------------------- MODULE ThreadmailProofs --------------------------
(***************************************************************************)
(* Theorems about Threadmail, for any number of requests, threads, worker  *)
(* slots and permits.                                                      *)
(*                                                                         *)
(* The composition is proved from its parts: every step of it is a step of *)
(* the sink, and a step of the POST handler, or passes them by, so that    *)
(* the theorems of SmtpSinkProofs and SubmissionProofs hold inside it.     *)
(* What is added here is what ties the parts together: how far a handler   *)
(* has come decides whether there is a row, and the mailbox holds no more  *)
(* copies of a message than the server took.                               *)
(***************************************************************************)
EXTENDS Threadmail, FiniteSetTheorems, TLAPS

SinkP == INSTANCE SmtpSinkProofs WITH Comments <- Requests
WebP == INSTANCE SubmissionProofs WITH rows <- Rows

\* The parts' assumptions follow from those of the composition.
LEMMA PartConstants == SinkP!SinkConstants /\ WebP!SubmissionConstants
BY ThreadmailConstants
   DEF ThreadmailConstants, SinkP!SinkConstants, WebP!SubmissionConstants

\* Sets are counted alike inside the instance and here.
LEMMA SameCounting ==
  \A S : /\ WebP!IsFiniteSet(S) <=> IsFiniteSet(S)
        /\ WebP!Cardinality(S) = Cardinality(S)
<1>1. \A S : WebP!IsFiniteSet(S) <=> IsFiniteSet(S)
  BY DEF WebP!IsFiniteSet, IsFiniteSet
<1>2. \A S : WebP!Cardinality(S) = Cardinality(S)
  BY DEF WebP!Cardinality, Cardinality
<1> QED
  BY <1>1, <1>2

-----------------------------------------------------------------------------
(* The parts of Threadmail are the modules the proofs are about. *)

LEMMA SinkBoot == Sink!Boot => SinkP!Boot
BY DEF Sink!Boot, SinkP!Boot, Sink!SpawnWorker, SinkP!SpawnWorker,
       Sink!LockFree, SinkP!LockFree, Sink!AlreadyRunning, SinkP!AlreadyRunning,
       Sink!NotifyOne, SinkP!NotifyOne, Sink!durable, SinkP!durable,
       Sink!outcome, SinkP!outcome

LEMMA SinkCrash == Sink!Crash => SinkP!Crash
BY DEF Sink!Crash, SinkP!Crash, Sink!NoDeliveries, SinkP!NoDeliveries,
       Sink!durable, SinkP!durable

LEMMA SinkHandler ==
  ASSUME NEW r \in Requests,
         Sink!Enqueue(r) \/ Sink!EnqueueFails(r) \/ Sink!SubmitSpawn(r)
  PROVE  SinkP!Handler(r)
BY DEF SinkP!Handler, Sink!Enqueue, SinkP!Enqueue,
       Sink!EnqueueFails, SinkP!EnqueueFails, Sink!SubmitSpawn, SinkP!SubmitSpawn,
       Sink!SpawnWorker, SinkP!SpawnWorker,
       Sink!LockFree, SinkP!LockFree, Sink!AlreadyRunning, SinkP!AlreadyRunning,
       Sink!NotifyOne, SinkP!NotifyOne, Sink!durable, SinkP!durable,
       Sink!outcome, SinkP!outcome

LEMMA SinkExpire ==
  ASSUME NEW r \in Requests, Sink!Expire(r)
  PROVE  SinkP!Expire(r)
BY DEF Sink!Expire, SinkP!Expire, Sink!outcome, SinkP!outcome

LEMMA SinkLoop ==
  ASSUME NEW w \in Workers, Sink!Loop(w)
  PROVE  SinkP!Loop(w)
BY DEF Sink!Loop, SinkP!Loop, Sink!SweepRead, SinkP!SweepRead,
       Sink!SweepDecide, SinkP!SweepDecide, Sink!SweepFails, SinkP!SweepFails,
       Sink!Join, SinkP!Join, Sink!SleepElapses, SinkP!SleepElapses,
       Sink!Wakes, SinkP!Wakes, Sink!Rest, SinkP!Rest,
       Sink!AllJoined, SinkP!AllJoined, Sink!AllLeftQueue, SinkP!AllLeftQueue,
       Sink!Running, SinkP!Running, Sink!LockFree, SinkP!LockFree,
       Sink!durable, SinkP!durable, Sink!outcome, SinkP!outcome

LEMMA SinkAttempt ==
  ASSUME NEW w \in Workers, NEW r \in Requests, Sink!Attempt(w, r)
  PROVE  SinkP!Attempt(w, r)
BY DEF Sink!Attempt, SinkP!Attempt, Sink!StartAttempt, SinkP!StartAttempt,
       Sink!AcquirePermit, SinkP!AcquirePermit,
       Sink!PermitTimeout, SinkP!PermitTimeout, Sink!ServerTakes, SinkP!ServerTakes,
       Sink!SendOk, SinkP!SendOk, Sink!SendFails, SinkP!SendFails,
       Sink!RemoveOk, SinkP!RemoveOk, Sink!RemoveFails, SinkP!RemoveFails,
       Sink!Report, SinkP!Report, Sink!SetDelivery, SinkP!SetDelivery,
       Sink!DropPermit, SinkP!DropPermit, Sink!Removing, SinkP!Removing,
       Sink!IsExpired, SinkP!IsExpired,
       Sink!outcome, SinkP!outcome

\* Every step of the composition is a step of the sink or passes it by.
LEMMA SinkNext == [Next]_vars => [SinkP!Next]_(SinkP!vars)
<1> SUFFICES ASSUME [Next]_vars PROVE [SinkP!Next]_(SinkP!vars)
  OBVIOUS
<1> USE DEF sinkvars
<1>1. CASE Boot \/ Die
  BY <1>1, SinkBoot, SinkCrash DEF Boot, Die, SinkP!Next
<1>2. CASE Bind \/ UNCHANGED vars
  BY <1>2 DEF Bind, vars, SinkP!vars
<1>3. ASSUME NEW r \in Requests, Handle(r) PROVE [SinkP!Next]_(SinkP!vars)
  <2>1. CASE Post(r) \/ (SubmitFails(r) /\ UNCHANGED sinkvars)
    BY <2>1 DEF Post, SinkP!vars
  <2>2. CASE \/ SubmitFails(r) /\ Sink!EnqueueFails(r)
             \/ Enqueue(r) \/ Accept(r)
    BY <2>2, SinkHandler DEF SubmitFails, Enqueue, Accept, SinkP!Next
  <2> QED
    BY <1>3, <2>1, <2>2 DEF Handle, SubmitFails
<1>4. ASSUME NEW r \in Requests, Distribute(r) PROVE UNCHANGED SinkP!vars
  BY <1>4 DEF Distribute, SinkP!vars
<1>5. ASSUME NEW k \in Keys, Lapse(k) PROVE UNCHANGED SinkP!vars
  BY <1>5 DEF Lapse, SinkP!vars
<1>6. CASE SinkStep
  BY <1>6, SinkExpire, SinkLoop, SinkAttempt DEF SinkStep, SinkP!Next
<1>7. ASSUME NEW s \in Slugs, Refresh(s) PROVE UNCHANGED SinkP!vars
  BY <1>7 DEF Refresh, SinkP!vars
<1> QED
  BY <1>1, <1>2, <1>3, <1>4, <1>5, <1>6, <1>7 DEF Next

\* The sink behaves in the composition as it does alone.
THEOREM SinkInside == Spec => SinkP!Spec
<1>1. Init => SinkP!Init
  BY DEF Init, Sink!Init, SinkP!Init, Sink!NoDeliveries, SinkP!NoDeliveries
<1> QED
  BY <1>1, SinkNext, PTL DEF Spec, SinkP!Spec

\* The sink in the background disturbs no request.
LEMMA SinkStepFrame == SinkStep => UNCHANGED <<mail, cache, webvars, request>>
<1> SUFFICES ASSUME SinkStep PROVE UNCHANGED <<mail, cache, webvars, request>>
  OBVIOUS
<1>1. ASSUME NEW r \in Requests, Sink!Expire(r) PROVE UNCHANGED request
  BY <1>1 DEF Sink!Expire
<1>2. ASSUME NEW w \in Workers, Sink!Loop(w) PROVE UNCHANGED request
  BY <1>2 DEF Sink!Loop, Sink!SweepRead, Sink!SweepDecide, Sink!SweepFails,
     Sink!Join, Sink!SleepElapses, Sink!Wakes
<1>3. ASSUME NEW w \in Workers, NEW r \in Requests, Sink!Attempt(w, r)
      PROVE  UNCHANGED request
  BY <1>3 DEF Sink!Attempt, Sink!StartAttempt, Sink!AcquirePermit,
     Sink!PermitTimeout, Sink!ServerTakes, Sink!SendOk, Sink!SendFails,
     Sink!RemoveOk, Sink!RemoveFails, Sink!Report, Sink!SetDelivery
<1> QED
  BY <1>1, <1>2, <1>3 DEF SinkStep

LEMMA WebHandle ==
  ASSUME NEW r \in Requests, Handle(r)
  PROVE  WebP!Handle(r)
BY DEF Handle, Post, SubmitFails, Enqueue, Accept, WebP!Handle, Web!Step, WebP!Step,
       Web!Forbid, WebP!Forbid, Web!Admit, WebP!Admit,
       Web!Deduplicate, WebP!Deduplicate, Web!Invalidate, WebP!Invalidate,
       Web!ComposeFails, WebP!ComposeFails, Web!SubmitFails, WebP!SubmitFails,
       Web!Enqueue, WebP!Enqueue, Web!Accept, WebP!Accept

\* Outside the handler no step of the composition writes or forgets a row.
LEMMA WebNext == [Next]_vars => [WebP!Next]_(WebP!vars)
<1> SUFFICES ASSUME [Next]_vars PROVE [WebP!Next]_(WebP!vars)
  OBVIOUS
<1>a. ASSUME UNCHANGED <<webvars, request>> PROVE UNCHANGED WebP!vars
  BY <1>a DEF webvars, WebP!vars, Rows
<1> USE DEF sinkvars, Sink!outcome
<1>1. CASE Boot \/ Bind \/ UNCHANGED vars
  BY <1>1, <1>a DEF Boot, Sink!Boot, Bind, vars
<1>2. CASE Die
  BY <1>2 DEF Die, Web!Restart, WebP!Restart, Web!InFlight, WebP!InFlight, WebP!Next
<1>3. ASSUME NEW r \in Requests, Handle(r) PROVE [WebP!Next]_(WebP!vars)
  BY <1>3, WebHandle DEF WebP!Next
<1>4. ASSUME NEW r \in Requests, Distribute(r) PROVE UNCHANGED WebP!vars
  BY <1>4, <1>a DEF Distribute
<1>5. ASSUME NEW k \in Keys, Lapse(k) PROVE [WebP!Next]_(WebP!vars)
  BY <1>5 DEF Lapse, Web!Lapse, WebP!Lapse, WebP!Next
<1>6. CASE SinkStep
  BY <1>6, <1>a, SinkStepFrame
<1>7. ASSUME NEW s \in Slugs, Refresh(s) PROVE UNCHANGED WebP!vars
  BY <1>7, <1>a DEF Refresh
<1> QED
  BY <1>1, <1>2, <1>3, <1>4, <1>5, <1>6, <1>7 DEF Next

\* The POST handler behaves in the composition as it does alone.
THEOREM WebInside == Spec => WebP!Spec
<1>1. Init => WebP!Init
  BY DEF Init, Sink!Init, Web!Init, WebP!Init, Rows
<1> QED
  BY <1>1, WebNext, PTL DEF Spec, WebP!Spec

-----------------------------------------------------------------------------
(* What ties the parts together *)

NoRow == {"none", "refused"}

\* A request has a row only past submit, and has one once submit succeeded.
RequestFollowsStage ==
  \A r \in Requests :
    /\ stage[r] \in {"none", "forbidden", "duplicate", "admitted", "invalidated",
                     "malformed", "failed"} => request[r] \in NoRow
    /\ stage[r] \in {"queued", "accepted"} => request[r] \notin NoRow

\* The mailbox holds whole threads, and a page shows a prefix of one.
MailOK ==
  /\ mail \in [Slugs -> Seq(Requests)]
  /\ cache \in [Slugs -> Nat]
  /\ \A s \in Slugs : /\ cache[s] <= Len(mail[s])
                       /\ \A i \in 1..Len(mail[s]) : SlugOf[mail[s][i]] = s

\* The mailbox holds no more copies of a message than the server took.
CopiesOK ==
  \A r \in Requests : /\ IsFiniteSet(Copies(r))
                      /\ Cardinality(Copies(r)) <= sent[r]

PartInv == SinkP!Inv /\ SinkP!RowKept /\ WebP!Inv
OwnInv == RequestFollowsStage /\ MailOK /\ CopiesOK

\* The invariants of the parts hold in the composition.
LEMMA PartInvariance == Spec => []PartInv
<1>1. Spec => []SinkP!Inv
  BY PartConstants, SinkP!Invariance, SinkInside, PTL
<1>2. Spec => []SinkP!RowKept
  BY PartConstants, SinkP!RowsAreKept, SinkInside, PTL
<1>3. Spec => []WebP!Inv
  BY PartConstants, WebP!Invariance, WebInside, PTL
<1> QED
  BY <1>1, <1>2, <1>3, PTL DEF PartInv

\* The types the steps below need, by their plain names.
LEMMA PartTypes ==
  ASSUME PartInv
  PROVE  /\ request \in [Requests -> {"none", "enqueued", "accepted", "refused", "cut"}]
         /\ sent \in [Requests -> Nat]
         /\ stage \in [Requests -> {"none", "admitted", "invalidated", "queued",
                                   "accepted", "duplicate", "malformed", "failed",
                                   "forbidden", "cut"}]
         /\ lapses \in [Keys -> Nat]
BY DEF PartInv, SinkP!Inv, SinkP!TypeOK, SinkP!RequestState, WebP!Inv,
       WebP!TypeOK, WebP!InFlight, WebP!Answer

LEMMA SentAndWrittenGrow ==
  ASSUME PartInv, [Next]_vars, NEW r \in Requests
  PROVE  /\ sent'[r] >= sent[r]
         /\ request[r] \notin NoRow => request'[r] \notin NoRow
<1>1. SinkP!TypeOK /\ [SinkP!Next]_(SinkP!vars)
  BY SinkNext DEF PartInv, SinkP!Inv
<1> QED
  BY <1>1, PartConstants, SinkP!SentAndWrittenStay DEF NoRow

LEMMA RequestFollowsStageStep ==
  ASSUME PartInv, RequestFollowsStage, [Next]_vars
  PROVE  RequestFollowsStage'
<1> USE PartTypes DEF RequestFollowsStage, NoRow
<1>a. ASSUME UNCHANGED <<stage, request>> PROVE RequestFollowsStage'
  BY <1>a
<1> USE DEF webvars, sinkvars
<1>1. CASE Boot \/ Bind \/ UNCHANGED vars
  BY <1>1, <1>a DEF Boot, Sink!Boot, Bind, vars
<1>2. CASE Die
  BY <1>2 DEF Die, Sink!Crash, Web!Restart, Web!InFlight
<1>3. ASSUME NEW r \in Requests, Handle(r) PROVE RequestFollowsStage'
  <2>1. CASE Post(r)
    BY <2>1 DEF Post, Web!Step, Web!Forbid, Web!Admit, Web!Deduplicate,
       Web!Invalidate, Web!ComposeFails
  <2>2. CASE SubmitFails(r)
    BY <2>2 DEF SubmitFails, Web!Step, Web!SubmitFails, Sink!EnqueueFails
  <2>3. CASE Enqueue(r)
    BY <2>3 DEF Enqueue, Web!Step, Web!Enqueue, Sink!Enqueue
  <2>4. CASE Accept(r)
    BY <2>4 DEF Accept, Web!Step, Web!Accept, Sink!SubmitSpawn
  <2> QED
    BY <1>3, <2>1, <2>2, <2>3, <2>4 DEF Handle
<1>4. ASSUME NEW r \in Requests, Distribute(r) PROVE RequestFollowsStage'
  BY <1>4, <1>a DEF Distribute
<1>5. ASSUME NEW k \in Keys, Lapse(k) PROVE RequestFollowsStage'
  BY <1>5, <1>a DEF Lapse, Web!Lapse
<1>6. CASE SinkStep
  BY <1>6, <1>a, SinkStepFrame
<1>7. ASSUME NEW s \in Slugs, Refresh(s) PROVE RequestFollowsStage'
  BY <1>7, <1>a DEF Refresh
<1> QED
  BY <1>1, <1>2, <1>3, <1>4, <1>5, <1>6, <1>7 DEF Next

\* Only the list and a refresh touch the mailbox and the page.
LEMMA MailFrame ==
  ASSUME [Next]_vars
  PROVE  \/ UNCHANGED <<mail, cache>>
         \/ \E r \in Requests : Distribute(r)
         \/ \E s \in Slugs : Refresh(s)
BY SinkStepFrame DEF Next, vars, Boot, Bind, Die, Handle, Post, SubmitFails,
   Enqueue, Accept, Lapse

LEMMA RefreshMail ==
  ASSUME MailOK, NEW s \in Slugs, Refresh(s)
  PROVE  MailOK'
<1>1. PICK n \in cache[s]..Mailbox[s] : cache' = [cache EXCEPT ![s] = n]
  BY DEF Refresh, Cache!CatchUp
<1>2. mail' = mail /\ Mailbox[s] = Len(mail[s])
  BY DEF Refresh, Mailbox
<1>3. cache[s] \in Nat /\ Len(mail[s]) \in Nat
  BY DEF MailOK
<1>4. n \in Nat /\ n <= Len(mail[s])
  BY <1>1, <1>2, <1>3
<1> QED
  BY <1>1, <1>2, <1>4 DEF MailOK

\* What the copies and the page look like after the list distributed r.
LEMMA DistributeMail ==
  ASSUME MailOK, NEW r \in Requests, Distribute(r)
  PROVE  /\ MailOK'
         /\ Copies(r)' = Copies(r) \cup {Len(mail[SlugOf[r]]) + 1}
         /\ \A q \in Requests \ {r} : Copies(q)' = Copies(q)
<1> DEFINE t == SlugOf[r]
           n == Len(mail[t])
<1>1. t \in Slugs /\ \A q \in Requests : SlugOf[q] \in Slugs
  BY ThreadmailConstants DEF ThreadmailConstants
<1>2. mail[t] \in Seq(Requests) /\ n \in Nat
  BY <1>1 DEF MailOK
<1>3. mail' = [mail EXCEPT ![t] = Append(@, r)] /\ cache' = cache
  BY DEF Distribute
<1>4. /\ mail'[t] \in Seq(Requests) /\ Len(mail'[t]) = n + 1
      /\ mail'[t][n + 1] = r
      /\ \A i \in 1..n : mail'[t][i] = mail[t][i]
  BY <1>1, <1>2, <1>3 DEF MailOK
<1>5. \A s \in Slugs \ {t} : mail'[s] = mail[s]
  BY <1>3 DEF MailOK
<1>6. mail' \in [Slugs -> Seq(Requests)]
  BY <1>1, <1>3, <1>4 DEF MailOK
<1>7. MailOK'
  <2> SUFFICES ASSUME NEW s \in Slugs
               PROVE  /\ cache[s] <= Len(mail'[s])
                      /\ \A i \in 1..Len(mail'[s]) : SlugOf[mail'[s][i]] = s
    BY <1>3, <1>6 DEF MailOK
  <2>1. CASE s = t
    <3>1. cache[t] \in Nat /\ cache[t] <= n
      BY <1>1 DEF MailOK
    <3>2. ASSUME NEW i \in 1..(n + 1) PROVE SlugOf[mail'[t][i]] = t
      <4>1. CASE i = n + 1
        BY <1>4, <4>1
      <4>2. CASE i # n + 1
        <5>1. i \in 1..n
          BY <1>2, <4>2
        <5> QED
          BY <1>1, <1>4, <5>1 DEF MailOK
      <4> QED
        BY <4>1, <4>2
    <3> QED
      BY <1>2, <1>4, <2>1, <3>1, <3>2
  <2>2. CASE s # t
    BY <1>5, <2>2 DEF MailOK
  <2> QED
    BY <2>1, <2>2
<1>8. Copies(r)' = Copies(r) \cup {n + 1}
  BY <1>2, <1>4 DEF Copies
<1>9. ASSUME NEW q \in Requests \ {r} PROVE Copies(q)' = Copies(q)
  <2>1. CASE SlugOf[q] = t
    <3>1. \A i \in 1..(n + 1) : mail'[t][i] = q <=> i \in 1..n /\ mail[t][i] = q
      <4> SUFFICES ASSUME NEW i \in 1..(n + 1)
                   PROVE  mail'[t][i] = q <=> i \in 1..n /\ mail[t][i] = q
        OBVIOUS
      <4>1. CASE i = n + 1
        BY <1>2, <1>4, <4>1
      <4>2. CASE i # n + 1
        <5>1. i \in 1..n
          BY <1>2, <4>2
        <5> QED
          BY <1>4, <5>1
      <4> QED
        BY <4>1, <4>2
    <3>2. 1..n \subseteq 1..(n + 1)
      BY <1>2
    <3> QED
      BY <1>4, <2>1, <3>1, <3>2 DEF Copies
  <2>2. CASE SlugOf[q] # t
    BY <1>1, <1>5, <2>2 DEF Copies
  <2> QED
    BY <2>1, <2>2
<1> QED
  BY <1>7, <1>8, <1>9

LEMMA CopiesStep ==
  ASSUME PartInv, PartInv', MailOK, CopiesOK, [Next]_vars
  PROVE  MailOK' /\ CopiesOK'
<1>0. \A r \in Requests : /\ sent'[r] >= sent[r] /\ sent[r] \in Nat /\ sent'[r] \in Nat
                          /\ Cardinality(Copies(r)) \in Nat
  <2>1. sent' \in [Requests -> Nat]
    BY DEF PartInv, SinkP!Inv, SinkP!TypeOK
  <2> QED
    BY <2>1, SentAndWrittenGrow, PartTypes, FS_CardinalityType DEF CopiesOK
<1>a. ASSUME mail' = mail PROVE CopiesOK'
  <2>1. \A r \in Requests : Copies(r)' = Copies(r)
    BY <1>a DEF Copies
  <2> QED
    BY <1>0, <2>1 DEF CopiesOK
<1>1. CASE UNCHANGED <<mail, cache>>
  BY <1>1, <1>a DEF MailOK
<1>2. ASSUME NEW r \in Requests, Distribute(r) PROVE MailOK' /\ CopiesOK'
  <2>1. /\ MailOK'
        /\ Copies(r)' = Copies(r) \cup {Len(mail[SlugOf[r]]) + 1}
        /\ \A q \in Requests \ {r} : Copies(q)' = Copies(q)
    BY <1>2, DistributeMail
  <2>2. Len(mail[SlugOf[r]]) + 1 \notin Copies(r)
    <3>1. Len(mail[SlugOf[r]]) \in Nat
      BY ThreadmailConstants DEF ThreadmailConstants, MailOK
    <3> QED
      BY <3>1 DEF Copies
  <2>3. PICK i : Copies(r)' = Copies(r) \cup {i} /\ i \notin Copies(r)
    BY <2>1, <2>2
  <2>4. IsFiniteSet(Copies(r))
    BY DEF CopiesOK
  <2>5. /\ IsFiniteSet(Copies(r) \cup {i})
        /\ Cardinality(Copies(r) \cup {i}) = Cardinality(Copies(r)) + 1
    BY <2>3, <2>4, FS_AddElement
  <2>6. Cardinality(Copies(r)') <= sent'[r] /\ IsFiniteSet(Copies(r)')
    BY <1>0, <1>2, <2>3, <2>5 DEF Distribute
  <2>7. ASSUME NEW q \in Requests, q # r
        PROVE  Cardinality(Copies(q)') <= sent'[q] /\ IsFiniteSet(Copies(q)')
    <3>1. Copies(q)' = Copies(q)
      BY <2>1, <2>7
    <3> QED
      BY <1>0, <3>1 DEF CopiesOK
  <2>8. CopiesOK'
    BY <2>6, <2>7 DEF CopiesOK
  <2> QED
    BY <2>1, <2>8
<1>3. ASSUME NEW s \in Slugs, Refresh(s) PROVE MailOK' /\ CopiesOK'
  BY <1>3, <1>a, RefreshMail DEF Refresh
<1> QED
  BY <1>1, <1>2, <1>3, MailFrame

LEMMA InitOwn == Init => OwnInv
<1> SUFFICES ASSUME Init PROVE OwnInv
  OBVIOUS
<1>1. RequestFollowsStage
  BY DEF Init, Sink!Init, Web!Init, RequestFollowsStage, NoRow
<1>2. MailOK
  BY DEF Init, MailOK
<1>3. \A r \in Requests : Copies(r) = {} /\ sent[r] = 0
  BY ThreadmailConstants DEF ThreadmailConstants, Init, Sink!Init, Copies
<1> QED
  BY <1>1, <1>2, <1>3, FS_EmptySet DEF OwnInv, CopiesOK

\* The whole invariant of the composition.
Inv == PartInv /\ OwnInv

\* Inv holds in every reachable state of the composition.
THEOREM Invariance == Spec => []Inv
<1>1. PartInv /\ PartInv' /\ OwnInv /\ [Next]_vars => OwnInv'
  BY RequestFollowsStageStep, CopiesStep DEF OwnInv
<1> QED
  BY <1>1, InitOwn, PartInvariance, PTL DEF Spec, Inv

-----------------------------------------------------------------------------
(* The properties *)

\* The page is the cache CommentCache promises: whatever the outgoing half
\* does, a page is an earlier view of the mailbox that only moves forward.
THEOREM PageInside == Spec => Cache!CacheSpec
<1>1. Init => Cache!CacheInit
  BY DEF Init, Cache!CacheInit, Mailbox
<1>2. Inv /\ [Next]_vars => [Cache!CacheNext]_(Cache!cvars)
  <2> SUFFICES ASSUME Inv, [Next]_vars PROVE [Cache!CacheNext]_(Cache!cvars)
    OBVIOUS
  <2>1. CASE UNCHANGED <<mail, cache>>
    BY <2>1 DEF Mailbox, Cache!cvars
  <2>2. ASSUME NEW r \in Requests, Distribute(r) PROVE Cache!CacheNext
    <3> DEFINE t == SlugOf[r]
    <3>1. t \in Slugs /\ mail \in [Slugs -> Seq(Requests)]
      BY ThreadmailConstants DEF ThreadmailConstants, Inv, OwnInv, MailOK
    <3>2. mail' = [mail EXCEPT ![t] = Append(@, r)] /\ cache' = cache
      BY <2>2 DEF Distribute
    <3>3. Len(Append(mail[t], r)) = Len(mail[t]) + 1
      BY <3>1
    <3>4. Mailbox' = [Mailbox EXCEPT ![t] = @ + 1]
      BY <3>1, <3>2, <3>3 DEF Mailbox
    <3> QED
      BY <3>1, <3>2, <3>4 DEF Cache!CacheNext, Cache!Receive
  <2>3. ASSUME NEW s \in Slugs, Refresh(s) PROVE Cache!CacheNext
    BY <2>3 DEF Refresh, Cache!CacheNext
  <2> QED
    BY <2>1, <2>2, <2>3, MailFrame
<1> QED
  BY <1>1, <1>2, Invariance, PTL DEF Spec, Cache!CacheSpec

\* What was answered with an error is never queued or sent, for any number of
\* requests, failures and restarts.
THEOREM ErrorsAreFinal == Spec => []ErrorIsFinal
<1>1. Inv => ErrorIsFinal
  BY DEF Inv, PartInv, OwnInv, RequestFollowsStage, NoRow, ErrorIsFinal,
     SinkP!Inv, SinkP!RowHasRequest
<1> QED
  BY <1>1, Invariance, PTL

\* A redirect leads to a comment that is queued, sent or given up, unless one
\* like it failed, was cut or is still being handled.
THEOREM RedirectsAreKept == Spec => []RedirectIsKept
<1>1. Inv => RedirectIsKept
  <2> SUFFICES ASSUME Inv, NEW r \in Requests, stage[r] \in {"accepted", "duplicate"}
               PROVE  \E q \in Requests :
                        /\ KeyOf[q] = KeyOf[r]
                        /\ Kept(q) \/ stage[q] \in Web!InFlight
                                                \cup {"malformed", "failed", "cut"}
    BY DEF RedirectIsKept
  <2>1. ASSUME NEW q \in Requests, stage[q] = "accepted" PROVE Kept(q)
    BY <2>1 DEF Inv, OwnInv, RequestFollowsStage, NoRow, PartInv, SinkP!RowKept, Kept
  <2>2. CASE stage[r] = "duplicate"
    <3>1. PICK q \in Requests : /\ KeyOf[q] = KeyOf[r]
                               /\ stage[q] \notin {"none", "duplicate", "forbidden"}
      BY <2>2 DEF Inv, PartInv, WebP!Inv, WebP!DuplicateOfSomething
    <3>2. stage[q] \in {"accepted", "malformed", "failed", "cut"} \cup Web!InFlight
      BY <3>1, PartTypes DEF Inv, Web!InFlight
    <3> QED
      BY <2>1, <3>1, <3>2
  <2> QED
    BY <2>1, <2>2
<1> QED
  BY <1>1, Invariance, PTL

\* Without doubt about a message of the kind k, the positions of a page that
\* show it belong to different rows.
LEMMA ShownAreRows ==
  ASSUME Inv, NEW s \in Slugs, NEW k \in Keys,
         \A r \in doubt : KeyOf[r] # k
  PROVE  /\ IsFiniteSet(WebP!RowsOf(k))
         /\ Cardinality(Shown(s, k)) <= Cardinality(WebP!RowsOf(k))
<1> DEFINE f == [i \in Shown(s, k) |-> mail[s][i]]
<1>1. /\ mail[s] \in Seq(Requests) /\ cache[s] \in Nat /\ cache[s] <= Len(mail[s])
      /\ Len(mail[s]) \in Nat
      /\ \A i \in 1..Len(mail[s]) : SlugOf[mail[s][i]] = s
  BY DEF Inv, OwnInv, MailOK
<1>2. ASSUME NEW i \in Shown(s, k)
      PROVE  /\ i \in 1..Len(mail[s]) /\ mail[s][i] \in Requests
             /\ KeyOf[mail[s][i]] = k /\ i \in Copies(mail[s][i])
  <2>1. i \in 1..Len(mail[s]) /\ KeyOf[mail[s][i]] = k
    BY <1>1 DEF Shown
  <2>2. mail[s][i] \in Requests
    BY <1>1, <2>1
  <2> QED
    BY <1>1, <2>1, <2>2 DEF Copies
<1>3. \A r \in Requests :
        KeyOf[r] = k => Cardinality(Copies(r)) \in {0, 1} /\ IsFiniteSet(Copies(r))
  <2> SUFFICES ASSUME NEW r \in Requests, KeyOf[r] = k
               PROVE  Cardinality(Copies(r)) \in {0, 1} /\ IsFiniteSet(Copies(r))
    OBVIOUS
  <2>1. r \notin doubt /\ sent[r] \in Nat
    BY PartTypes DEF Inv
  <2>2. ~(sent[r] > 1)
    BY <2>1 DEF Inv, PartInv, SinkP!Inv, SinkP!NoUnforcedDuplicate
  <2>3. IsFiniteSet(Copies(r)) /\ Cardinality(Copies(r)) <= sent[r]
    BY DEF Inv, OwnInv, CopiesOK
  <2>4. Cardinality(Copies(r)) \in Nat
    BY <2>3, FS_CardinalityType
  <2> QED
    BY <2>1, <2>2, <2>3, <2>4
<1>4. ASSUME NEW r \in Requests, KeyOf[r] = k, NEW i \in Copies(r)
      PROVE  Copies(r) = {i} /\ r \in WebP!RowsOf(k)
  <2>1. Cardinality(Copies(r)) = 1
    BY <1>3, <1>4, FS_EmptySet
  <2>2. PICK j : Copies(r) = {j}
    BY <1>3, <1>4, <2>1, FS_Singleton
  <2>3. sent[r] # 0
    BY <2>1, PartTypes DEF Inv, OwnInv, CopiesOK
  <2>4. request[r] \notin {"none", "refused"}
    BY <2>3 DEF Inv, PartInv, SinkP!Inv, SinkP!RowHasRequest
  <2>5. r \in Rows
    BY <2>4, PartTypes DEF Inv, Rows
  <2> QED
    BY <1>4, <2>2, <2>5 DEF WebP!RowsOf
<1>5. f \in Injection(Shown(s, k), WebP!RowsOf(k))
  <2>1. ASSUME NEW i \in Shown(s, k) PROVE f[i] \in WebP!RowsOf(k)
    BY <1>2, <1>4
  <2>2. ASSUME NEW i \in Shown(s, k), NEW j \in Shown(s, k), f[i] = f[j] PROVE i = j
    <3>1. Copies(f[i]) = {i} /\ Copies(f[j]) = {j}
      BY <1>2, <1>4
    <3> QED
      BY <2>2, <3>1
  <2> QED
    BY <2>1, <2>2 DEF Injection, IsInjective
<1>6. IsFiniteSet(WebP!RowsOf(k))
  <2>1. WebP!RowsOf(k) \subseteq WebP!LetThrough(k)
    BY DEF Inv, PartInv, WebP!Inv, WebP!TypeOK, WebP!RowsOf, WebP!LetThrough,
       WebP!RowsLetThrough
  <2>2. IsFiniteSet(WebP!LetThrough(k))
    BY SameCounting DEF Inv, PartInv, WebP!Inv, WebP!WindowCount
  <2> QED
    BY <2>1, <2>2, FS_Subset
<1> QED
  BY <1>5, <1>6, FS_Injection

\* However many clicks, handlers, deliveries and restarts interleave, a page
\* shows a submission once per deduplication window, unless the server took a
\* message of its kind without the success being recorded.
THEOREM NothingShownTwice == Spec => []ShownOncePerWindow
<1>1. Inv /\ WebP!OncePerWindow => ShownOncePerWindow
  <2> SUFFICES ASSUME Inv, WebP!OncePerWindow, NEW s \in Slugs, NEW k \in Keys,
                      \A r \in doubt : KeyOf[r] # k
               PROVE  Cardinality(Shown(s, k)) <= 1 + lapses[k]
    BY DEF ShownOncePerWindow
  <2>1. /\ IsFiniteSet(WebP!RowsOf(k))
        /\ Cardinality(Shown(s, k)) <= Cardinality(WebP!RowsOf(k))
    BY ShownAreRows
  <2>2. Cardinality(WebP!RowsOf(k)) <= 1 + lapses[k]
    BY SameCounting DEF WebP!OncePerWindow
  <2>3. Shown(s, k) \subseteq 1..cache[s] /\ cache[s] \in Nat
    BY DEF Shown, Inv, OwnInv, MailOK
  <2>4. IsFiniteSet(Shown(s, k))
    <3>1. IsFiniteSet(1..cache[s])
      BY <2>3, FS_Interval
    <3> QED
      BY <2>3, <3>1, FS_Subset
  <2>5. /\ Cardinality(Shown(s, k)) \in Nat /\ Cardinality(WebP!RowsOf(k)) \in Nat
        /\ lapses[k] \in Nat
    BY <2>1, <2>4, FS_CardinalityType, PartTypes DEF Inv
  <2> QED
    BY <2>1, <2>2, <2>5
<1>2. Spec => []WebP!OncePerWindow
  BY PartConstants, WebP!QueuedOncePerWindow, WebInside, PTL
<1> QED
  BY <1>1, <1>2, Invariance, PTL

\* What a page promises when nothing is in doubt.
ShownOnce == \A s \in Slugs, k \in Keys : Cardinality(Shown(s, k)) <= 1 + lapses[k]

\* While the server's answers arrive, the rows of sent comments are removed and
\* the process lives, the exception of ShownOncePerWindow is never needed.
THEOREM RecordedIsShownOnce ==
  Spec /\ [][SinkP!Recorded]_(SinkP!vars) => []ShownOnce
<1>1. SinkP!Init => SinkP!NoDoubt
  BY DEF SinkP!Init, SinkP!NoDoubt
<1>2. SinkP!Spec /\ [][SinkP!Recorded]_(SinkP!vars) => []SinkP!NoDoubt
  BY <1>1, PartConstants, SinkP!RecordedStep, PTL DEF SinkP!Spec
<1>3. ShownOncePerWindow /\ SinkP!NoDoubt => ShownOnce
  BY DEF ShownOncePerWindow, SinkP!NoDoubt, ShownOnce
<1> QED
  BY <1>2, <1>3, NothingShownTwice, SinkInside, PTL

-----------------------------------------------------------------------------
(* The promises of the parts hold in the composition. *)

\* Behind the form, too, the outgoing half is OutgoingQueue: it sends only what
\* is queued, and nothing leaves the queue unless it was sent or given up.
THEOREM QueueInside == Spec => SinkP!ImplementsQueue
BY PartConstants, SinkP!SinkImplementsQueue, SinkInside, PTL

\* The worker behind the form is the one whose stall check Heartbeat is about.
THEOREM TimedLoopInside == Spec => SinkP!ImplementsTimedLoop
BY PartConstants, SinkP!SinkImplementsTimedLoop, SinkInside, PTL

-----------------------------------------------------------------------------
(* What a page can show at all *)

\* A comment on a page went all the way: it was posted to this thread, passed
\* submit, and the server took it.
ShownWasQueued ==
  \A s \in Slugs : \A i \in 1..cache[s] :
    /\ SlugOf[mail[s][i]] = s
    /\ sent[mail[s][i]] > 0
    /\ stage[mail[s][i]] \in {"queued", "accepted", "cut"}

\* Nothing that was answered with an error, or is still before submit, or was
\* posted to another thread is ever shown, whatever failed and restarted.
THEOREM OnlyQueuedIsShown == Spec => []ShownWasQueued
<1>1. Inv => ShownWasQueued
  <2> SUFFICES ASSUME Inv, NEW s \in Slugs, NEW i \in 1..cache[s]
               PROVE  /\ SlugOf[mail[s][i]] = s /\ sent[mail[s][i]] > 0
                      /\ stage[mail[s][i]] \in {"queued", "accepted", "cut"}
    BY DEF ShownWasQueued
  <2> DEFINE r == mail[s][i]
  <2>1. i \in 1..Len(mail[s]) /\ r \in Requests /\ SlugOf[r] = s
    <3>1. /\ mail[s] \in Seq(Requests) /\ Len(mail[s]) \in Nat /\ cache[s] \in Nat
          /\ cache[s] <= Len(mail[s])
      BY DEF Inv, OwnInv, MailOK
    <3>2. i \in 1..Len(mail[s])
      BY <3>1
    <3> QED
      BY <3>1, <3>2 DEF Inv, OwnInv, MailOK
  <2>2. i \in Copies(r)
    BY <2>1 DEF Copies
  <2>3. sent[r] > 0
    <3>1. /\ IsFiniteSet(Copies(r)) /\ Cardinality(Copies(r)) <= sent[r]
          /\ sent[r] \in Nat
      BY <2>1, PartTypes DEF Inv, OwnInv, CopiesOK
    <3>2. Cardinality(Copies(r)) \in Nat /\ Cardinality(Copies(r)) # 0
      BY <2>2, <3>1, FS_CardinalityType, FS_EmptySet
    <3> QED
      BY <3>1, <3>2
  <2>4. request[r] \notin NoRow
    BY <2>1, <2>3 DEF Inv, PartInv, SinkP!Inv, SinkP!RowHasRequest, NoRow
  <2>5. stage[r] \in {"queued", "accepted", "cut"}
    BY <2>1, <2>4, PartTypes DEF Inv, OwnInv, RequestFollowsStage
  <2> QED
    BY <2>1, <2>3, <2>5
<1> QED
  BY <1>1, Invariance, PTL

\* Nothing of its own is sent or shown.
ReadOnly == ~relay => /\ \A r \in Requests : sent[r] = 0 /\ r \notin queue
                      /\ \A s \in Slugs : cache[s] = 0

\* A site whose web.relay_comments is off queues and sends nothing, whoever posts
\* what, so its pages show only what others wrote (which is left out here).
THEOREM RelayOffIsReadOnly == Spec => []ReadOnly
<1>1. Inv /\ WebP!ReadOnly /\ ShownWasQueued => ReadOnly
  <2> SUFFICES ASSUME Inv, WebP!ReadOnly, ShownWasQueued, ~relay
               PROVE  /\ \A r \in Requests : sent[r] = 0 /\ r \notin queue
                      /\ \A s \in Slugs : cache[s] = 0
    BY DEF ReadOnly
  <2>1. ASSUME NEW r \in Requests PROVE sent[r] = 0 /\ r \notin queue
    <3>1. request[r] \in NoRow
      BY DEF WebP!ReadOnly, Inv, OwnInv, RequestFollowsStage
    <3> QED
      BY <3>1 DEF NoRow, Inv, PartInv, SinkP!Inv, SinkP!RowHasRequest
  <2>2. ASSUME NEW s \in Slugs, cache[s] # 0 PROVE FALSE
    <3>1. /\ mail[s] \in Seq(Requests) /\ Len(mail[s]) \in Nat /\ cache[s] \in Nat
          /\ cache[s] <= Len(mail[s])
      BY DEF Inv, OwnInv, MailOK
    <3>2. 1 \in 1..cache[s] /\ mail[s][1] \in Requests
      BY <2>2, <3>1
    <3> QED
      BY <3>2 DEF ShownWasQueued, WebP!ReadOnly
  <2> QED
    BY <2>1, <2>2
<1>2. Spec => []WebP!ReadOnly
  BY PartConstants, WebP!RelayOffQueuesNothing, WebInside, PTL
<1> QED
  BY <1>1, <1>2, Invariance, OnlyQueuedIsShown, PTL
=============================================================================

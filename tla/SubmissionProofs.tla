--------------------------- MODULE SubmissionProofs ---------------------------
(***************************************************************************)
(* Theorems about Submission, for any number of requests and keys.         *)
(*                                                                         *)
(* What is counted is not the rows but the requests the guard let through: *)
(* per key they are at most the lapses of its window, and one more while   *)
(* the key is in it.  Every row belongs to one of them.                    *)
(***************************************************************************)
EXTENDS Submission, FiniteSetTheorems, TLAPS

Passed == {"none", "duplicate", "forbidden"}

\* The requests with key k that the guard let through.
LetThrough(k) == {r \in Requests : KeyOf[r] = k /\ stage[r] \notin Passed}

InWindow(k) == IF k \in recent THEN 1 ELSE 0

RowsLetThrough == \A r \in rows : stage[r] \notin Passed

WindowCount ==
  \A k \in Keys : /\ IsFiniteSet(LetThrough(k))
                  /\ Cardinality(LetThrough(k)) <= lapses[k] + InWindow(k)

\* A key in the window got there with a request that was let through.
RecentHasFirst == \A k \in recent : LetThrough(k) # {}

Inv ==
  /\ TypeOK /\ RowsLetThrough /\ WindowCount /\ RecentHasFirst
  /\ DuplicateOfSomething
-----------------------------------------------------------------------------

LEMMA InitInv == Init => Inv
<1> SUFFICES ASSUME Init PROVE Inv
  OBVIOUS
<1> USE DEF Init
<1>1. TypeOK
  BY DEF TypeOK
<1>2. \A k \in Keys : LetThrough(k) = {}
  BY DEF LetThrough, Passed
<1>3. WindowCount
  BY <1>2, FS_EmptySet DEF WindowCount, InWindow
<1> QED
  BY <1>1, <1>3 DEF Inv, RowsLetThrough, RecentHasFirst, DuplicateOfSomething

LEMMA TypeStep == TypeOK /\ [Next]_vars => TypeOK'
<1> SUFFICES ASSUME TypeOK, [Next]_vars PROVE TypeOK'
  OBVIOUS
<1> USE SubmissionConstants DEF SubmissionConstants, TypeOK, InFlight, Answer, Step
<1>1. ASSUME NEW r \in Requests, Handle(r) PROVE TypeOK'
  <2>1. stage' \in [Requests -> {"none"} \cup InFlight \cup Answer]
    BY <1>1 DEF Handle, Forbid, Admit, Deduplicate, Invalidate, ComposeFails,
       SubmitFails, Enqueue, Accept
  <2>2. /\ relay' \in BOOLEAN /\ recent' \in SUBSET Keys
        /\ rows' \in SUBSET Requests /\ lapses' \in [Keys -> Nat]
    BY <1>1 DEF Handle, Forbid, Admit, Deduplicate, Invalidate, ComposeFails,
       SubmitFails, Enqueue, Accept
  <2> QED
    BY <2>1, <2>2
<1>2. ASSUME NEW k \in Keys, Lapse(k) PROVE TypeOK'
  BY <1>2 DEF Lapse
<1>3. CASE Restart
  BY <1>3 DEF Restart
<1>4. CASE UNCHANGED vars
  BY <1>4 DEF vars
<1> QED
  BY <1>1, <1>2, <1>3, <1>4 DEF Next

\* A request that is not admitted by this step is let through as before.
LEMMA SameLetThrough ==
  ASSUME Inv, TypeOK', UNCHANGED <<recent, lapses>>,
         \A r \in Requests : stage'[r] \in Passed <=> stage[r] \in Passed,
         \A r \in rows' : stage[r] \notin Passed,
         \A r \in Requests : stage'[r] = "duplicate" <=> stage[r] = "duplicate"
  PROVE  Inv'
<1>1. \A k \in Keys : LetThrough(k)' = LetThrough(k)
  BY DEF LetThrough
<1>2. WindowCount' /\ RecentHasFirst'
  BY <1>1 DEF Inv, TypeOK, WindowCount, RecentHasFirst, InWindow
<1>3. RowsLetThrough'
  BY DEF RowsLetThrough, TypeOK
<1>4. DuplicateOfSomething'
  BY DEF Inv, DuplicateOfSomething, Passed
<1> QED
  BY <1>2, <1>3, <1>4 DEF Inv

LEMMA AdmitInv ==
  ASSUME Inv, TypeOK', NEW r \in Requests, Admit(r)
  PROVE  Inv'
<1> DEFINE k == KeyOf[r]
<1> USE DEF Admit, Step
<1>0. k \in Keys /\ stage[r] = "none" /\ k \notin recent
  BY SubmissionConstants DEF SubmissionConstants
<1>a. \A q \in Requests : stage'[q] = IF q = r THEN "admitted" ELSE stage[q]
  BY DEF Inv, TypeOK
<1>1. LetThrough(k)' = LetThrough(k) \cup {r} /\ r \notin LetThrough(k)
  BY <1>0, <1>a DEF LetThrough, Passed
<1>2. \A l \in Keys \ {k} : LetThrough(l)' = LetThrough(l)
  BY <1>0, <1>a DEF LetThrough, Passed
<1>3. WindowCount'
  <2> SUFFICES ASSUME NEW l \in Keys
               PROVE  /\ IsFiniteSet(LetThrough(l)')
                      /\ Cardinality(LetThrough(l)') <= lapses'[l] + InWindow(l)'
    BY DEF WindowCount
  <2>1. /\ IsFiniteSet(LetThrough(l)) /\ Cardinality(LetThrough(l)) \in Nat
        /\ Cardinality(LetThrough(l)) <= lapses[l] + InWindow(l)
        /\ lapses[l] \in Nat
    BY FS_CardinalityType DEF Inv, WindowCount, TypeOK
  <2>2. CASE l = k
    <3>1. /\ IsFiniteSet(LetThrough(k)')
          /\ Cardinality(LetThrough(k)') = Cardinality(LetThrough(k)) + 1
      BY <1>1, <2>1, <2>2, FS_AddElement
    <3>2. InWindow(k) = 0 /\ InWindow(k)' = 1
      BY <1>0 DEF InWindow
    <3> QED
      BY <2>1, <2>2, <3>1, <3>2
  <2>3. CASE l # k
    <3>1. InWindow(l)' = InWindow(l)
      BY <2>3 DEF InWindow
    <3> QED
      BY <1>2, <2>1, <2>3, <3>1
  <2> QED
    BY <2>2, <2>3
<1>4. RecentHasFirst'
  BY <1>1, <1>2 DEF Inv, TypeOK, RecentHasFirst
<1>5. RowsLetThrough'
  BY <1>a DEF Inv, TypeOK, RowsLetThrough, Passed
<1>6. DuplicateOfSomething'
  BY <1>a DEF Inv, DuplicateOfSomething
<1> QED
  BY <1>3, <1>4, <1>5, <1>6 DEF Inv

\* The key is in the window, so its first request was let through.
LEMMA DeduplicateInv ==
  ASSUME Inv, TypeOK', NEW r \in Requests, Deduplicate(r)
  PROVE  Inv'
<1> USE DEF Deduplicate, Step
<1>a. \A q \in Requests : stage'[q] = IF q = r THEN "duplicate" ELSE stage[q]
  BY DEF Inv, TypeOK
<1>1. \A k \in Keys : LetThrough(k)' = LetThrough(k)
  BY <1>a DEF LetThrough, Passed
<1>2. WindowCount' /\ RecentHasFirst'
  BY <1>1 DEF Inv, TypeOK, WindowCount, RecentHasFirst, InWindow
<1>3. RowsLetThrough'
  BY <1>a DEF Inv, TypeOK, RowsLetThrough, Passed
<1>4. DuplicateOfSomething'
  <2>1. PICK q \in Requests : KeyOf[q] = KeyOf[r] /\ stage[q] \notin Passed
    BY DEF Inv, RecentHasFirst, LetThrough
  <2> QED
    BY <1>a, <2>1 DEF Inv, DuplicateOfSomething, Passed
<1> QED
  BY <1>2, <1>3, <1>4 DEF Inv

LEMMA HandleInv ==
  ASSUME Inv, TypeOK', NEW r \in Requests, Handle(r)
  PROVE  Inv'
<1> USE DEF Inv, TypeOK, RowsLetThrough, Step, Passed
<1>1. CASE Forbid(r)
  BY <1>1, SameLetThrough DEF Forbid
<1>2. CASE Invalidate(r)
  BY <1>2, SameLetThrough DEF Invalidate
<1>3. CASE ComposeFails(r)
  BY <1>3, SameLetThrough DEF ComposeFails
<1>4. CASE SubmitFails(r)
  BY <1>4, SameLetThrough DEF SubmitFails
<1>5. CASE Enqueue(r)
  BY <1>5, SameLetThrough DEF Enqueue
<1>6. CASE Accept(r)
  BY <1>6, SameLetThrough DEF Accept
<1> QED
  BY <1>1, <1>2, <1>3, <1>4, <1>5, <1>6, AdmitInv, DeduplicateInv DEF Handle

\* What leaves the window is paid for by a lapse.
LEMMA LapseInv ==
  ASSUME Inv, TypeOK', NEW k \in Keys, Lapse(k)
  PROVE  Inv'
<1> USE DEF Lapse
<1>1. \A l \in Keys : LetThrough(l)' = LetThrough(l)
  BY DEF LetThrough
<1>2. WindowCount'
  <2> SUFFICES ASSUME NEW l \in Keys
               PROVE  lapses'[l] + InWindow(l)' = lapses[l] + InWindow(l)
    BY <1>1 DEF Inv, WindowCount
  <2>1. lapses[l] \in Nat /\ lapses'[l] = IF l = k THEN lapses[l] + 1 ELSE lapses[l]
    BY DEF Inv, TypeOK
  <2>2. InWindow(l)' = IF l = k THEN 0 ELSE InWindow(l)
    BY DEF InWindow
  <2>3. l = k => InWindow(l) = 1
    BY DEF InWindow
  <2>4. InWindow(l) \in Nat
    BY DEF InWindow
  <2> QED
    BY <2>1, <2>2, <2>3, <2>4
<1> QED
  BY <1>1, <1>2 DEF Inv, TypeOK, RowsLetThrough, RecentHasFirst, DuplicateOfSomething

LEMMA RestartInv ==
  ASSUME Inv, TypeOK', Restart
  PROVE  Inv'
<1> USE DEF Restart
<1>a. \A r \in Requests :
        stage'[r] = IF stage[r] \in InFlight THEN "cut" ELSE stage[r]
  BY DEF Inv, TypeOK
<1>1. \A k \in Keys : LetThrough(k)' = LetThrough(k)
  BY <1>a DEF LetThrough, Passed, InFlight
<1>2. WindowCount'
  <2> SUFFICES ASSUME NEW k \in Keys
               PROVE  lapses'[k] + InWindow(k)' = lapses[k] + InWindow(k)
    BY <1>1 DEF Inv, WindowCount
  <2>1. lapses[k] \in Nat
        /\ lapses'[k] = IF k \in recent THEN lapses[k] + 1 ELSE lapses[k]
    BY DEF Inv, TypeOK
  <2>2. InWindow(k)' = 0 /\ InWindow(k) = IF k \in recent THEN 1 ELSE 0
    BY DEF InWindow
  <2> QED
    BY <2>1, <2>2
<1>3. RowsLetThrough'
  BY <1>a DEF Inv, TypeOK, RowsLetThrough, Passed, InFlight
<1>4. RecentHasFirst'
  BY DEF RecentHasFirst
<1>5. DuplicateOfSomething'
  BY <1>a DEF Inv, DuplicateOfSomething, InFlight
<1> QED
  BY <1>2, <1>3, <1>4, <1>5 DEF Inv

\* Inv holds in every reachable state.
THEOREM Invariance == Spec => []Inv
<1>1. Inv /\ [Next]_vars => Inv'
  <2> SUFFICES ASSUME Inv, [Next]_vars PROVE Inv'
    OBVIOUS
  <2>0. TypeOK'
    BY TypeStep DEF Inv
  <2>1. ASSUME NEW r \in Requests, Handle(r) PROVE Inv'
    BY <2>0, <2>1, HandleInv
  <2>2. ASSUME NEW k \in Keys, Lapse(k) PROVE Inv'
    BY <2>0, <2>2, LapseInv
  <2>3. CASE Restart
    BY <2>0, <2>3, RestartInv
  <2>4. CASE UNCHANGED vars
    BY <2>0, <2>4, SameLetThrough DEF vars, Inv, RowsLetThrough
  <2> QED
    BY <2>1, <2>2, <2>3, <2>4 DEF Next
<1> QED
  BY <1>1, InitInv, PTL DEF Spec

-----------------------------------------------------------------------------
(* The invariants *)

\* Every variable of the POST handler keeps its type.
THEOREM TypeCorrect == Spec => []TypeOK
<1>1. Inv => TypeOK
  BY DEF Inv
<1> QED
  BY <1>1, Invariance, PTL

\* However many requests of however many kinds interleave, a submission is
\* queued at most once more than its key fell out of the window.
THEOREM QueuedOncePerWindow == Spec => []OncePerWindow
<1>1. Inv => OncePerWindow
  <2> SUFFICES ASSUME Inv, NEW k \in Keys
               PROVE  Cardinality(RowsOf(k)) <= 1 + lapses[k]
    BY DEF OncePerWindow
  <2>1. RowsOf(k) \subseteq LetThrough(k)
    BY DEF Inv, TypeOK, RowsOf, LetThrough, RowsLetThrough
  <2>2. /\ IsFiniteSet(LetThrough(k)) /\ lapses[k] \in Nat
        /\ Cardinality(LetThrough(k)) <= lapses[k] + InWindow(k)
    BY DEF Inv, TypeOK, WindowCount
  <2>3. /\ Cardinality(RowsOf(k)) <= Cardinality(LetThrough(k))
        /\ Cardinality(RowsOf(k)) \in Nat /\ Cardinality(LetThrough(k)) \in Nat
    BY <2>1, <2>2, FS_Subset, FS_CardinalityType
  <2>4. InWindow(k) \in {0, 1}
    BY DEF InWindow
  <2> QED
    BY <2>2, <2>3, <2>4
<1> QED
  BY <1>1, Invariance, PTL

\* The first submission of its kind is never taken for a duplicate.
THEOREM FirstIsNeverSwallowed == Spec => []DuplicateOfSomething
<1>1. Inv => DuplicateOfSomething
  BY DEF Inv
<1> QED
  BY <1>1, Invariance, PTL

-----------------------------------------------------------------------------
(* What a redirect is worth.  RedirectMeansQueued does not hold: a re-click  *)
(* that comes while the first submission is still being handled is answered *)
(* with a redirect, and the first may fail after that.  A restart apart,     *)
(* which the property excuses, there is no other way to lose it.             *)

\* A handler that has passed submit has left its row.
QueuedHasRow == \A r \in Requests : stage[r] \in {"queued", "accepted"} => r \in rows

LEMMA QueuedHasRowStep ==
  TypeOK /\ QueuedHasRow /\ [Next]_vars => QueuedHasRow'
<1> SUFFICES ASSUME TypeOK, QueuedHasRow, [Next]_vars PROVE QueuedHasRow'
  OBVIOUS
<1> USE DEF TypeOK, QueuedHasRow
<1>1. ASSUME NEW r \in Requests, Handle(r) PROVE QueuedHasRow'
  BY <1>1 DEF Handle, Step, Forbid, Admit, Deduplicate, Invalidate, ComposeFails,
     SubmitFails, Enqueue, Accept
<1>2. CASE Restart
  BY <1>2 DEF Restart
<1>3. ASSUME NEW k \in Keys, Lapse(k) PROVE QueuedHasRow'
  BY <1>3 DEF Lapse
<1>4. CASE UNCHANGED vars
  BY <1>4 DEF vars
<1> QED
  BY <1>1, <1>2, <1>3, <1>4 DEF Next

\* No submission with key k fails in this step.
NoFailure(k) == \A r \in Requests : KeyOf[r] = k => ~ComposeFails(r) /\ ~SubmitFails(r)

\* No submission with key k has failed so far.
NoneFailed(k) ==
  \A r \in Requests : KeyOf[r] = k => stage[r] \notin {"malformed", "failed"}

LEMMA NoneFailedStep ==
  ASSUME NEW k
  PROVE  TypeOK /\ NoneFailed(k) /\ [Next]_vars /\ [NoFailure(k)]_vars => NoneFailed(k)'
<1> SUFFICES ASSUME TypeOK, NoneFailed(k), [Next]_vars, [NoFailure(k)]_vars
             PROVE  NoneFailed(k)'
  OBVIOUS
<1> USE DEF TypeOK, NoneFailed
<1>1. ASSUME NEW r \in Requests, Handle(r), NoFailure(k) PROVE NoneFailed(k)'
  BY <1>1 DEF NoFailure, Handle, Step, Forbid, Admit, Deduplicate, Invalidate,
     ComposeFails, SubmitFails, Enqueue, Accept
<1>2. CASE Restart
  BY <1>2 DEF Restart
<1>3. ASSUME NEW l \in Keys, Lapse(l) PROVE NoneFailed(k)'
  BY <1>3 DEF Lapse
<1>4. CASE UNCHANGED vars
  BY <1>4 DEF vars
<1> QED
  BY <1>1, <1>2, <1>3, <1>4 DEF Next

\* RedirectMeansQueued for the submissions with key k.
RedirectFor(k) ==
  \A r \in Requests :
    /\ KeyOf[r] = k /\ stage[r] \in {"accepted", "duplicate"}
    /\ \A q \in Requests : stage[q] \notin InFlight \cup {"cut"}
    => RowsOf(k) # {}

\* As long as no submission of a kind fails, a redirect of that kind means what
\* the visitor takes it to mean, whatever becomes of the others.
THEOREM OnlyFailuresMislead ==
  ASSUME NEW k \in Keys
  PROVE  Spec /\ [][NoFailure(k)]_vars => []RedirectFor(k)
<1>1. Init => QueuedHasRow /\ NoneFailed(k)
  BY DEF Init, QueuedHasRow, NoneFailed
<1>2. Inv => TypeOK
  BY DEF Inv
<1>3. Inv /\ QueuedHasRow /\ NoneFailed(k) => RedirectFor(k)
  <2> SUFFICES ASSUME Inv, QueuedHasRow, NoneFailed(k), NEW r \in Requests,
                      KeyOf[r] = k, stage[r] \in {"accepted", "duplicate"},
                      \A q \in Requests : stage[q] \notin InFlight \cup {"cut"}
               PROVE  RowsOf(k) # {}
    BY DEF RedirectFor
  <2>1. PICK q \in Requests : /\ KeyOf[q] = k
                             /\ stage[q] \notin {"none", "duplicate", "forbidden"}
    BY DEF Inv, DuplicateOfSomething
  <2>2. stage[q] = "accepted"
    BY <2>1 DEF Inv, TypeOK, Answer, NoneFailed
  <2> QED
    BY <2>1, <2>2 DEF QueuedHasRow, RowsOf
<1> QED
  BY <1>1, <1>2, <1>3, Invariance, QueuedHasRowStep, NoneFailedStep, PTL DEF Spec

-----------------------------------------------------------------------------
(* A site that only shows comments *)

\* With relay_comments off every handler ends at its first test.
ReadOnly ==
  ~relay => recent = {} /\ rows = {} /\ \A r \in Requests : stage[r] \in {"none", "forbidden"}

\* Nothing is queued, deduplicated or remembered while web.relay_comments is off.
THEOREM RelayOffQueuesNothing == Spec => []ReadOnly
<1>1. Init => ReadOnly
  BY DEF Init, ReadOnly
<1>2. TypeOK /\ ReadOnly /\ [Next]_vars => ReadOnly'
  <2> SUFFICES ASSUME TypeOK, ReadOnly, [Next]_vars PROVE ReadOnly'
    OBVIOUS
  <2> USE DEF TypeOK, ReadOnly
  <2>1. ASSUME NEW r \in Requests, Handle(r) PROVE ReadOnly'
    BY <2>1 DEF Handle, Step, Forbid, Admit, Deduplicate, Invalidate, ComposeFails,
       SubmitFails, Enqueue, Accept
  <2>2. CASE Restart
    BY <2>2 DEF Restart, InFlight
  <2>3. ASSUME NEW k \in Keys, Lapse(k) PROVE ReadOnly'
    BY <2>3 DEF Lapse
  <2>4. CASE UNCHANGED vars
    BY <2>4 DEF vars
  <2> QED
    BY <2>1, <2>2, <2>3, <2>4 DEF Next
<1> QED
  BY <1>1, <1>2, TypeCorrect, PTL DEF Spec
=============================================================================

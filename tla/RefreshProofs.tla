---------------------------- MODULE RefreshProofs ----------------------------
(***************************************************************************)
(* Theorems about Refresh: its type invariant, the safety invariants the   *)
(* runs of MCRefresh check, and the refinement of CommentCache, for any    *)
(* number of threads, task slots, permits and messages.                    *)
(*                                                                         *)
(* The invariants follow from three facts: the set in the mutex names the  *)
(* live tasks, one per thread; the view a live task holds lies between the *)
(* cache and the mailbox, since nobody else writes that thread's rows; and *)
(* a refresh still to search will see whatever on_delivered asked for.     *)
(***************************************************************************)
EXTENDS Refresh, FiniteSetTheorems, TLAPS

\* The view a task fetches or is about to store is between the cache and the mailbox.
ViewsInOrder ==
  /\ \A s \in Slugs : cache[s] <= mailbox[s] /\ owed[s] <= mailbox[s]
  /\ \A t \in Tasks : phase[t] \in {"fetching", "found"} =>
       cache[subject[t]] <= found[t] /\ found[t] <= mailbox[subject[t]]

\* What on_delivered asked for is cached, or a live refresh will see to it or
\* come to no result.
OwedIsCovered ==
  \A s \in Slugs \ late :
    \/ owed[s] <= cache[s]
    \/ \E t \in Tasks : /\ subject[t] = s
                        /\ \/ phase[t] \in {"waiting", "searching", "failed", "unstored"}
                           \/ /\ phase[t] \in {"fetching", "found"}
                              /\ owed[s] <= found[t]

Inv == TypeOK /\ OneRefreshPerSlug /\ ViewsInOrder /\ OwedIsCovered
-----------------------------------------------------------------------------
(* Type correctness *)

LEMMA InitType == Init => TypeOK
<1> SUFFICES ASSUME Init PROVE TypeOK
  OBVIOUS
<1>1. phase \in [Tasks -> Phase] /\ permits \in Nat
  BY RefreshConstants DEF RefreshConstants, Init, Phase
<1> QED
  BY <1>1 DEF Init, TypeOK

\* One step per action.
LEMMA TypeStep == TypeOK /\ [Next]_vars => TypeOK'
<1> SUFFICES ASSUME TypeOK, [Next]_vars PROVE TypeOK'
  OBVIOUS
<1> USE DEF TypeOK, Phase, taskvars, pagevars, ghosts
<1>1. ASSUME NEW s \in Slugs, Arrive(s) PROVE TypeOK'
  BY <1>1 DEF Arrive
<1>2. ASSUME NEW s \in Slugs, Deliver(s) PROVE TypeOK'
  BY <1>2 DEF Deliver
<1>3. ASSUME NEW s \in Slugs, OnDelivered(s) PROVE TypeOK'
  BY <1>3 DEF OnDelivered, RefreshInBackground, Start, PastSearch
<1>4. ASSUME NEW s \in Slugs, Invalidate(s) PROVE TypeOK'
  BY <1>4 DEF Invalidate
<1>5. ASSUME NEW s \in Slugs, Age(s) PROVE TypeOK'
  BY <1>5 DEF Age
<1>6. ASSUME NEW s \in Slugs, ReadCache(s) PROVE TypeOK'
  BY <1>6 DEF ReadCache
<1>7. ASSUME NEW s \in Slugs, ReadFails(s) PROVE TypeOK'
  BY <1>7 DEF ReadFails
<1>8. ASSUME NEW s \in Slugs, Respond(s) PROVE TypeOK'
  BY <1>8 DEF Respond, RefreshInBackground, Start
<1>9. ASSUME NEW t \in Tasks, AcquirePermit(t) PROVE TypeOK'
  BY <1>9 DEF AcquirePermit, SetPhase
<1>10. ASSUME NEW t \in Tasks, PermitTimeout(t) PROVE TypeOK'
  BY <1>10 DEF PermitTimeout, SetPhase, Excuse
<1>11. ASSUME NEW t \in Tasks, Search(t) \/ SearchEmpty(t) \/ Fetch(t)
       PROVE  TypeOK'
  BY <1>11 DEF Search, SearchEmpty, Fetch, SetPhase
<1>12. ASSUME NEW t \in Tasks, SearchFails(t) PROVE TypeOK'
  BY <1>12 DEF SearchFails, InSession, SetPhase
<1>13. ASSUME NEW t \in Tasks, StoreOk(t) PROVE TypeOK'
  BY <1>13 DEF StoreOk, SetPhase
<1>14. ASSUME NEW t \in Tasks, StoreFails(t) PROVE TypeOK'
  BY <1>14 DEF StoreFails, SetPhase
<1>15. ASSUME NEW t \in Tasks, MarkAttempted(t) PROVE TypeOK'
  BY <1>15 DEF MarkAttempted, SetPhase
<1>16. ASSUME NEW t \in Tasks, End(t) PROVE TypeOK'
  BY <1>16 DEF End, Ending, SetPhase, Excuse
<1>17. CASE Restart
  BY <1>17, RefreshConstants DEF RefreshConstants, Restart
<1>18. CASE UNCHANGED vars
  BY <1>18 DEF vars
<1> QED
  BY <1>1, <1>2, <1>3, <1>4, <1>5, <1>6, <1>7, <1>8, <1>9, <1>10, <1>11,
     <1>12, <1>13, <1>14, <1>15, <1>16, <1>17, <1>18
     DEF Next, Mail, Web, RefreshStep

\* Every reachable state is well typed; in particular no search starts
\* without a permit.
THEOREM TypeCorrect == Spec => []TypeOK
  BY InitType, TypeStep, PTL DEF Spec

-----------------------------------------------------------------------------
(* One lemma per action: Inv is preserved. *)

LEMMA ArriveInv ==
  ASSUME Inv, TypeOK', NEW s \in Slugs, Arrive(s)
  PROVE  Inv'
<1> USE DEF TypeOK, Phase, Live, taskvars, pagevars, ghosts
<1>1. OneRefreshPerSlug' /\ ViewsInOrder' /\ OwedIsCovered'
  BY DEF Inv, OneRefreshPerSlug, ViewsInOrder, OwedIsCovered, Arrive
<1> QED
  BY <1>1 DEF Inv

LEMMA DeliverInv ==
  ASSUME Inv, TypeOK', NEW s \in Slugs, Deliver(s)
  PROVE  Inv'
<1> USE DEF TypeOK, Phase, Live, taskvars, pagevars, ghosts
<1>1. OneRefreshPerSlug' /\ ViewsInOrder' /\ OwedIsCovered'
  BY DEF Inv, OneRefreshPerSlug, ViewsInOrder, OwedIsCovered, Deliver
<1> QED
  BY <1>1 DEF Inv

\* A hook that starts no refresh meets one still to search, or is late.
LEMMA OnDeliveredInv ==
  ASSUME Inv, TypeOK', NEW s \in Slugs, OnDelivered(s)
  PROVE  Inv'
<1> USE DEF TypeOK, Phase, Live, taskvars, pagevars, ghosts
<1>1. OneRefreshPerSlug' /\ ViewsInOrder'
  BY DEF Inv, OneRefreshPerSlug, ViewsInOrder, OnDelivered,
         RefreshInBackground, Start, PastSearch
<1>2. OwedIsCovered'
  BY DEF Inv, OwedIsCovered, OneRefreshPerSlug, OnDelivered,
         RefreshInBackground, Start, PastSearch
<1> QED
  BY <1>1, <1>2 DEF Inv

LEMMA InvalidateInv ==
  ASSUME Inv, TypeOK', NEW s \in Slugs, Invalidate(s)
  PROVE  Inv'
<1> USE DEF TypeOK, Phase, Live, taskvars, pagevars, ghosts
<1>1. OneRefreshPerSlug' /\ ViewsInOrder' /\ OwedIsCovered'
  BY DEF Inv, OneRefreshPerSlug, ViewsInOrder, OwedIsCovered, Invalidate
<1> QED
  BY <1>1 DEF Inv

LEMMA AgeInv ==
  ASSUME Inv, TypeOK', NEW s \in Slugs, Age(s)
  PROVE  Inv'
<1> USE DEF TypeOK, Phase, Live, taskvars, pagevars, ghosts
<1>1. OneRefreshPerSlug' /\ ViewsInOrder' /\ OwedIsCovered'
  BY DEF Inv, OneRefreshPerSlug, ViewsInOrder, OwedIsCovered, Age
<1> QED
  BY <1>1 DEF Inv

LEMMA ReadCacheInv ==
  ASSUME Inv, TypeOK', NEW s \in Slugs, ReadCache(s)
  PROVE  Inv'
<1> USE DEF TypeOK, Phase, Live, taskvars, pagevars, ghosts
<1>1. OneRefreshPerSlug' /\ ViewsInOrder' /\ OwedIsCovered'
  BY DEF Inv, OneRefreshPerSlug, ViewsInOrder, OwedIsCovered, ReadCache
<1> QED
  BY <1>1 DEF Inv

LEMMA ReadFailsInv ==
  ASSUME Inv, TypeOK', NEW s \in Slugs, ReadFails(s)
  PROVE  Inv'
<1> USE DEF TypeOK, Phase, Live, taskvars, pagevars, ghosts
<1>1. OneRefreshPerSlug' /\ ViewsInOrder' /\ OwedIsCovered'
  BY DEF Inv, OneRefreshPerSlug, ViewsInOrder, OwedIsCovered, ReadFails
<1> QED
  BY <1>1 DEF Inv

LEMMA RespondInv ==
  ASSUME Inv, TypeOK', NEW s \in Slugs, Respond(s)
  PROVE  Inv'
<1> USE DEF TypeOK, Phase, taskvars, pagevars, ghosts
<1>1. CASE UNCHANGED taskvars
  BY <1>1 DEF Inv, OneRefreshPerSlug, ViewsInOrder, OwedIsCovered, Live, Respond
<1>2. CASE s \notin refreshing /\ Start(s)
  <2>1. PICK t \in Tasks : /\ phase[t] = "idle"
                           /\ phase' = [phase EXCEPT ![t] = "waiting"]
                           /\ subject' = [subject EXCEPT ![t] = s]
                           /\ refreshing' = refreshing \cup {s} /\ found' = found
    BY <1>2 DEF Start
  <2>2. UNCHANGED <<mailbox, cache, ghosts>>
    BY DEF Respond
  <2>3. OneRefreshPerSlug'
    BY <1>2, <2>1 DEF Inv, OneRefreshPerSlug, Live
  <2>4. ViewsInOrder'
    BY <2>1, <2>2 DEF Inv, ViewsInOrder
  <2>5. OwedIsCovered'
    BY <2>1, <2>2 DEF Inv, OwedIsCovered
  <2> QED
    BY <2>3, <2>4, <2>5 DEF Inv
<1> QED
  BY <1>1, <1>2 DEF Respond, RefreshInBackground

LEMMA AcquirePermitInv ==
  ASSUME Inv, TypeOK', NEW t \in Tasks, AcquirePermit(t)
  PROVE  Inv'
<1> USE DEF TypeOK, Phase, Live, taskvars, pagevars, ghosts
<1>1. OneRefreshPerSlug' /\ ViewsInOrder' /\ OwedIsCovered'
  BY DEF Inv, OneRefreshPerSlug, ViewsInOrder, OwedIsCovered, AcquirePermit,
         SetPhase
<1> QED
  BY <1>1 DEF Inv

LEMMA PermitTimeoutInv ==
  ASSUME Inv, TypeOK', NEW t \in Tasks, PermitTimeout(t)
  PROVE  Inv'
<1> USE DEF TypeOK, Phase, Live, taskvars, pagevars, ghosts
<1>1. OneRefreshPerSlug' /\ ViewsInOrder' /\ OwedIsCovered'
  BY DEF Inv, OneRefreshPerSlug, ViewsInOrder, OwedIsCovered, PermitTimeout,
         SetPhase, Excuse
<1> QED
  BY <1>1 DEF Inv

\* The search sees all that is in the mailbox, so all that is owed.
LEMMA SearchInv ==
  ASSUME Inv, TypeOK', NEW t \in Tasks, Search(t) \/ SearchEmpty(t)
  PROVE  Inv'
<1> USE DEF TypeOK, Phase, Live, taskvars, pagevars, ghosts
<1>1. OneRefreshPerSlug' /\ ViewsInOrder'
  BY DEF Inv, OneRefreshPerSlug, ViewsInOrder, Search, SearchEmpty, SetPhase
<1>2. OwedIsCovered'
  BY DEF Inv, OwedIsCovered, ViewsInOrder, Search, SearchEmpty, SetPhase
<1> QED
  BY <1>1, <1>2 DEF Inv

\* What was found is still the view when its bodies are here.
LEMMA FetchInv ==
  ASSUME Inv, TypeOK', NEW t \in Tasks, Fetch(t)
  PROVE  Inv'
<1> USE DEF TypeOK, Phase, Live, taskvars, pagevars, ghosts
<1>1. OneRefreshPerSlug' /\ ViewsInOrder'
  BY DEF Inv, OneRefreshPerSlug, ViewsInOrder, Fetch, SetPhase
<1>2. OwedIsCovered'
  BY DEF Inv, OwedIsCovered, ViewsInOrder, Fetch, SetPhase
<1> QED
  BY <1>1, <1>2 DEF Inv

LEMMA SearchFailsInv ==
  ASSUME Inv, TypeOK', NEW t \in Tasks, SearchFails(t)
  PROVE  Inv'
<1> USE DEF TypeOK, Phase, Live, taskvars, pagevars, ghosts
<1>1. OneRefreshPerSlug' /\ ViewsInOrder' /\ OwedIsCovered'
  BY DEF Inv, OneRefreshPerSlug, ViewsInOrder, OwedIsCovered, SearchFails,
         InSession, SetPhase
<1> QED
  BY <1>1 DEF Inv

\* No other task refreshes the thread, so its rows only move forward.
LEMMA StoreOkInv ==
  ASSUME Inv, TypeOK', NEW t \in Tasks, StoreOk(t)
  PROVE  Inv'
<1> USE DEF TypeOK, Phase, Live, taskvars, pagevars, ghosts
<1>1. OneRefreshPerSlug'
  BY DEF Inv, OneRefreshPerSlug, StoreOk, SetPhase
<1>2. ViewsInOrder'
  BY DEF Inv, ViewsInOrder, OneRefreshPerSlug, StoreOk, SetPhase
<1>3. OwedIsCovered'
  BY DEF Inv, OwedIsCovered, ViewsInOrder, StoreOk, SetPhase
<1> QED
  BY <1>1, <1>2, <1>3 DEF Inv

LEMMA StoreFailsInv ==
  ASSUME Inv, TypeOK', NEW t \in Tasks, StoreFails(t)
  PROVE  Inv'
<1> USE DEF TypeOK, Phase, Live, taskvars, pagevars, ghosts
<1>1. OneRefreshPerSlug' /\ ViewsInOrder' /\ OwedIsCovered'
  BY DEF Inv, OneRefreshPerSlug, ViewsInOrder, OwedIsCovered, StoreFails,
         SetPhase
<1> QED
  BY <1>1 DEF Inv

LEMMA MarkAttemptedInv ==
  ASSUME Inv, TypeOK', NEW t \in Tasks, MarkAttempted(t)
  PROVE  Inv'
<1> USE DEF TypeOK, Phase, Live, taskvars, pagevars, ghosts
<1>1. OneRefreshPerSlug' /\ ViewsInOrder' /\ OwedIsCovered'
  BY DEF Inv, OneRefreshPerSlug, ViewsInOrder, OwedIsCovered, MarkAttempted,
         SetPhase
<1> QED
  BY <1>1 DEF Inv

\* The ended task was the only one of its thread, and excused it if it stored
\* nothing.
LEMMA EndInv ==
  ASSUME Inv, TypeOK', NEW t \in Tasks, End(t)
  PROVE  Inv'
<1> USE DEF TypeOK, Phase, Live, taskvars, pagevars, ghosts
<1>1. OneRefreshPerSlug' /\ ViewsInOrder' /\ OwedIsCovered'
  BY DEF Inv, OneRefreshPerSlug, ViewsInOrder, OwedIsCovered, End, Ending, SetPhase,
         Excuse
<1> QED
  BY <1>1 DEF Inv

LEMMA RestartInv ==
  ASSUME Inv, TypeOK', Restart
  PROVE  Inv'
<1> USE DEF TypeOK, Phase, Live, taskvars, pagevars, ghosts
<1>1. OneRefreshPerSlug' /\ ViewsInOrder' /\ OwedIsCovered'
  BY DEF Inv, OneRefreshPerSlug, ViewsInOrder, OwedIsCovered, Restart
<1> QED
  BY <1>1 DEF Inv

-----------------------------------------------------------------------------
(* The invariants *)

\* Inv holds in every reachable state.
THEOREM Invariance == Spec => []Inv
<1>1. Init => Inv
  <2> SUFFICES ASSUME Init PROVE Inv
    OBVIOUS
  <2>1. TypeOK
    BY InitType
  <2> QED
    BY <2>1 DEF Init, Inv, OneRefreshPerSlug, ViewsInOrder, OwedIsCovered, Live
<1>2. Inv /\ [Next]_vars => Inv'
  <2> SUFFICES ASSUME Inv, [Next]_vars PROVE Inv'
    OBVIOUS
  <2>0. TypeOK'
    BY TypeStep DEF Inv
  <2>1. ASSUME NEW s \in Slugs, Arrive(s) PROVE Inv'
    BY <2>1, <2>0, ArriveInv
  <2>2. ASSUME NEW s \in Slugs, Deliver(s) PROVE Inv'
    BY <2>2, <2>0, DeliverInv
  <2>3. ASSUME NEW s \in Slugs, OnDelivered(s) PROVE Inv'
    BY <2>3, <2>0, OnDeliveredInv
  <2>4. ASSUME NEW s \in Slugs, Invalidate(s) PROVE Inv'
    BY <2>4, <2>0, InvalidateInv
  <2>5. ASSUME NEW s \in Slugs, Age(s) PROVE Inv'
    BY <2>5, <2>0, AgeInv
  <2>6. ASSUME NEW s \in Slugs, ReadCache(s) PROVE Inv'
    BY <2>6, <2>0, ReadCacheInv
  <2>7. ASSUME NEW s \in Slugs, ReadFails(s) PROVE Inv'
    BY <2>7, <2>0, ReadFailsInv
  <2>8. ASSUME NEW s \in Slugs, Respond(s) PROVE Inv'
    BY <2>8, <2>0, RespondInv
  <2>9. ASSUME NEW t \in Tasks, AcquirePermit(t) PROVE Inv'
    BY <2>9, <2>0, AcquirePermitInv
  <2>10. ASSUME NEW t \in Tasks, PermitTimeout(t) PROVE Inv'
    BY <2>10, <2>0, PermitTimeoutInv
  <2>11. ASSUME NEW t \in Tasks, Search(t) \/ SearchEmpty(t) \/ Fetch(t)
         PROVE  Inv'
    BY <2>11, <2>0, SearchInv, FetchInv
  <2>12. ASSUME NEW t \in Tasks, SearchFails(t) PROVE Inv'
    BY <2>12, <2>0, SearchFailsInv
  <2>13. ASSUME NEW t \in Tasks, StoreOk(t) PROVE Inv'
    BY <2>13, <2>0, StoreOkInv
  <2>14. ASSUME NEW t \in Tasks, StoreFails(t) PROVE Inv'
    BY <2>14, <2>0, StoreFailsInv
  <2>15. ASSUME NEW t \in Tasks, MarkAttempted(t) PROVE Inv'
    BY <2>15, <2>0, MarkAttemptedInv
  <2>16. ASSUME NEW t \in Tasks, End(t) PROVE Inv'
    BY <2>16, <2>0, EndInv
  <2>17. CASE Restart
    BY <2>17, <2>0, RestartInv
  <2>18. CASE UNCHANGED vars
    BY <2>18
       DEF vars, Inv, TypeOK, OneRefreshPerSlug, ViewsInOrder, OwedIsCovered, Live,
           taskvars, pagevars, ghosts
  <2> QED
    BY <2>1, <2>2, <2>3, <2>4, <2>5, <2>6, <2>7, <2>8, <2>9, <2>10, <2>11,
       <2>12, <2>13, <2>14, <2>15, <2>16, <2>17, <2>18
       DEF Next, Mail, Web, RefreshStep
<1> QED
  BY <1>1, <1>2, PTL DEF Spec

\* A thread is refreshed by one task at a time and never stays marked.
THEOREM NoSlugStaysMarked == Spec => []OneRefreshPerSlug
<1>1. Inv => OneRefreshPerSlug
  BY DEF Inv
<1> QED
  BY <1>1, Invariance, PTL

\* A delivered comment re-searches its thread, unless the search of the refresh
\* it met was answered already.
THEOREM DeliveredReSearches == Spec => []HookReSearches
<1>1. Inv => HookReSearches
  <2> SUFFICES ASSUME Inv, NEW s \in Slugs \ (refreshing \cup late)
               PROVE  owed[s] <= cache[s]
    BY DEF HookReSearches
  <2>1. \A t \in Tasks : subject[t] = s => phase[t] = "idle"
    BY DEF Inv, OneRefreshPerSlug, Live
  <2> QED
    BY <2>1 DEF Inv, OwedIsCovered
<1> QED
  BY <1>1, Invariance, PTL

-----------------------------------------------------------------------------
(* Refinement of CommentCache *)

LEMMA CacheStep == Inv /\ [Next]_vars => [Cached!CacheNext]_(Cached!cvars)
<1> SUFFICES ASSUME Inv, [Next]_vars PROVE [Cached!CacheNext]_(Cached!cvars)
  OBVIOUS
<1> USE DEF Cached!CacheNext, Cached!cvars
<1>1. ASSUME NEW s \in Slugs, Arrive(s) PROVE Cached!Receive(s)
  BY <1>1 DEF Arrive, Cached!Receive
<1>2. ASSUME NEW t \in Tasks, StoreOk(t) PROVE Cached!CatchUp(subject[t])
  <2>1. found[t] \in cache[subject[t]]..mailbox[subject[t]]
    BY <1>2 DEF StoreOk, Inv, TypeOK, ViewsInOrder
  <2> QED
    BY <1>2, <2>1 DEF StoreOk, Cached!CatchUp
<1>3. ASSUME NEW t \in Tasks, StoreOk(t) PROVE subject[t] \in Slugs
  BY <1>3 DEF Inv, TypeOK
<1>4. ASSUME NEW s \in Slugs, Deliver(s) \/ OnDelivered(s) \/ Web(s) \/ Age(s)
      PROVE  UNCHANGED <<mailbox, cache>>
  BY <1>4 DEF Deliver, OnDelivered, Web, Invalidate, ReadCache, ReadFails, Respond, Age
<1>5. ASSUME NEW t \in Tasks, RefreshStep(t), ~StoreOk(t)
      PROVE  UNCHANGED <<mailbox, cache>>
  BY <1>5 DEF RefreshStep, AcquirePermit, PermitTimeout, Search, SearchEmpty, Fetch,
     SearchFails, StoreFails, MarkAttempted, End
<1>6. CASE Restart \/ UNCHANGED vars
  BY <1>6 DEF Restart, vars
<1> QED
  BY <1>1, <1>2, <1>3, <1>4, <1>5, <1>6 DEF Next, Mail, RefreshStep

\* The cache of a thread only moves forward, whatever the interleaving of
\* searches, failures and restarts.
THEOREM RefreshImplementsCache == Spec => ImplementsCache
<1>1. Init => Cached!CacheInit
  BY DEF Init, Cached!CacheInit
<1> QED
  BY <1>1, Invariance, CacheStep, PTL DEF Spec, ImplementsCache, Cached!CacheSpec

-----------------------------------------------------------------------------
(* The permits of search_limit *)

\* The inductive form: the searching tasks are finitely many.
PermitInv == IsFiniteSet(Searching) /\ PermitsConserved

LEMMA PermitStep == TypeOK /\ PermitInv /\ [Next]_vars => PermitInv'
<1> SUFFICES ASSUME TypeOK, PermitInv, [Next]_vars PROVE PermitInv'
  OBVIOUS
<1>0. /\ Cardinality(Searching) \in Nat /\ permits \in Nat
      /\ MaxSearches \in Nat
  BY FS_CardinalityType, RefreshConstants DEF TypeOK, PermitInv, RefreshConstants
<1>a. ASSUME Searching' = Searching, permits' = permits PROVE PermitInv'
  BY <1>a DEF PermitInv, PermitsConserved
<1>1. ASSUME NEW t \in Tasks, AcquirePermit(t) PROVE PermitInv'
  <2>1. Searching' = Searching \cup {t} /\ t \notin Searching
    BY <1>1 DEF AcquirePermit, SetPhase, TypeOK, Searching, InSession
  <2>2. /\ IsFiniteSet(Searching')
        /\ Cardinality(Searching') = Cardinality(Searching) + 1
    BY <2>1, FS_AddElement DEF PermitInv
  <2>3. permits' = permits - 1
    BY <1>1 DEF AcquirePermit
  <2> QED
    BY <1>0, <2>2, <2>3 DEF PermitInv, PermitsConserved
<1>2. ASSUME NEW t \in Tasks, SearchEmpty(t) \/ Fetch(t) \/ SearchFails(t)
      PROVE  PermitInv'
  <2>1. Searching' = Searching \ {t} /\ t \in Searching
    BY <1>2 DEF SearchEmpty, Fetch, SearchFails, SetPhase, TypeOK, Searching, InSession
  <2>2. /\ IsFiniteSet(Searching')
        /\ Cardinality(Searching') = Cardinality(Searching) - 1
    BY <2>1, FS_RemoveElement DEF PermitInv
  <2>3. permits' = permits + 1
    BY <1>2 DEF SearchEmpty, Fetch, SearchFails
  <2> QED
    BY <1>0, <2>2, <2>3 DEF PermitInv, PermitsConserved
<1>3. ASSUME NEW t \in Tasks, PermitTimeout(t) \/ Search(t) \/ StoreOk(t)
                              \/ StoreFails(t) \/ MarkAttempted(t) \/ End(t)
      PROVE  PermitInv'
  <2>1. Searching' = Searching
    BY <1>3 DEF PermitTimeout, Search, StoreOk, StoreFails, MarkAttempted, End,
       SetPhase, TypeOK, Searching, InSession
  <2> QED
    BY <1>3, <2>1, <1>a DEF PermitTimeout, Search, StoreOk, StoreFails, MarkAttempted, End
<1>4. ASSUME NEW s \in Slugs, RefreshInBackground(s) PROVE PermitInv'
  <2>1. Searching' = Searching
    BY <1>4 DEF RefreshInBackground, Start, taskvars, TypeOK, Searching, InSession
  <2> QED
    BY <1>4, <2>1, <1>a DEF RefreshInBackground, Start, taskvars
<1>5. ASSUME UNCHANGED taskvars PROVE PermitInv'
  BY <1>5, <1>a DEF taskvars, Searching
<1>6. CASE Restart
  <2>1. Searching' = {} /\ permits' = MaxSearches
    BY <1>6 DEF Restart, Searching, InSession
  <2> QED
    BY <1>0, <2>1, FS_EmptySet DEF PermitInv, PermitsConserved
<1>7. ASSUME NEW s \in Slugs, Mail(s) \/ Web(s) \/ Age(s) PROVE PermitInv'
  BY <1>4, <1>5, <1>7 DEF Mail, Web, Arrive, Deliver, OnDelivered, Invalidate,
     ReadCache, ReadFails, Respond, Age
<1>8. CASE UNCHANGED vars
  BY <1>5, <1>8 DEF vars
<1> QED
  BY <1>1, <1>2, <1>3, <1>6, <1>7, <1>8 DEF Next, RefreshStep

LEMMA PermitInvariance == Spec => []PermitInv
<1>1. Init => PermitInv
  <2> SUFFICES ASSUME Init PROVE PermitInv
    OBVIOUS
  <2>1. Searching = {}
    BY DEF Init, Searching, InSession
  <2> QED
    BY <2>1, FS_EmptySet, RefreshConstants
       DEF Init, PermitInv, PermitsConserved, RefreshConstants
<1> QED
  BY <1>1, TypeCorrect, PermitStep, PTL DEF Spec

\* Every path of a refresh returns its permit exactly once, so IMAP searches
\* never exceed the configured cap and the semaphore never runs dry.
THEOREM SearchPermitsNeverLeak == Spec => []PermitsConserved
<1>1. PermitInv => PermitsConserved
  BY DEF PermitInv
<1> QED
  BY <1>1, PermitInvariance, PTL

\* With a cap of 0, which nothing rejects, no search is ever made: threads stay
\* as the cache holds them, and whoever waits runs into PERMIT_TIMEOUT.
THEOREM NoPermitsNoSearch ==
  ASSUME MaxSearches = 0
  PROVE  Spec => [](searched = {})
<1> DEFINE Unsearched == searched = {} /\ \A t \in Tasks : phase[t] \in {"idle", "waiting"}
<1>1. Init => Unsearched
  BY DEF Init
<1>2. TypeOK /\ PermitInv /\ Unsearched /\ [Next]_vars => Unsearched'
  <2> SUFFICES ASSUME TypeOK, PermitInv, Unsearched, [Next]_vars PROVE Unsearched'
    OBVIOUS
  <2>1. permits = 0
    <3>1. Cardinality(Searching) \in Nat /\ permits \in Nat
      BY FS_CardinalityType DEF PermitInv, TypeOK
    <3> QED
      BY <3>1 DEF PermitInv, PermitsConserved
  <2> USE DEF TypeOK, taskvars, pagevars, ghosts
  <2>2. ASSUME NEW s \in Slugs, Mail(s) \/ Web(s) \/ Age(s) PROVE Unsearched'
    BY <2>2 DEF Mail, Arrive, Deliver, OnDelivered, Web, Invalidate, ReadCache,
       ReadFails, Respond, Age, RefreshInBackground, Start
  <2>3. ASSUME NEW t \in Tasks, RefreshStep(t) PROVE Unsearched'
    BY <2>1, <2>3 DEF RefreshStep, AcquirePermit, PermitTimeout, Search, SearchEmpty,
       Fetch, SearchFails, InSession, StoreOk, StoreFails, MarkAttempted, End, SetPhase
  <2>4. CASE Restart \/ UNCHANGED vars
    BY <2>4 DEF Restart, vars
  <2> QED
    BY <2>2, <2>3, <2>4 DEF Next
<1> HIDE DEF Unsearched
<1>3. Unsearched => searched = {}
  BY DEF Unsearched
<1> QED
  BY <1>1, <1>2, <1>3, TypeCorrect, PermitInvariance, PTL DEF Spec

-----------------------------------------------------------------------------
(* What alone breaks the two promises the runs find broken *)

\* The hook met no refresh whose search was answered already.
HookInTime == \A s \in Slugs : OnDelivered(s) => ~PastSearch(s)

NoneLate == late = {}

\* But for a hook that finds a refresh past its search, a delivered comment
\* always re-searches its thread: what else prevents it is a refresh that comes
\* to no result, or a restart.
THEOREM HookInTimeReSearches ==
  Spec /\ [][HookInTime]_vars => []HookAlwaysReSearches
<1>1. Init => NoneLate
  BY DEF Init, NoneLate
<1>2. NoneLate /\ [Next]_vars /\ [HookInTime]_vars => NoneLate'
  <2> SUFFICES ASSUME NoneLate, [Next]_vars, [HookInTime]_vars PROVE NoneLate'
    OBVIOUS
  <2>1. ASSUME NEW s \in Slugs, OnDelivered(s), HookInTime PROVE NoneLate'
    BY <2>1 DEF HookInTime, OnDelivered, NoneLate
  <2>2. CASE UNCHANGED late
    BY <2>2 DEF NoneLate
  <2>3. ASSUME NEW s \in Slugs, Arrive(s) \/ Deliver(s) \/ Web(s) \/ Age(s)
        PROVE  UNCHANGED late
    BY <2>3 DEF Arrive, Deliver, Web, Invalidate, ReadCache, ReadFails, Respond, Age, ghosts
  <2>4. ASSUME NEW t \in Tasks, RefreshStep(t) PROVE UNCHANGED late
    BY <2>4 DEF RefreshStep, AcquirePermit, PermitTimeout, Search, SearchEmpty, Fetch,
       SearchFails, StoreOk, StoreFails, MarkAttempted, End, ghosts
  <2>5. CASE Restart \/ UNCHANGED vars
    BY <2>5 DEF NoneLate, Restart, vars, ghosts
  <2> QED
    BY <2>1, <2>2, <2>3, <2>4, <2>5 DEF Next, Mail, vars, ghosts
<1>3. NoneLate /\ HookReSearches => HookAlwaysReSearches
  BY DEF NoneLate, HookReSearches, HookAlwaysReSearches
<1> QED
  BY <1>1, <1>2, <1>3, DeliveredReSearches, PTL DEF Spec

\* No search of the thread s fails.
NoFailure(s) == \A t \in Tasks : subject[t] = s => ~SearchFails(t)

\* Then its entry is only ever fresh, or seen fresh, after a completed search.
FreshIsSearched(s) ==
  /\ \A t \in Tasks : subject[t] = s => phase[t] # "failed"
  /\ refreshed[s] # "never" => s \in searched
  /\ page[s] # "closed" /\ ~stale[s] => s \in searched

ConfirmedFor(s) == page[s] = "shown" /\ rows[s] = 0 /\ ~stale[s] => s \in searched

LEMMA FreshStep ==
  ASSUME NEW s \in Slugs
  PROVE  TypeOK /\ FreshIsSearched(s) /\ [Next]_vars /\ [NoFailure(s)]_vars
           => FreshIsSearched(s)'
<1> SUFFICES ASSUME TypeOK, FreshIsSearched(s), [Next]_vars, [NoFailure(s)]_vars
             PROVE  FreshIsSearched(s)'
  OBVIOUS
<1> USE DEF TypeOK, FreshIsSearched, taskvars, pagevars, ghosts
<1>1. ASSUME NEW u \in Slugs, Mail(u) \/ Age(u) PROVE FreshIsSearched(s)'
  <2>1. CASE Arrive(u) \/ Deliver(u)
    BY <2>1 DEF Arrive, Deliver
  <2>2. CASE OnDelivered(u)
    BY <2>2 DEF OnDelivered, RefreshInBackground, Start
  <2>3. CASE Age(u)
    BY <2>3 DEF Age
  <2> QED
    BY <1>1, <2>1, <2>2, <2>3 DEF Mail
<1>2. ASSUME NEW u \in Slugs, Web(u) PROVE FreshIsSearched(s)'
  <2>1. CASE Invalidate(u)
    BY <2>1 DEF Invalidate
  <2>2. CASE ReadCache(u)
    <3>1. CASE u = s
      <4>1. PICK unread \in BOOLEAN : stale'[s] = (unread \/ refreshed[s] # "fresh")
        BY <2>2, <3>1, Zenon DEF ReadCache
      <4>2. ~stale'[s] => refreshed[s] = "fresh"
        BY <4>1
      <4> QED
        BY <2>2, <4>2 DEF ReadCache
    <3>2. CASE u # s
      <4>1. page'[s] = page[s] /\ stale'[s] = stale[s]
        BY <2>2, <3>2, Zenon DEF ReadCache
      <4> QED
        BY <2>2, <4>1 DEF ReadCache
    <3> QED
      BY <3>1, <3>2
  <2>4. CASE ReadFails(u)
    BY <2>4 DEF ReadFails
  <2>3. CASE Respond(u)
    BY <2>3 DEF Respond, RefreshInBackground, Start
  <2> QED
    BY <1>2, <2>1, <2>2, <2>3, <2>4 DEF Web
<1>3. ASSUME NEW t \in Tasks, SearchFails(t) PROVE FreshIsSearched(s)'
  <2>1. subject[t] # s
    <3>1. CASE NoFailure(s)
      BY <1>3, <3>1 DEF NoFailure
    <3>2. CASE UNCHANGED vars
      BY <1>3, <3>2 DEF vars, SearchFails, SetPhase, InSession
    <3> QED
      BY <3>1, <3>2
  <2> QED
    BY <1>3, <2>1 DEF SearchFails, SetPhase
<1>4. ASSUME NEW t \in Tasks, RefreshStep(t), ~SearchFails(t) PROVE FreshIsSearched(s)'
  BY <1>4 DEF RefreshStep, AcquirePermit, PermitTimeout, Search, SearchEmpty, Fetch,
     StoreOk, StoreFails, MarkAttempted, End, SetPhase
<1>5. CASE Restart \/ UNCHANGED vars
  BY <1>5 DEF Restart, vars
<1> QED
  BY <1>1, <1>2, <1>3, <1>4, <1>5 DEF Next

\* A page says "no comments yet" about a thread nobody searched only after a
\* search of that thread failed: no other interleaving, no other failure and no
\* restart brings it about.
THEOREM OnlyFailedSearchesMislead ==
  ASSUME NEW s \in Slugs
  PROVE  Spec /\ [][NoFailure(s)]_vars => []ConfirmedFor(s)
<1>1. Init => FreshIsSearched(s)
  BY DEF Init, FreshIsSearched
<1>2. FreshIsSearched(s) => ConfirmedFor(s)
  BY DEF FreshIsSearched, ConfirmedFor
<1> QED
  BY <1>1, <1>2, TypeCorrect, FreshStep, PTL DEF Spec
=============================================================================

-------------------------- MODULE HeartbeatProofs --------------------------
(***************************************************************************)
(* The stall check raises no false alarm, for every choice of the sweep    *)
(* interval, the timeouts, the limit and the number of comments.           *)
(*                                                                         *)
(* The argument is an account of the time since the last sweep.  As long   *)
(* as no session was slow, a delivery has spent it waiting for at most     *)
(* PERMIT_TIMEOUT and then sending for at most DeliveryTimeout; the worker *)
(* slept for at most SweepInterval after the last delivery; and all the    *)
(* rest is in late.                                                        *)
(***************************************************************************)
EXTENDS Heartbeat, TLAPS

\* The time a delivery has taken, by what it is doing.
Accounted(c) ==
  /\ delivery[c] = "spawned" => gap <= late
  /\ delivery[c] = "waiting" => gap <= age[c] + late
  /\ delivery[c] = "sending" => gap <= PERMIT_TIMEOUT + age[c] + late

\* The longest a sweep may take if nothing is late.
Longest == PERMIT_TIMEOUT + DeliveryTimeout

Account ==
  /\ phase = "deliver" => gap <= Longest + late /\ \A c \in Comments : Accounted(c)
  /\ phase = "sleep" => gap <= Longest + slept + late
  /\ phase = "sweep" => gap <= Longest + SweepInterval + late

AgesBounded ==
  \A c \in Comments : /\ delivery[c] = "waiting" => age[c] <= PERMIT_TIMEOUT
                      /\ delivery[c] = "sending" => age[c] <= DeliveryTimeout

\* Nothing is accounted for once an excuse holds.
Excused == slow # {} \/ late > 2 * SweepInterval

Inv == TypeOK /\ AgesBounded /\ (Excused \/ Account)

-----------------------------------------------------------------------------
(* Type correctness *)

LEMMA NatConstants ==
  /\ SweepInterval \in Nat /\ PERMIT_TIMEOUT \in Nat
  /\ DeliveryTimeout \in Nat /\ MaxDeliveries \in Nat
BY HeartbeatConstants DEF HeartbeatConstants

LEMMA InitType == Init => TypeOK
BY NatConstants DEF Init, TypeOK, NoDeliveries, Done, Waits, Overdue

LEMMA TypeStep == TypeOK /\ [Next]_vars => TypeOK'
<1> SUFFICES ASSUME TypeOK, [Next]_vars PROVE TypeOK'
  OBVIOUS
<1> USE NatConstants DEF TypeOK, Done, Waits, Overdue, RecordSweep, KeepHeartbeat
<1>1. CASE Submit
  BY <1>1 DEF Submit
<1>2. CASE Exit \/ Wake
  BY <1>2 DEF Exit, Wake
<1>3. CASE Sweep
  BY <1>3 DEF Sweep
<1>4. CASE SweepFails
  BY <1>4 DEF SweepFails, Rest
<1>5. CASE Join
  BY <1>5 DEF Join, Rest, NoDeliveries
<1>6. ASSUME NEW c \in Comments, Deliver(c) PROVE TypeOK'
  <2> USE DEF Attempt
  <2>1. CASE StartAttempt(c) \/ Remove(c)
    BY <2>1 DEF StartAttempt, Remove
  <2>2. CASE AcquirePermit(c)
    BY <2>2 DEF AcquirePermit
  <2>3. CASE TimesOut(c)
    BY <2>3 DEF TimesOut
  <2>4. CASE SessionEnds(c)
    BY <2>4 DEF SessionEnds
  <2> QED
    BY <1>6, <2>1, <2>2, <2>3, <2>4 DEF Deliver
<1>7. CASE Tick
  <2>1. gap' \in Nat /\ late' \in Nat /\ slow' \subseteq Comments
    BY <1>7 DEF Tick, MaxGap, Grace
  <2>2. age' \in [Comments -> Nat] /\ slept' \in 0..SweepInterval
    BY <1>7 DEF Tick
  <2> QED
    BY <1>7, <2>1, <2>2 DEF Tick
<1>8. CASE UNCHANGED vars
  BY <1>8 DEF vars
<1>9. CASE Crash
  BY <1>9 DEF Crash, NoDeliveries
<1> QED
  BY <1>1, <1>2, <1>3, <1>4, <1>5, <1>6, <1>7, <1>8, <1>9 DEF Next, Loop

\* Every variable keeps its type.
THEOREM TypeCorrect == Spec => []TypeOK
BY InitType, TypeStep, PTL DEF Spec

-----------------------------------------------------------------------------
(* The account *)

LEMMA DeliverInv ==
  ASSUME Inv, TypeOK', NEW c \in Comments, Deliver(c)
  PROVE  Inv'
<1>0. TypeOK
  BY DEF Inv
<1> USE <1>0, NatConstants DEF TypeOK, KeepHeartbeat, Attempt
<1> DEFINE Moves(from, to) ==
      /\ phase = "deliver" /\ delivery[c] = from
      /\ delivery' = [delivery EXCEPT ![c] = to]
      /\ age' = [age EXCEPT ![c] = 0]
      /\ UNCHANGED <<phase, slept, gap, late, slow>>
<1>1. \/ \E next \in {"waiting", "removing"} : Moves("spawned", next)
      \/ Moves("waiting", "sending")
      \/ age[c] = PERMIT_TIMEOUT /\ Moves("waiting", "kept")
      \/ \E next \in {"left", "kept", "removing"} : Moves("sending", next)
      \/ \E next \in {"left", "kept"} : Moves("removing", next)
  BY DEF Deliver, StartAttempt, AcquirePermit, TimesOut, SessionEnds, Remove
<1>2. AgesBounded'
  BY <1>1 DEF Inv, AgesBounded
<1>3. Excused => Excused'
  BY <1>1 DEF Excused
<1>4. ASSUME Account PROVE Account'
  <2>1. (gap <= Longest + late)' /\ phase' = "deliver"
    BY <1>1, <1>4 DEF Account, Longest
  <2>2. ASSUME NEW d \in Comments PROVE Accounted(d)'
    <3>1. CASE d # c
      BY <1>1, <1>4, <3>1 DEF Account, Accounted
    <3>2. CASE d = c
      BY <1>1, <1>4, <3>2 DEF Account, Accounted, Inv, AgesBounded
    <3> QED
      BY <3>1, <3>2
  <2> QED
    BY <2>1, <2>2 DEF Account
<1> QED
  BY <1>2, <1>3, <1>4 DEF Inv

LEMMA TickInv ==
  ASSUME Inv, TypeOK', Tick
  PROVE  Inv'
<1>0. TypeOK
  BY DEF Inv
<1> USE <1>0, NatConstants DEF TypeOK
<1>1. AgesBounded'
  BY DEF Inv, AgesBounded, Tick, AgeLimit, Waits
<1>2. CASE Excused
  BY <1>1, <1>2 DEF Inv, Excused, Tick
<1>3. CASE ~Excused
  <2>1. gap' <= gap + 1 /\ gap' \in Nat
    BY DEF Tick, MaxGap, Grace
  <2>2. late' = IF Due THEN late + 1 ELSE late
    BY <1>3 DEF Excused, Tick
  <2>3. Account /\ slow = {}
    BY <1>3 DEF Inv, Excused
  <2>4. SUFFICES ASSUME slow' = {} PROVE Account'
    BY <1>1, <2>4 DEF Inv, Excused
  <2>5. CASE phase = "deliver"
    <3>1. ASSUME NEW c \in Comments PROVE Accounted(c)'
      <4>1. CASE delivery[c] = "spawned"
        <5>1. Due
          BY <2>5, <4>1 DEF Due, Overdue
        <5> QED
          BY <2>1, <2>2, <2>3, <2>5, <4>1, <5>1 DEF Account, Accounted, Tick
      <4>2. CASE delivery[c] = "waiting"
        <5>1. Due \/ age[c] < PERMIT_TIMEOUT
          BY <2>5, <4>2 DEF Due, Inv, AgesBounded
        <5>2. age'[c] = IF age[c] < PERMIT_TIMEOUT THEN age[c] + 1 ELSE age[c]
          BY <4>2 DEF Tick, Waits, AgeLimit
        <5> QED
          BY <2>1, <2>2, <2>3, <2>5, <4>2, <5>1, <5>2 DEF Account, Accounted, Tick
      <4>3. CASE delivery[c] = "sending"
        <5>1. age[c] < DeliveryTimeout
          BY <2>4, <4>3 DEF Tick, Inv, AgesBounded
        <5>2. age'[c] = age[c] + 1
          BY <4>3, <5>1 DEF Tick, Waits, AgeLimit
        <5> QED
          BY <2>1, <2>2, <2>3, <2>5, <4>3, <5>2 DEF Account, Accounted, Tick
      <4> QED
        BY <4>1, <4>2, <4>3 DEF Accounted, Tick
    <3>2. (gap <= Longest + late)'
      <4>1. CASE Due
        BY <2>1, <2>2, <2>3, <2>5, <4>1 DEF Account, Longest
      <4>2. CASE ~Due
        <5>1. PICK c \in Comments : delivery[c] \in Waits
          BY <2>5, <4>2 DEF Due, Joined, Waits, Overdue, Done
        <5>2. CASE delivery[c] = "waiting"
          <6>1. age[c] < PERMIT_TIMEOUT
            BY <2>5, <4>2, <5>2 DEF Due, Inv, AgesBounded
          <6> QED
            BY <2>1, <2>2, <2>3, <2>5, <4>2, <5>2, <6>1
               DEF Account, Accounted, Longest
        <5>3. CASE delivery[c] = "sending"
          <6>1. age[c] < DeliveryTimeout
            BY <2>4, <5>3 DEF Tick, Inv, AgesBounded
          <6> QED
            BY <2>1, <2>2, <2>3, <2>5, <4>2, <5>3, <6>1
               DEF Account, Accounted, Longest
        <5> QED
          BY <5>1, <5>2, <5>3 DEF Waits
      <4> QED
        BY <4>1, <4>2
    <3> QED
      BY <2>5, <3>1, <3>2 DEF Account, Tick
  <2>6. CASE phase = "sleep"
    BY <2>1, <2>2, <2>3, <2>6 DEF Account, Longest, Due, Tick
  <2>7. CASE phase = "sweep"
    BY <2>1, <2>2, <2>3, <2>7 DEF Account, Longest, Due, Tick
  <2> QED
    BY <2>5, <2>6, <2>7 DEF Tick
<1> QED
  BY <1>2, <1>3

\* A sleeper's gap still fits when it has slept for the whole interval, and
\* that of a fresh heartbeat fits anyway.
LEMMA GapFits ==
  ASSUME NEW g \in Nat, NEW s \in 0..SweepInterval, NEW l \in Nat
  PROVE  /\ 0 <= Longest + SweepInterval + l /\ 0 <= Longest + s + l /\ 0 <= Longest + l
         /\ g <= Longest + s + l => g <= Longest + SweepInterval + l
         /\ g <= Longest + l => /\ g <= Longest + SweepInterval + l
                                /\ g <= Longest + s + l
BY NatConstants DEF Longest

LEMMA LoopInv ==
  ASSUME Inv, TypeOK', Submit \/ Loop
  PROVE  Inv'
<1>1. /\ gap \in Nat /\ late \in Nat /\ slept \in 0..SweepInterval
      /\ gap' \in Nat /\ late' \in Nat /\ slept' \in 0..SweepInterval
  BY DEF Inv, TypeOK
<1>2. AgesBounded'
  BY DEF Inv, AgesBounded, Submit, Loop, Exit, Wake, Sweep, SweepFails, Join,
         NoDeliveries
<1>3. ASSUME gap' = 0, phase' # "deliver" PROVE Account'
  BY <1>1, <1>3, GapFits DEF Account
<1>4. ASSUME UNCHANGED <<gap, late, slow>>, Account => Account' PROVE Inv'
  BY <1>2, <1>4 DEF Inv, Excused
<1>5. CASE Submit \/ Exit \/ Wake
  <2>1. CASE RecordSweep /\ phase' = "sweep"
    BY <1>2, <1>3, <2>1 DEF Inv, RecordSweep
  <2>2. CASE /\ KeepHeartbeat
             /\ phase' = "none" \/ (phase = "sleep" /\ phase' = "sweep")
    BY <1>1, <1>4, <2>2, GapFits DEF KeepHeartbeat, Account
  <2>3. CASE Submit
    BY <2>1, <2>2, <2>3 DEF Submit
  <2>4. CASE Exit \/ Wake
    BY <2>2, <2>4 DEF Exit, Wake
  <2> QED
    BY <1>5, <2>3, <2>4
<1>6. CASE Sweep
  <2>1. \A c \in Comments : Accounted(c)'
    BY <1>1, <1>6 DEF Sweep, Accounted, RecordSweep, Inv, TypeOK
  <2>2. Account'
    BY <1>1, <1>6, <2>1, GapFits DEF Sweep, Account, RecordSweep
  <2> QED
    BY <1>2, <2>2 DEF Inv
<1>7. CASE SweepFails
  BY <1>2, <1>3, <1>7 DEF SweepFails, Rest, RecordSweep, Inv
<1>8. CASE Join
  <2>1. ASSUME Account PROVE gap' <= Longest + late'
    BY <1>8, <2>1 DEF Join, Account, KeepHeartbeat
  <2>2. ASSUME gap' <= Longest + late', phase' # "deliver" PROVE Account'
    BY <1>1, <2>2, GapFits DEF Account
  <2> QED
    BY <1>4, <1>8, <2>1, <2>2 DEF Join, Rest, KeepHeartbeat
<1> QED
  BY <1>5, <1>6, <1>7, <1>8 DEF Loop

LEMMA InitInv == Init => Inv
BY InitType, NatConstants
   DEF Init, NoDeliveries, Inv, AgesBounded, Excused, Account

\* A dead process starts over.
LEMMA CrashInv ==
  ASSUME Inv, Crash
  PROVE  Inv'
BY NatConstants
   DEF Crash, NoDeliveries, Inv, TypeOK, Done, AgesBounded, Excused, Account

LEMMA StutterInv ==
  ASSUME Inv, UNCHANGED vars
  PROVE  Inv'
BY DEF Inv, TypeOK, AgesBounded, Excused, Account, Accounted, vars

\* The account is kept in every reachable state.
THEOREM Invariance == Spec => []Inv
<1>1. Inv /\ [Next]_vars => Inv'
  <2> SUFFICES ASSUME Inv, [Next]_vars PROVE Inv'
    OBVIOUS
  <2>1. TypeOK'
    BY TypeStep DEF Inv
  <2>2. CASE Submit \/ Loop
    BY <2>1, <2>2, LoopInv
  <2>3. ASSUME NEW c \in Comments, Deliver(c) PROVE Inv'
    BY <2>1, <2>3, DeliverInv
  <2>4. CASE Tick
    BY <2>1, <2>4, TickInv
  <2>5. CASE UNCHANGED vars
    BY <2>5, StutterInv
  <2>6. CASE Crash
    BY <2>6, CrashInv
  <2> QED
    BY <2>2, <2>3, <2>4, <2>5, <2>6 DEF Next
<1> QED
  BY InitInv, <1>1, PTL DEF Spec

\* A worker whose sessions keep their timeout, and whose steps are late by no
\* more than two intervals in all, is never reported as stalled.
THEOREM NoFalseAlarms == Spec => []NoFalseAlarm
<1>1. Inv => NoFalseAlarm
  BY NatConstants
     DEF Inv, TypeOK, NoFalseAlarm, ReportsStall, MaxGap, Grace, Excused, Account,
         Longest
<1> QED
  BY <1>1, Invariance, PTL
-----------------------------------------------------------------------------
(* The other direction, as far as it is safety.  HungIsReported needs that  *)
(* time passes, and is checked by TLC; that nothing can keep the time of a  *)
(* hung session from showing in the heartbeat is proved here.               *)

\* There is a delivery under way only while the worker waits for deliveries.
OnlyWhileDelivering ==
  \A c \in Comments : delivery[c] \in Waits \cup Overdue => phase = "deliver"

LEMMA OnlyWhileDeliveringStep ==
  TypeOK /\ OnlyWhileDelivering /\ [Next]_vars => OnlyWhileDelivering'
<1> SUFFICES ASSUME TypeOK, OnlyWhileDelivering, [Next]_vars
             PROVE  OnlyWhileDelivering'
  OBVIOUS
<1> USE DEF TypeOK, OnlyWhileDelivering, Waits, Overdue
<1>1. CASE Submit \/ Exit \/ Wake
  BY <1>1 DEF Submit, Exit, Wake
<1>2. CASE Sweep \/ SweepFails
  BY <1>2 DEF Sweep, SweepFails
<1>3. CASE Join \/ Crash
  BY <1>3 DEF Join, Crash, NoDeliveries
<1>4. ASSUME NEW c \in Comments, Deliver(c) PROVE OnlyWhileDelivering'
  BY <1>4 DEF Deliver, Attempt, StartAttempt, AcquirePermit, TimesOut, SessionEnds,
     Remove
<1>5. CASE Tick \/ UNCHANGED vars
  BY <1>5 DEF Tick, vars
<1> QED
  BY <1>1, <1>2, <1>3, <1>4, <1>5 DEF Next, Loop

\* While the session of c stays open, the heartbeat only ages, by every tick
\* until it is past MaxGap, and a stall that is reported stays reported.
HungShows(c) ==
  delivery[c] = "sending" /\ delivery'[c] = "sending" =>
    /\ gap' >= gap
    /\ Tick => gap' = gap + 1 \/ gap > MaxGap
    /\ ReportsStall => ReportsStall'
    /\ gap > MaxGap => ReportsStall'

\* Whatever is submitted, swept, joined or delivered besides, a session that
\* stays open brings the worker closer to being reported as stalled with every
\* tick, and nothing but its end takes the report back.
THEOREM HungSessionsShow ==
  ASSUME NEW c \in Comments
  PROVE  Spec => [][HungShows(c)]_vars
<1>1. Init => OnlyWhileDelivering
  BY DEF Init, NoDeliveries, OnlyWhileDelivering, Waits, Overdue
<1>2. Inv => TypeOK
  BY DEF Inv
<1>3. TypeOK /\ OnlyWhileDelivering /\ [Next]_vars => [HungShows(c)]_vars
  <2> SUFFICES ASSUME TypeOK, OnlyWhileDelivering, [Next]_vars,
                      delivery[c] = "sending", delivery'[c] = "sending"
               PROVE  /\ gap' >= gap
                      /\ Tick => gap' = gap + 1 \/ gap > MaxGap
                      /\ ReportsStall => ReportsStall'
                      /\ gap > MaxGap => ReportsStall'
    BY DEF HungShows
  <2>1. phase = "deliver" /\ gap \in Nat /\ MaxGap \in Nat
    BY NatConstants DEF OnlyWhileDelivering, Waits, TypeOK, MaxGap, Grace
  <2>2. ASSUME phase' = "deliver", gap' = gap
        PROVE  gap' >= gap /\ (gap > MaxGap => ReportsStall')
    BY <2>1, <2>2 DEF ReportsStall, MaxGap
  <2>3. ~Submit /\ ~Loop /\ ~Crash
    BY <2>1 DEF Submit, Loop, Exit, Sweep, SweepFails, Join, Wake, Joined, Done,
       Crash, NoDeliveries
  <2>4. CASE Tick
    <3>1. phase' = "deliver" /\ gap' = IF gap <= MaxGap THEN gap + 1 ELSE gap
      BY <2>1, <2>4 DEF Tick
    <3> QED
      BY <2>1, <3>1 DEF ReportsStall, MaxGap
  <2>5. ASSUME NEW d \in Comments, Deliver(d) PROVE phase' = "deliver" /\ gap' = gap
    BY <2>1, <2>5 DEF Deliver, Attempt, StartAttempt, AcquirePermit, TimesOut,
       SessionEnds, Remove, KeepHeartbeat
  <2>6. CASE ~Tick
    <3>1. phase' = "deliver" /\ gap' = gap
      BY <2>1, <2>3, <2>5, <2>6 DEF Next, vars
    <3> QED
      BY <2>2, <2>6, <3>1 DEF ReportsStall
  <2> QED
    BY <2>4, <2>6
<1> QED
  BY <1>1, <1>2, <1>3, Invariance, OnlyWhileDeliveringStep, PTL DEF Spec
=============================================================================

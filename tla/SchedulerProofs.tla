--------------------------- MODULE SchedulerProofs ---------------------------
(***************************************************************************)
(* The scheduler implements a set of timers, for every set of sources,     *)
(* every interval and every persisted time.                                *)
(*                                                                         *)
(* The argument is the invariant IInv: the key set and the deadline map    *)
(* agree, and behind every scheduled key there is a heap entry with its    *)
(* current deadline.  With it, the entries that count as live are exactly  *)
(* the armed timers, so that popping the due live entries fires the due    *)
(* timers and no others, and the earliest live entry is the earliest timer.*)
(***************************************************************************)
EXTENDS Scheduler, WellFoundedInduction, TLAPS

IInv == TypeOK /\ NoLostWakeup /\ KeysMatchDeadlines

(* Earliest is well defined: a set of moments that is not empty has a      *)
(* smallest one.                                                           *)
LEMMA SmallestExists ==
  ASSUME NEW S, S \subseteq Nat, S # {}
  PROVE  \E t \in S : \A u \in S : t <= u
  <1> DEFINE R == OpToRel(<, Nat)
  <1>1. R = {ss \in Nat \X Nat : ss[1] < ss[2]}
    BY DEF OpToRel
  <1>2. PICK t \in S : \A u \in S : <<u, t>> \notin R
    <2> HIDE DEF R
    <2> QED BY NatLessThanWellFounded, WFMin DEF R
  <1>3. \A u \in S : ~(u < t)
    BY <1>1, <1>2
  <1> QED BY <1>3

(* The delays the scheduler computes are moments from now on: no timer of  *)
(* the abstract specification is armed in the past.                        *)
LEMMA DelaysAreNatural == Delays \subseteq Nat
  <1>1. \A i \in Intervals : Jittered(i) \subseteq Nat
    BY SchedulerAssumption DEF Jittered
  <1>2. \A o \in Offsets, i \in Intervals : PersistedDelay(o, i) \in Nat
    BY SchedulerAssumption DEF PersistedDelay
  <1> QED BY <1>1, <1>2 DEF Delays

(* Arming keeps the invariant: the new entry carries the new deadline, and *)
(* no other key loses its own.                                             *)
LEMMA PushedKeepsIInv ==
  ASSUME IInv, NEW k \in Keys, NEW d \in Nat, Pushed(k, d), UNCHANGED <<now, answers>>
  PROVE  IInv'
  <1> USE SchedulerAssumption
  <1>1. now + d \in Nat
    BY DEF IInv, TypeOK
  <1>2. TypeOK'
    BY <1>1 DEF IInv, TypeOK, Pushed, answers, Entry
  <1>3. NoLostWakeup'
    BY DEF IInv, TypeOK, NoLostWakeup, Pushed
  <1>4. KeysMatchDeadlines'
    BY <1>1 DEF IInv, TypeOK, KeysMatchDeadlines, Pushed
  <1> QED BY <1>2, <1>3, <1>4 DEF IInv

LEMMA InitIInv == Init => IInv
  BY SchedulerAssumption DEF Init, IInv, TypeOK, NoLostWakeup, KeysMatchDeadlines, Entry

LEMMA StepIInv == IInv /\ [Next]_vars => IInv'
  <1> SUFFICES ASSUME IInv, [Next]_vars PROVE IInv'
    OBVIOUS
  <1> USE SchedulerAssumption
  <1>1. ASSUME NEW k \in Keys, ScheduleImmediate(k) PROVE IInv'
    BY <1>1, PushedKeepsIInv DEF ScheduleImmediate, RemovedAndScheduled
  <1>2. ASSUME NEW k \in Keys, Remove(k) PROVE IInv'
    BY <1>2 DEF IInv, TypeOK, NoLostWakeup, KeysMatchDeadlines, Remove, answers
  <1>3. ASSUME NEW k \in Keys, NEW i \in Intervals, Reschedule(k, i) PROVE IInv'
    <2>1. PICK d \in Jittered(i) : RemovedAndScheduled(k, d)
      BY <1>3 DEF Reschedule
    <2>2. d \in Nat
      BY DEF Jittered
    <2> QED BY <2>1, <2>2, PushedKeepsIInv DEF RemovedAndScheduled
  <1>4. ASSUME NEW k \in Keys, NEW o \in Offsets, NEW i \in Intervals,
               ScheduleFromPersisted(k, o, i)
        PROVE  IInv'
    <2>1. PersistedDelay(o, i) \in Nat
      BY DEF PersistedDelay
    <2>2. CASE k \in scheduled
      BY <1>4, <2>2 DEF ScheduleFromPersisted, Schedule, queue, answers,
                        IInv, TypeOK, NoLostWakeup, KeysMatchDeadlines
    <2>3. CASE k \notin scheduled
      BY <1>4, <2>1, <2>3, PushedKeepsIInv DEF ScheduleFromPersisted, Schedule
    <2> QED BY <2>2, <2>3
  <1>5. ASSUME PopDue PROVE IInv'
    <2> DEFINE popped == {e.key : e \in {f \in heap : f.at <= now /\ Live(f)}}
    <2>1. /\ due' = popped
          /\ heap' = {e \in heap : e.at > now}
          /\ scheduled' = scheduled \ popped
          /\ deadline' = [k \in Keys |-> IF k \in popped THEN Off ELSE deadline[k]]
          /\ UNCHANGED <<now, wake>>
      BY <1>5 DEF PopDue
    <2>2. popped \subseteq scheduled
      BY DEF Live
    <2>3. TypeOK'
      BY <2>1, <2>2 DEF IInv, TypeOK
    <2>4. KeysMatchDeadlines'
      BY <2>1, <2>2 DEF IInv, TypeOK, KeysMatchDeadlines
    <2>5. NoLostWakeup'
      <3> SUFFICES ASSUME NEW k \in scheduled, k \notin popped
                   PROVE  [at |-> deadline[k], key |-> k] \in heap'
        BY <2>1 DEF IInv, TypeOK, NoLostWakeup
      <3> DEFINE e == [at |-> deadline[k], key |-> k]
      <3>1. e \in heap /\ e.at = deadline[k] /\ e.key = k
        BY DEF IInv, NoLostWakeup
      <3>2. Live(e)
        BY <3>1 DEF Live
      <3>3. ~(e.at <= now)
        BY <3>1, <3>2
      <3>4. e.at \in Nat /\ now \in Nat
        BY <3>1 DEF IInv, TypeOK, Entry
      <3>5. e.at > now
        BY <3>3, <3>4
      <3> QED BY <2>1, <3>1, <3>5
    <2> QED BY <2>3, <2>4, <2>5 DEF IInv
  <1>6. ASSUME NextDueIn PROVE IInv'
    <2>1. TypeOK'
      <3>1. WakeAt \in Nat \union {Off}
        <4> DEFINE S == {e.at : e \in {f \in heap : Live(f)}}
        <4>1. S \subseteq Nat
          BY DEF IInv, TypeOK, Entry
        <4>2. CASE S = {}
          BY <4>2 DEF WakeAt, Earliest
        <4>3. CASE S # {}
          <5>1. \E t \in S : \A u \in S : t <= u
            BY <4>1, <4>3, SmallestExists
          <5> QED BY <4>1, <4>3, <5>1 DEF WakeAt, Earliest
        <4> QED BY <4>2, <4>3
      <3> QED BY <1>6, <3>1 DEF NextDueIn, IInv, TypeOK
    <2>2. NoLostWakeup'
      <3> SUFFICES ASSUME NEW k \in scheduled
                   PROVE  [at |-> deadline[k], key |-> k] \in heap'
        BY <1>6 DEF NextDueIn, NoLostWakeup
      <3> DEFINE e == [at |-> deadline[k], key |-> k]
      <3>1. e \in heap /\ Live(e)
        BY DEF IInv, NoLostWakeup, Live
      <3>2. e.at <= e.at
        BY <3>1 DEF IInv, TypeOK, Entry
      <3> QED BY <1>6, <3>1, <3>2 DEF NextDueIn
    <2>3. KeysMatchDeadlines'
      BY <1>6 DEF NextDueIn, IInv, KeysMatchDeadlines
    <2> QED BY <2>1, <2>2, <2>3 DEF IInv
  <1>7. ASSUME Tick PROVE IInv'
    BY <1>7 DEF Tick, queue, answers, IInv, TypeOK, NoLostWakeup, KeysMatchDeadlines
  <1>8. CASE UNCHANGED vars
    BY <1>8 DEF vars, queue, answers, IInv, TypeOK, NoLostWakeup, KeysMatchDeadlines
  <1> QED BY <1>1, <1>2, <1>3, <1>4, <1>5, <1>6, <1>7, <1>8 DEF Next
(* The types of the scheduler's state, whatever the sources are.           *)
THEOREM TypeCorrect == Spec => []TypeOK
  <1>1. IInv => TypeOK
    BY DEF IInv
  <1> QED BY <1>1, InitIInv, StepIInv, PTL DEF Spec

(* No check is ever lost to lazy deletion.                                 *)
THEOREM NoLostWakeupAlways == Spec => []NoLostWakeup
  <1>1. IInv => NoLostWakeup
    BY DEF IInv
  <1> QED BY <1>1, InitIInv, StepIInv, PTL DEF Spec

-----------------------------------------------------------------------------
(* The live entries of the heap are the armed timers.                      *)
LEMMA LiveEntriesAreTimers ==
  ASSUME IInv
  PROVE  /\ \A e \in heap : Live(e) => deadline[e.key] = e.at /\ deadline[e.key] # Off
         /\ \A k \in Keys : deadline[k] # Off =>
               \E e \in heap : Live(e) /\ e.key = k /\ e.at = deadline[k]
  <1>1. ASSUME NEW e \in heap, Live(e) PROVE deadline[e.key] = e.at /\ deadline[e.key] # Off
    BY <1>1 DEF Live, IInv, TypeOK, Entry, KeysMatchDeadlines
  <1>2. ASSUME NEW k \in Keys, deadline[k] # Off
        PROVE  \E e \in heap : Live(e) /\ e.key = k /\ e.at = deadline[k]
    <2>1. k \in scheduled
      BY <1>2 DEF IInv, KeysMatchDeadlines
    <2>2. [at |-> deadline[k], key |-> k] \in heap
      BY <2>1 DEF IInv, NoLostWakeup
    <2> QED BY <2>1, <2>2 DEF Live
  <1> QED BY <1>1, <1>2

LEMMA PushedArms ==
  ASSUME IInv, NEW k \in Keys, NEW d \in Delays, Pushed(k, d), UNCHANGED <<now, answers>>
  PROVE  T!TimersNext
  <1>1. T!Arm(k, now + d)
    BY DEF Pushed, answers, T!Arm
  <1> QED BY <1>1 DEF T!TimersNext

LEMMA StepImplements == IInv /\ [Next]_vars => [T!TimersNext]_(T!timers)
  <1> SUFFICES ASSUME IInv, [Next]_vars PROVE T!TimersNext \/ UNCHANGED T!timers
    OBVIOUS
  <1> USE SchedulerAssumption
  <1>1. ASSUME NEW k \in Keys, ScheduleImmediate(k) PROVE T!TimersNext
    <2>1. 0 \in Delays
      BY DEF Delays
    <2> QED BY <1>1, <2>1, PushedArms DEF ScheduleImmediate, RemovedAndScheduled
  <1>2. ASSUME NEW k \in Keys, Remove(k) PROVE T!TimersNext
    BY <1>2 DEF Remove, answers, T!TimersNext, T!Disarm
  <1>3. ASSUME NEW k \in Keys, NEW i \in Intervals, Reschedule(k, i) PROVE T!TimersNext
    <2>1. PICK d \in Jittered(i) : RemovedAndScheduled(k, d)
      BY <1>3 DEF Reschedule
    <2>2. d \in Delays
      BY DEF Delays
    <2> QED BY <2>1, <2>2, PushedArms DEF RemovedAndScheduled
  <1>4. ASSUME NEW k \in Keys, NEW o \in Offsets, NEW i \in Intervals,
               ScheduleFromPersisted(k, o, i)
        PROVE  T!TimersNext \/ UNCHANGED T!timers
    <2> DEFINE d == PersistedDelay(o, i)
    <2>1. d \in Delays
      <3>1. <<o, i>> \in Offsets \X Intervals /\ <<o, i>>[1] = o /\ <<o, i>>[2] = i
        OBVIOUS
      <3>2. PersistedDelay(o, i) \in {PersistedDelay(x[1], x[2]) : x \in Offsets \X Intervals}
        BY <3>1
      <3> QED BY <3>2 DEF Delays
    <2>2. CASE k \in scheduled
      BY <1>4, <2>2 DEF ScheduleFromPersisted, Schedule, queue, answers, T!timers
    <2>3. CASE k \notin scheduled
      BY <1>4, <2>1, <2>3, PushedArms DEF ScheduleFromPersisted, Schedule
    <2> QED BY <2>2, <2>3
  <1>5. ASSUME PopDue PROVE T!TimersNext
    <2> DEFINE popped == {e.key : e \in {f \in heap : f.at <= now /\ Live(f)}}
               fired == {k \in Keys : deadline[k] # Off /\ deadline[k] <= now}
    <2>1. ASSUME NEW k \in popped PROVE k \in fired
      <3>1. PICK e \in heap : e.at <= now /\ Live(e) /\ e.key = k
        BY <2>1
      <3> QED BY <3>1, LiveEntriesAreTimers DEF IInv, TypeOK, Entry
    <2>2. ASSUME NEW k \in fired PROVE k \in popped
      <3>1. PICK e \in heap : Live(e) /\ e.key = k /\ e.at = deadline[k]
        BY <2>2, LiveEntriesAreTimers
      <3> QED BY <2>2, <3>1
    <2>3. popped = fired
      BY <2>1, <2>2
    <2>4. due' = fired
      BY <1>5, <2>3 DEF PopDue
    <2>5. deadline' = [k \in Keys |-> IF deadline[k] # Off /\ deadline[k] <= now
                                     THEN Off ELSE deadline[k]]
      BY <1>5, <2>3 DEF PopDue
    <2>6. UNCHANGED <<now, wake>>
      BY <1>5 DEF PopDue
    <2> QED BY <2>4, <2>5, <2>6 DEF T!TimersNext, T!Fire
  <1>6. ASSUME NextDueIn PROVE T!TimersNext
    <2> DEFINE L == {e.at : e \in {f \in heap : Live(f)}}
               A == {deadline[k] : k \in {j \in Keys : deadline[j] # Off}}
    <2>1. ASSUME NEW t \in L PROVE t \in A
      <3>1. PICK e \in heap : Live(e) /\ e.at = t
        BY <2>1
      <3>2. e.key \in Keys
        BY <3>1 DEF IInv, TypeOK, Entry
      <3> QED BY <3>1, <3>2, LiveEntriesAreTimers
    <2>2. ASSUME NEW t \in A PROVE t \in L
      BY <2>2, LiveEntriesAreTimers
    <2>3. L = A
      BY <2>1, <2>2
    <2>4. wake' = Earliest(L)
      BY <1>6 DEF NextDueIn, WakeAt
    <2>5. wake' = T!Earliest(A)
      <3> HIDE DEF L, A
      <3> QED BY <2>3, <2>4 DEF Earliest, T!Earliest
    <2> QED BY <1>6, <2>5 DEF NextDueIn, T!TimersNext, T!Ask
  <1>7. ASSUME Tick PROVE T!TimersNext
    BY <1>7 DEF Tick, queue, answers, T!TimersNext, T!Pass
  <1>8. CASE UNCHANGED vars
    BY <1>8 DEF vars, queue, answers, T!timers
  <1> QED BY <1>1, <1>2, <1>3, <1>4, <1>5, <1>6, <1>7, <1>8 DEF Next

(* The heap with lazy deletion implements a set of timers: stale entries   *)
(* never fire, nothing fires twice or early, and the loop is told the      *)
(* moment of the earliest check that is still wanted.                      *)
THEOREM SchedulerImplementsTimers == Spec => ImplementsTimers
  <1>1. Init => T!TimersInit
    BY DEF Init, T!TimersInit
  <1> QED BY <1>1, InitIInv, StepIInv, StepImplements, PTL DEF Spec, ImplementsTimers, T!TimersSpec

=============================================================================

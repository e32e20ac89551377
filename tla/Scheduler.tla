------------------------------ MODULE Scheduler ------------------------------
(***************************************************************************)
(* sync/scheduler.py: the in-memory scheduler of the daemon's polls, a     *)
(* heap of checks with lazy deletion.  Cancelling a check only forgets its *)
(* key and deadline; the entry stays in the heap, where it is told from a  *)
(* live one by the deadline it carries.                                    *)
(*                                                                         *)
(* The heap is a set of entries: it is only ever read from its smallest    *)
(* deadline on, and of two equal entries both leave it in the same call.   *)
(***************************************************************************)
EXTENDS Integers

CONSTANTS
  Keys,         \* canonical ids of sources
  Off,          \* no deadline, no answer
  Intervals,    \* polling intervals, in ticks
  Offsets,      \* ticks from now to a persisted next_check_utc, past ones negative
  FutureClamp,  \* MAX_FUTURE_CLAMP, in ticks
  MaxTime       \* bound: the moment after which the clock is not followed

ASSUME SchedulerAssumption ==
  /\ Off \notin Int
  /\ Intervals \subseteq Nat
  /\ Offsets \subseteq Int
  /\ FutureClamp \in Nat
  /\ MaxTime \in Nat

VARIABLES
  now,         \* time.monotonic()
  heap,        \* _heap
  scheduled,   \* _scheduled_keys
  deadline,    \* _scheduled_deadlines
  due,         \* what the last pop_due returned
  wake         \* the moment the last next_due_in pointed at

queue == <<heap, scheduled, deadline>>
answers == <<due, wake>>
vars == <<now, queue, answers>>

Entry == [at : Nat, key : Keys]

TypeOK ==
  /\ now \in 0 .. MaxTime
  /\ heap \subseteq Entry
  /\ scheduled \subseteq Keys
  /\ deadline \in [Keys -> Nat \union {Off}]
  /\ due \subseteq Keys
  /\ wake \in Nat \union {Off}

Init ==
  /\ now = 0
  /\ heap = {}
  /\ scheduled = {}
  /\ deadline = [k \in Keys |-> Off]
  /\ due = {}
  /\ wake = Off

-----------------------------------------------------------------------------
(* schedule and remove.  schedule_immediate and reschedule are a remove    *)
(* and a schedule in one call, which no other code can come between.       *)

(* A mutated form: a key is pushed once only, and its old entry reused.    *)
PushedOnce(k, delay) ==
  /\ heap' = IF \E e \in heap : e.key = k THEN heap
             ELSE heap \union {[at |-> now + delay, key |-> k]}
  /\ scheduled' = scheduled \union {k}
  /\ deadline' = [deadline EXCEPT ![k] = now + delay]

Pushed(k, delay) ==
  /\ heap' = heap \union {[at |-> now + delay, key |-> k]}
  /\ scheduled' = scheduled \union {k}
  /\ deadline' = [deadline EXCEPT ![k] = now + delay]

Schedule(k, delay) ==
  /\ IF k \in scheduled THEN UNCHANGED queue ELSE Pushed(k, delay)
  /\ UNCHANGED <<now, answers>>

Remove(k) ==
  /\ scheduled' = scheduled \ {k}
  /\ deadline' = [deadline EXCEPT ![k] = Off]
  /\ UNCHANGED <<now, heap, answers>>

RemovedAndScheduled(k, delay) == Pushed(k, delay) /\ UNCHANGED <<now, answers>>

ScheduleImmediate(k) == RemovedAndScheduled(k, 0)

(* The jitter: within a fifth of the interval.                             *)
Jittered(i) == {d \in 0 .. 2 * i : 4 * i <= 5 * d /\ 5 * d <= 6 * i}

Reschedule(k, i) == \E d \in Jittered(i) : RemovedAndScheduled(k, d)

(* A mutated form: a time of the past is a negative delay.                 *)
PersistedUnclamped(offset, i) == IF offset > FutureClamp THEN i ELSE offset

(* A timestamp of the far future is a clock that was set wrong; one of the *)
(* past is due.                                                            *)
PersistedDelay(offset, i) ==
  IF offset > FutureClamp THEN i ELSE IF offset < 0 THEN 0 ELSE offset

(* _sync_scheduler_state removes a key before it schedules it from the     *)
(* persisted time; the call alone leaves a scheduled key alone.            *)
ScheduleFromPersisted(k, offset, i) == Schedule(k, PersistedDelay(offset, i))

(* A mutated form: an entry counts as long as its key is scheduled.        *)
LiveByKey(e) == e.key \in scheduled

Live(e) == e.key \in scheduled /\ deadline[e.key] = e.at

PopDue ==
  LET popped == {e.key : e \in {f \in heap : f.at <= now /\ Live(f)}} IN
  /\ due' = popped
  /\ heap' = {e \in heap : e.at > now}
  /\ scheduled' = scheduled \ popped
  /\ deadline' = [k \in Keys |-> IF k \in popped THEN Off ELSE deadline[k]]
  /\ UNCHANGED <<now, wake>>

Earliest(S) == IF S = {} THEN Off ELSE CHOOSE t \in S : \A u \in S : t <= u

WakeAt == Earliest({e.at : e \in {f \in heap : Live(f)}})

(* Dead entries in front of the first live one are dropped.                *)
NextDueIn ==
  /\ wake' = WakeAt
  /\ heap' = {e \in heap : \E f \in heap : Live(f) /\ f.at <= e.at}
  /\ UNCHANGED <<now, scheduled, deadline, due>>

Tick ==
  /\ now < MaxTime
  /\ now' = now + 1
  /\ UNCHANGED <<queue, answers>>

Next ==
  \/ \E k \in Keys :
       \/ ScheduleImmediate(k)
       \/ Remove(k)
       \/ \E i \in Intervals : Reschedule(k, i)
       \/ \E offset \in Offsets, i \in Intervals : ScheduleFromPersisted(k, offset, i)
  \/ PopDue
  \/ NextDueIn
  \/ Tick

Spec == Init /\ [][Next]_vars

-----------------------------------------------------------------------------
(* Lazy deletion never loses a check: behind every scheduled key there is  *)
(* a heap entry with its current deadline, whatever stale entries are left *)
(* of earlier schedules, so the key cannot wait for ever.                  *)
NoLostWakeup == \A k \in scheduled : [at |-> deadline[k], key |-> k] \in heap

(* The key set and the deadline map are updated in step: a part of the     *)
(* inductive invariant.                                                    *)
KeysMatchDeadlines == \A k \in Keys : k \in scheduled <=> deadline[k] # Off

(* The scheduler is a set of timers: stale entries never fire, nothing     *)
(* fires twice or before its moment, and the moment the loop sleeps until  *)
(* is that of the earliest check that is still wanted.                     *)
Delays ==
  {0} \union (UNION {Jittered(i) : i \in Intervals})
  \union {PersistedDelay(x[1], x[2]) : x \in Offsets \X Intervals}

T == INSTANCE Timers WITH at <- deadline

ImplementsTimers == T!TimersSpec

=============================================================================

------------------------------- MODULE Timers -------------------------------
(***************************************************************************)
(* What the polling loop expects of its scheduler, with no word about how  *)
(* it is built: one timer per source, armed for a moment or off.  A timer  *)
(* fires once, when its moment has come, and only if nobody disarmed it or *)
(* armed it anew in between.                                               *)
(***************************************************************************)
EXTENDS Naturals

CONSTANTS
  Keys,
  Off,
  Delays    \* how far ahead a timer may be armed

VARIABLES
  now,
  at,      \* the moment each timer is armed for, or Off
  due,     \* the timers that the last question found due
  wake     \* the moment the last question about the next one answered, or Off

timers == <<now, at, due, wake>>

Earliest(S) == IF S = {} THEN Off ELSE CHOOSE t \in S : \A u \in S : t <= u

TimersInit ==
  /\ now \in Nat
  /\ at = [k \in Keys |-> Off]
  /\ due = {}
  /\ wake = Off

ArmIfOff(k, t) ==
  /\ at' = IF at[k] = Off THEN [at EXCEPT ![k] = t] ELSE at
  /\ UNCHANGED <<now, due, wake>>

Arm(k, t) ==
  /\ at' = [at EXCEPT ![k] = t]
  /\ UNCHANGED <<now, due, wake>>

Disarm(k) ==
  /\ at' = [at EXCEPT ![k] = Off]
  /\ UNCHANGED <<now, due, wake>>

Fire ==
  /\ due' = {k \in Keys : at[k] # Off /\ at[k] <= now}
  /\ at' = [k \in Keys |-> IF at[k] # Off /\ at[k] <= now THEN Off ELSE at[k]]
  /\ UNCHANGED <<now, wake>>

Ask ==
  /\ wake' = Earliest({at[k] : k \in {j \in Keys : at[j] # Off}})
  /\ UNCHANGED <<now, at, due>>

Pass == now' = now + 1 /\ UNCHANGED <<at, due, wake>>

TimersNext ==
  \/ \E k \in Keys, d \in Delays : ArmIfOff(k, now + d) \/ Arm(k, now + d)
  \/ \E k \in Keys : Disarm(k)
  \/ Fire
  \/ Ask
  \/ Pass

TimersSpec == TimersInit /\ [][TimersNext]_timers

=============================================================================

----------------------------- MODULE BackendCall -----------------------------
(***************************************************************************)
(* The calls of the language model: async_retry with the CircuitBreaker    *)
(* that all calls of a process share (util/retry.py), as the engine uses   *)
(* them.  A process makes its calls one after the other.                   *)
(***************************************************************************)
EXTENDS Integers

CONSTANTS FailureThreshold, \* failure_threshold
          MaxRetries,       \* max_retries
          MaxCalls,         \* bound on the calls
          MaxCancels        \* bound on the calls that are cancelled

ASSUME ThresholdAssumption == FailureThreshold \in Nat \ {0}

VARIABLES breaker, \* what the breaker remembers, and since when it is open
          call,    \* the call under way
          calls,   \* calls so far
          cancels, \* calls cancelled so far
          run      \* history: failures since the last success or cooldown, how many there may
                   \* be, and whether a trial was cancelled

callVars == <<breaker, call, calls, cancels, run>>

NoCall == [at |-> "idle", attempt |-> 0]

\* "elapsed": open, and cooldown_secs have passed.
Closed == [failures |-> 0, opened |-> "no", trial |-> FALSE]

CallInit == /\ breaker = Closed /\ call = NoCall /\ calls = 0 /\ cancels = 0
            /\ run = [failed |-> 0, most |-> FailureThreshold, abandoned |-> FALSE]

-----------------------------------------------------------------------------
\* A mutated form: the trial is not remembered.
HalfOpenUnmarked == Closed

\* is_open when the cooldown has passed: one call goes through.
HalfOpen == [Closed EXCEPT !.trial = TRUE]

IsOpen == breaker.trial \/ breaker.opened = "cooling"

\* record_failure
Failure(b) == IF b.trial THEN [b EXCEPT !.opened = "cooling", !.trial = FALSE]
              ELSE [b EXCEPT !.failures = @ + 1,
                             !.opened = IF b.failures + 1 >= FailureThreshold THEN "cooling" ELSE @]

-----------------------------------------------------------------------------
CallBackend == /\ call.at = "idle" /\ calls < MaxCalls
               /\ calls' = calls + 1
               /\ call' = [at |-> "attempt", attempt |-> 0]
               /\ UNCHANGED <<breaker, cancels, run>>

\* CircuitOpenError
TurnedAway == /\ call.at = "attempt" /\ IsOpen
              /\ call' = NoCall
              /\ UNCHANGED <<breaker, calls, cancels, run>>

Sent == /\ call.at = "attempt" /\ ~ IsOpen
        /\ breaker' = IF breaker.opened = "elapsed" THEN HalfOpen ELSE breaker
        /\ run' = IF breaker.opened = "elapsed" THEN [run EXCEPT !.failed = 0, !.most = 1] ELSE run
        /\ call' = [call EXCEPT !.at = "sent"]
        /\ UNCHANGED <<calls, cancels>>

\* record_success
Succeeds == /\ call.at = "sent"
            /\ breaker' = Closed
            /\ run' = [run EXCEPT !.failed = 0, !.most = FailureThreshold]
            /\ call' = NoCall
            /\ UNCHANGED <<calls, cancels>>

\* An answer that is no success, an exception or the timeout.
FailsOnce == /\ call.at = "sent"
             /\ breaker' = Failure(breaker)
             /\ run' = [run EXCEPT !.failed = @ + 1]
             /\ call' = IF call.attempt >= MaxRetries THEN NoCall ELSE [call EXCEPT !.at = "backoff"]
             /\ UNCHANGED <<calls, cancels>>

Backoff == /\ call.at = "backoff"
           /\ call' = [at |-> "attempt", attempt |-> call.attempt + 1]
           /\ UNCHANGED <<breaker, calls, cancels, run>>

\* Neither record_success nor record_failure hears of it.
Cancelled == /\ call.at \in {"sent", "backoff"} /\ cancels < MaxCancels
             /\ cancels' = cancels + 1
             /\ run' = [run EXCEPT !.abandoned = @ \/ (call.at = "sent" /\ breaker.trial)]
             /\ call' = NoCall
             /\ UNCHANGED <<breaker, calls>>

CoolsDown == /\ breaker.opened = "cooling"
             /\ breaker' = [breaker EXCEPT !.opened = "elapsed"]
             /\ UNCHANGED <<call, calls, cancels, run>>

CallNext == \/ CallBackend \/ TurnedAway \/ Sent \/ Succeeds \/ FailsOnce \/ Backoff \/ Cancelled \/ CoolsDown

-----------------------------------------------------------------------------
\* A failing backend is not stormed: the threshold of failures, and once it was reached one call for
\* each cooldown, whatever the retries ask for.  The breaker is shut to all only while it cools down
\* or its trial is under way, unless that trial was cancelled, which shuts it for good.
BreakerMeters ==
    /\ run.failed <= run.most
    /\ breaker.trial => call.at = "sent" \/ run.abandoned

=============================================================================

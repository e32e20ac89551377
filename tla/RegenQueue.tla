----------------------------- MODULE RegenQueue -----------------------------
(***************************************************************************)
(* The daemon's queue of folders to regenerate (regen/queue.py): debounce, *)
(* cooldown, the hourly limit, retries, and the two ways of working off a  *)
(* batch.                                                                  *)
(*                                                                         *)
(* Time is qualitative: a wait may have ended or not whenever the code     *)
(* looks, a cooldown runs or does not.  What the engine does to a folder   *)
(* is reduced to what the queue can tell: whether the folder's insight     *)
(* state still describes its inputs (stale), and whether the runtime       *)
(* database has a row for it (tracked).  adrift is a history variable: it  *)
(* says why nobody works on a stale folder any more, where the code lets   *)
(* go of one.                                                              *)
(***************************************************************************)
EXTENDS RegenTopology, FiniteSets

CONSTANTS
  Paths,              \* the folders of the tree, the root among them
  MaxRetries,         \* MAX_RETRIES
  MaxRegensPerHour,
  MaxDepth            \* the bound of the walk up

(* Every path is a finite sequence and has its ancestors in the tree.      *)
ASSUME PathsAssumption ==
  /\ Root \in Paths /\ IsFiniteSet(Paths)
  /\ \A p \in Paths : p \in Seq({p[i] : i \in DOMAIN p}) /\ Ancestors(p) \subseteq Paths
ASSUME LimitsAssumption ==
  MaxRetries \in Nat /\ MaxRegensPerHour \in Nat \ {0} /\ MaxDepth \in Nat \ {0}

VARIABLES
  exists,     \* the folders there are
  stale,      \* those whose insight state is not of their present inputs
  tracked,    \* those with a regen_locks row
  adrift,     \* history: why a stale folder is not going to be worked on
  pend,       \* _pending: the folders with an event
  retry,      \* its retry_count, and _retry_counts while it is worked on
  cool,       \* _last_regen less than cooldown_secs ago
  window,     \* how many entries of the last hour _regen_times has
  mode, seeds, todo, hot    \* the batch: strategy, ready set, scheduled paths, dirty set

tree == <<exists, stale, tracked, adrift>>
queue == <<pend, retry, cool, window>>
batch == <<mode, seeds, todo, hot>>

Reasons == {"none", "gap", "refused", "exhausted", "ancestor", "raised", "bound", "hidden", "origin"}

QueueTypeOK ==
  /\ exists \subseteq Paths
  /\ stale \subseteq exists
  /\ tracked \subseteq Paths
  /\ adrift \in [Paths -> Reasons]
  /\ pend \subseteq Paths
  /\ retry \in [Paths -> 0 .. MaxRetries]
  /\ cool \subseteq Paths
  /\ window \in Nat
  /\ mode \in {"none", "single_path_walk_up", "wave_batch"}
  /\ seeds \subseteq Paths /\ todo \subseteq Paths /\ hot \subseteq Paths

EmptyQueue ==
  /\ pend = {}
  /\ retry = [p \in Paths |-> 0]
  /\ cool = {}
  /\ window = 0

NoBatch == mode = "none" /\ seeds = {} /\ todo = {} /\ hot = {}

QueueInit == EmptyQueue /\ NoBatch

ForgetQueue ==
  /\ pend' = {}
  /\ retry' = [p \in Paths |-> 0]
  /\ cool' = {} /\ window' = 0
  /\ mode' = "none" /\ seeds' = {} /\ todo' = {} /\ hot' = {}

Found(S) == [p \in Paths |-> IF p \in S THEN "none" ELSE adrift[p]]

Lost(S, why) ==
  [p \in Paths |-> IF p \in S \intersect stale' THEN why
                   ELSE IF p \in stale' THEN adrift[p] ELSE "none"]

-----------------------------------------------------------------------------
(* enqueue, of a set of folders: an event that is already there waits anew *)
(* and keeps its retry count.                                              *)
Enqueue(S) ==
  /\ pend' = pend \union S
  /\ retry' = [p \in Paths |-> IF p \in S \ pend THEN 0 ELSE retry[p]]

(* A mutated form: one more than the limit.                                *)
RateLimitedLate == window > MaxRegensPerHour

RateLimited == window >= MaxRegensPerHour

(* pop_ready tests the hourly limit for each event, but counts a regen     *)
(* only when it ran: all events of one call get the same answer.           *)
MayBeReady == {p \in pend : p \notin cool /\ ~RateLimited}

(* A mutated form: an event on cooldown is taken out and not put back.     *)
StillPendingUnlessCool(ready) == pend \ (ready \union cool)

StillPending(ready) == pend \ ready

(* ready: those of them whose wait is over.                                *)
PopReady(ready) ==
  /\ mode = "none"
  /\ ready # {}
  /\ ready \subseteq MayBeReady
  /\ pend' = StillPending(ready)
  /\ mode' = Strategy(ready)
  /\ seeds' = ready
  /\ hot' = ready
  /\ todo' = ScheduledPaths(ready, MaxDepth)
  /\ UNCHANGED <<tree, retry, cool, window>>

-----------------------------------------------------------------------------
(* The batch.  Waves go deepest first; within a wave the order is that of  *)
(* the names, here any.  A path that is not dirty when its wave comes is   *)
(* passed over.  The chain of the single strategy is its own waves.        *)

Pending == todo \intersect hot

\* A mutated form: one retry too many.
ExhaustedLate(p) == retry[p] > MaxRetries

Exhausted(p) == retry[p] >= MaxRetries

SeedOf(p) == IF mode = "wave_batch" THEN p ELSE CHOOSE s \in seeds : TRUE

(* _handle_failure: the event is put back with a longer wait, or given up. *)
HandleFailure(p) ==
  IF Exhausted(p)
  THEN UNCHANGED <<pend, retry>>
  ELSE pend' = pend \union {p} /\ retry' = [retry EXCEPT ![p] = @ + 1]

(* The bookkeeping of a seed that was worked off.                          *)
Done(p) ==
  /\ cool' = cool \union {p}
  /\ window' = window + 1
  /\ retry' = [retry EXCEPT ![p] = 0]

(* The rest of a batch: what is left of the scheduled paths, and of those  *)
(* that are dirty.  When nothing is, the call returns.                     *)
Continue(rest, dirty) ==
  IF rest \intersect dirty = {}
  THEN mode' = "none" /\ seeds' = {} /\ todo' = {} /\ hot' = {}
  ELSE todo' = rest /\ hot' = dirty /\ UNCHANGED <<mode, seeds>>

RestAfterRefusal(p) == IF mode = "wave_batch" THEN todo \ {p} ELSE {}

(* acquire_regen_ownership says no: another session works on the path.     *)
(* The event was popped and is not put back.                               *)
Refused(p) ==
  /\ p \in DeepestWave(Pending)
  /\ Continue(RestAfterRefusal(p), hot)
  /\ IF mode = "wave_batch" THEN UNCHANGED queue
     ELSE Done(SeedOf(p)) /\ UNCHANGED pend
  /\ UNCHANGED <<exists, stale, tracked>>
  /\ adrift' = Lost({p}, "refused")

(* acquire_regen_ownership raises, outside of the try of both loops: the   *)
(* daemon logs it, and what is left of the batch is gone.                  *)
Raised ==
  /\ Pending # {}
  /\ Continue({}, {})
  /\ UNCHANGED <<exists, stale, tracked, queue>>
  /\ adrift' = Lost(Pending \ pend, "raised")

(* regen_single_folder raises after ownership was acquired.  A wave        *)
(* retries a ready path and forgets an ancestor; a walk ends and retries   *)
(* where it began.                                                         *)
Failed(p) ==
  /\ p \in DeepestWave(Pending)
  /\ Continue(RestAfterRefusal(p), hot)
  /\ IF SeedOf(p) \in seeds THEN HandleFailure(SeedOf(p)) ELSE UNCHANGED <<pend, retry>>
  /\ tracked' = tracked \union {p}
  /\ UNCHANGED <<exists, stale, cool, window>>
  /\ adrift' = Lost({p} \ pend',
                    IF p \in seeds THEN "exhausted" ELSE "ancestor")

(* The folder is gone: its managed state is cleaned up.                    *)
Outcomes(p) ==
  CASE p \notin exists -> {"cleaned_up"}
    [] p \in stale -> {"regenerated", "skipped_similarity"}
    [] OTHER -> {"skipped_unchanged"}

(* The parent reads the summaries of its children: a new one makes it      *)
(* stale, if it was not.                                                   *)
StaleAfter(p, action) ==
  (stale \ {p}) \union
    (IF action = "regenerated" /\ p # Root THEN {ParentPath(p)} \intersect exists ELSE {})

(* A mutated form: the parent is not taken up after a child.               *)
HotNever(p, action) == hot

HotAfter(p, action) ==
  IF PropagatesUp(action) /\ p # Root THEN hot \union {ParentPath(p)} ELSE hot

(* A walk stops where nothing propagates.                                  *)
RestAfter(p, action) ==
  IF mode = "single_path_walk_up" /\ ~PropagatesUp(action) THEN {} ELSE todo \ {p}

(* One folder of the batch.  The engine reads its inputs at one moment, at *)
(* which this step is: what changes while the model answers makes the      *)
(* folder stale again.                                                     *)
Processed(p) ==
  /\ p \in DeepestWave(Pending)
  /\ \E action \in Outcomes(p) :
       LET rest == RestAfter(p, action)
           dirty == HotAfter(p, action)
           over == rest \intersect dirty = {}
           beyond == {ParentPath(p)} \ (rest \union {p})
       IN
       /\ Continue(rest, dirty)
       /\ stale' = StaleAfter(p, action)
       /\ tracked' = IF action = "cleaned_up" THEN tracked \ {p} ELSE tracked \union {p}
       /\ IF mode = "wave_batch"
          THEN IF p \in seeds THEN Done(p) ELSE UNCHANGED <<cool, window, retry>>
          ELSE IF over THEN Done(SeedOf(p)) ELSE UNCHANGED <<cool, window, retry>>
       /\ adrift' = Lost((beyond \intersect (stale' \ stale)) \ pend, "bound")
  /\ UNCHANGED <<exists, pend>>

(* Time.  The code looks at these clocks only for the sake of a pending    *)
(* event, and a clock that nobody looks at need not move.                  *)
CoolDown(p) ==
  /\ p \in cool \intersect pend
  /\ cool' = cool \ {p}
  /\ UNCHANGED <<tree, pend, retry, window, batch>>

AnHourPasses ==
  /\ RateLimited /\ pend # {}
  /\ window' = window - 1
  /\ UNCHANGED <<tree, pend, retry, cool, batch>>

=============================================================================

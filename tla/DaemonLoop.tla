----------------------------- MODULE DaemonLoop -----------------------------
(***************************************************************************)
(* The loop of the daemon (sync/daemon.py) with the watcher's queues       *)
(* (sync/watcher.py), the poll timers, and the regeneration queue, while   *)
(* the user edits and moves files, other processes register and remove     *)
(* sources, and the daemon stops, dies and is started again.               *)
(*                                                                         *)
(* The loop awaits in three places: a poll, the regeneration of a folder,  *)
(* and its sleep.  The observer thread and everybody outside of the        *)
(* process come in between any two steps.                                  *)
(***************************************************************************)
EXTENDS RegenQueue

CONSTANTS
  Sources,
  Tracked, Stale,      \* what the database and the sidecars may be like at first
  Area(_),      \* the folder a source is materialized in
  MoveSrc, MoveDst,    \* a folder the user may rename, and the name it gets
  MaxEvents     \* bound: what the user, the remote and the faults do

ASSUME AreaAssumption == \A s \in Sources : Area(s) \in Paths
(* The folder that is renamed has no folders in it, under either name.     *)
ASSUME MoveAssumption ==
  /\ MoveSrc \in Paths /\ MoveDst \in Paths /\ MoveSrc # MoveDst
  /\ \A p \in Paths : ParentPath(p) \notin {MoveSrc, MoveDst}
ASSUME StartAssumption == Tracked \subseteq SUBSET Paths /\ Stale \subseteq SUBSET Paths
ASSUME EventsAssumption == MaxEvents \in Nat \ {0}

Move == [src : {MoveSrc}, dst : {MoveDst}]

VARIABLES
  pc,           \* where the loop is
  watching,     \* has the observer been started
  seen,         \* event_queue, by the folder of each file
  deb,          \* the watcher's _pending: folders that wait for quiet
  moves,        \* move_queue
  active,       \* the sources the manifests say are to be polled
  far,          \* those whose persisted time is beyond the clamp of the scheduler
  known,        \* state.sources, as the loop last loaded it
  timer,        \* the keys in the scheduler
  clamped,      \* those among them that wait for an interval instead of their time
  turn,         \* the due keys that are still to be polled
  eventsLeft

files == <<tree, eventsLeft>>
watcher == <<watching, seen, deb, moves>>
poller == <<active, far, known, timer, clamped, turn>>
vars == <<files, queue, batch, pc, watcher, poller>>

TypeOK ==
  /\ QueueTypeOK
  /\ pc \in {"down", "starting", "gather", "poll", "regen"}
  /\ watching \in BOOLEAN
  /\ seen \subseteq Paths
  /\ deb \subseteq Paths
  /\ moves \subseteq Move
  /\ active \subseteq Sources /\ known \subseteq Sources /\ turn \subseteq Sources
  /\ far \subseteq active
  /\ timer \subseteq Sources /\ clamped \subseteq timer
  /\ eventsLeft \in 0 .. MaxEvents

(* The database may be new to a brain that is not.  Sources to begin with  *)
(* count as one event, as it does to register one.                         *)
Init ==
  /\ QueueInit
  /\ exists = Paths \ {MoveDst}
  /\ stale \in {S \intersect exists : S \in Stale}
  /\ tracked \in {S \intersect exists : S \in Tracked}
  /\ adrift = [p \in Paths |-> "none"]
  /\ pc = "down"
  /\ watching = FALSE /\ seen = {} /\ deb = {} /\ moves = {}
  /\ \/ active = {} /\ eventsLeft = MaxEvents
     \/ active = Sources /\ eventsLeft = MaxEvents - 1
  /\ far = {} /\ known = {} /\ timer = {} /\ clamped = {} /\ turn = {}

Running == pc \notin {"down", "starting"}

-----------------------------------------------------------------------------
(* The tree reconcile (sync/reconcile.py) and what it hands to the queue.  *)

(* _deepest_untracked_paths: an ancestor of another untracked folder is    *)
(* left to the walk up.                                                    *)
DeepestUntracked(S) ==
  {p \in S : ~\E q \in S \ {p} : IsPrefixPath(p, q)}

Orphans == {p \in tracked \ exists : p # Root}

Candidates ==
  (tracked \intersect exists) \union ({ParentPath(p) : p \in Orphans} \intersect tracked)

Hidden == {p \in exists \ tracked : p # Root /\ \E q \in exists \ tracked : q # p /\ IsPrefixPath(p, q)}

(* The root has readable files of its own.                                 *)
ReconcileFinds ==
  (Candidates \intersect stale)
    \union DeepestUntracked({p \in exists \ tracked : p # Root})
    \union ({Root} \ tracked)

(* A mutated form: keys that are gone are removed, new ones not scheduled. *)
OnlyKept(state) == state \intersect timer

(* _sync_scheduler_state: every key is removed, and scheduled again for    *)
(* its persisted time, or at once if it has none.  A time beyond the clamp *)
(* is taken for an interval from now on, whatever was left of the wait: an *)
(* interval is longer than RESCAN_INTERVAL.                                *)
TimersFromState(state) == state

Clamped(state) == far \intersect state

Reload ==
  /\ known' = active
  /\ timer' = TimersFromState(active)
  /\ clamped' = Clamped(active)

(* The start: the source reconcile may have moved a file to its area, the  *)
(* tree reconcile has looked at everything; the watcher is not there yet.  *)
Start ==
  /\ pc = "down"
  /\ pc' = "starting"
  /\ \E moved \in SUBSET {Area(s) : s \in active} :
       /\ Enqueue((ReconcileFinds \union moved) \intersect Paths)
       /\ adrift' = [p \in Paths |->
            IF p \in (stale \intersect Hidden) \ moved THEN "hidden" ELSE "none"]
  /\ tracked' = tracked \ Orphans
  /\ Reload
  /\ UNCHANGED <<exists, stale, eventsLeft, cool, window, batch, watcher, active, far, turn>>

StartWatcher ==
  /\ pc = "starting"
  /\ pc' = "gather"
  /\ watching' = TRUE
  /\ UNCHANGED <<files, queue, batch, seen, deb, moves, poller>>

-----------------------------------------------------------------------------
(* One round of the loop. *)

Cost(b) == IF b THEN eventsLeft > 0 /\ eventsLeft' = eventsLeft - 1 ELSE UNCHANGED eventsLeft

Children(outcome) ==
  IF outcome \in {"changed", "unchanged"}
  THEN {{}} \union {{c} : c \in Sources \ (active \union turn)} ELSE {{}}

(* Where a stale folder is being taken care of.                            *)
Carried(p) ==
  \/ p \in pend
  \/ p \in seen \union deb
  \/ p \in Pending
  \/ \E m \in moves : p \in {m.dst, ParentPath(m.src), ParentPath(m.dst)}

(* apply_folder_move, for all moves drained: the rows of the folder get    *)
(* its new name, and the folder and both parents are enqueued.             *)
RowsMoved(ms) ==
  {p \in Paths : \E q \in tracked :
     p = IF \E m \in ms : m.src = q THEN MoveDst ELSE q}

MovedFolders(ms) ==
  UNION {{m.dst, ParentPath(m.src), ParentPath(m.dst)} : m \in ms}

(* handle_watcher_folder_change: a folder whose inputs are described by    *)
(* its insight state is ignored.                                           *)
Changed(folders) == folders \intersect (stale \union (Paths \ exists))

DrainMoves == moves' = {}

(* Every event restarts the wait of its folder; quiet are those for which  *)
(* there has been none for DEBOUNCE_SECS.                                  *)
DrainEvents(quiet) ==
  /\ quiet \subseteq deb \ seen
  /\ seen' = {}
  /\ deb' = (deb \union seen) \ quiet

(* 1 to 3: moves, then the events of quiet folders, then the source        *)
(* reconcile, which may change something, then the reload, when            *)
(* RESCAN_INTERVAL is over, then whatever is due: nothing that waits for a *)
(* clamped time, which the next reload begins anew.  There is no await     *)
(* among these.                                                            *)
Gather(quiet, reload, due) ==
  /\ pc = "gather"
  /\ pc' = "poll"
  /\ tracked' = RowsMoved(moves)
  /\ Enqueue(MovedFolders(moves) \union Changed(quiet))
  /\ adrift' = Found(MovedFolders(moves) \union Changed(quiet))
  /\ DrainMoves
  /\ DrainEvents(quiet)
  /\ LET state == IF reload THEN active ELSE known
         armed == IF reload THEN TimersFromState(active) ELSE timer
     IN /\ clamped' = IF reload THEN Clamped(active) \intersect armed ELSE clamped
        /\ due \subseteq armed \ clamped'
        /\ known' = state
        /\ turn' = due
        /\ timer' = armed \ due
  /\ UNCHANGED <<exists, stale, eventsLeft, cool, window, batch, watching, active, far>>

(* The outcomes of sync_active_source_once.  It reads the manifests anew.  *)
PollOutcomes(s) ==
  IF s \in active
  THEN {"changed", "unchanged", "error", "lease_conflict", "remote_missing", "missing_refused"}
  ELSE {"not_found"}

(* A source that was polled waits for its next check; one that is away, or *)
(* that could not be marked missing because it is leased, has no timer     *)
(* until the next reload.                                                  *)
Rearms(outcome) == outcome \in {"changed", "unchanged", "error", "lease_conflict"}

(* Progress is saved with the time of the next check, and a source that is *)
(* away loses its row.                                                     *)
NotesTime(outcome) == outcome \in {"changed", "unchanged", "error", "remote_missing"}

(* A poll may register children, which are scheduled at once; the loop     *)
(* knows them when it has loaded its state again.                          *)
Polled(s, outcome, children) ==
  /\ far' = IF NotesTime(outcome) THEN far \ {s} ELSE far
  /\ clamped' = clamped \ ({s} \union children)
  /\ active' = (IF outcome = "remote_missing" THEN active \ {s} ELSE active) \union children
  /\ timer' = (IF Rearms(outcome) THEN timer \union {s} ELSE timer) \union children
  /\ known' = IF outcome = "lease_conflict" THEN known ELSE active'

(* A materialized file is a change like any other to the watcher, and the  *)
(* loop enqueues its folder itself.                                        *)
AreaChanged(s) ==
  /\ stale' = stale \union ({Area(s)} \intersect exists)
  /\ seen' = seen \union {Area(s)}
  /\ Enqueue({Area(s)})
  /\ adrift' = Found({Area(s)})

(* 3: one of the due keys, in an order that depends on their data.         *)
Poll(s) ==
  /\ pc = "poll"
  /\ s \in turn
  /\ turn' = turn \ {s}
  /\ \/ /\ s \notin known
        /\ UNCHANGED <<active, far, known, timer, clamped, stale, adrift, pend, retry, seen, eventsLeft>>
     \/ \E outcome \in PollOutcomes(s) \ {"changed"} :
          /\ s \in known
          /\ Cost(outcome = "remote_missing")
          /\ \E children \in Children(outcome) : Polled(s, outcome, children)
          /\ UNCHANGED <<stale, adrift, pend, retry, seen>>
     \/ /\ s \in known /\ s \in active
        /\ Cost(TRUE)
        /\ \E children \in Children("changed") : Polled(s, "changed", children)
        /\ AreaChanged(s)
  /\ UNCHANGED <<pc, exists, tracked, cool, window, batch, watching, deb, moves>>

(* 4: process_ready takes what is ready now, and works it off.             *)
StartRegen(ready) ==
  /\ pc = "poll"
  /\ turn = {}
  /\ IF ready = {} THEN pc' = "gather" /\ UNCHANGED <<tree, queue, batch>>
     ELSE pc' = "regen" /\ PopReady(ready)
  /\ UNCHANGED <<eventsLeft, watcher, poller>>

Regen(p) ==
  /\ pc = "regen"
  /\ Cost(FALSE)
  /\ Processed(p)
  /\ pc' = IF mode' = "none" THEN "gather" ELSE "regen"
  /\ UNCHANGED <<watcher, poller>>

RegenGoesWrong ==
  /\ pc = "regen"
  /\ Cost(TRUE)
  /\ Raised \/ \E p \in Paths : Refused(p) \/ Failed(p)
  /\ pc' = IF mode' = "none" THEN "gather" ELSE "regen"
  /\ UNCHANGED <<watcher, poller>>

(* SIGINT at one of the awaits, or an error that leaves the loop: queued   *)
(* moves are applied, orphans cleaned up, and everything in memory goes.   *)
Forget ==
  /\ ForgetQueue
  /\ pc' = "down"
  /\ watching' = FALSE /\ seen' = {} /\ deb' = {} /\ moves' = {}
  /\ known' = {} /\ timer' = {} /\ clamped' = {} /\ turn' = {}
  /\ adrift' = [p \in Paths |-> "none"]
  /\ UNCHANGED <<exists, stale, active, far>>

Stop ==
  /\ Running
  /\ Cost(TRUE)
  /\ tracked' = {p \in RowsMoved(moves) : p \in exists \/ p = Root}
  /\ Forget

Die ==
  /\ pc # "down"
  /\ Cost(TRUE)
  /\ UNCHANGED tracked
  /\ Forget

-----------------------------------------------------------------------------
(* The user.  on_moved reports a file that went to another folder as a     *)
(* change of that folder alone.                                            *)
Notice(S) == seen' = IF watching THEN seen \union S ELSE seen

AdriftWhenUnseen(S, why) ==
  adrift' = [p \in Paths |->
    IF pc = "starting" /\ p \in S \intersect stale' /\ p \notin pend THEN "gap"
    ELSE IF p \in why /\ pc # "down" /\ ~Carried(p) THEN "origin"
    ELSE IF p \in stale' THEN adrift[p] ELSE "none"]

UserEdits(p) ==
  /\ p \in exists
  /\ Cost(TRUE)
  /\ stale' = stale \union {p}
  /\ Notice({p})
  /\ AdriftWhenUnseen({p}, {})
  /\ UNCHANGED <<exists, tracked, queue, batch, pc, watching, deb, moves, poller>>

UserMovesFile(p, q) ==
  /\ p # q /\ p \in exists /\ q \in exists
  /\ Cost(TRUE)
  /\ stale' = stale \union {p, q}
  /\ Notice({q})
  /\ AdriftWhenUnseen({p, q}, {p})
  /\ UNCHANGED <<exists, tracked, queue, batch, pc, watching, deb, moves, poller>>

(* The insight state of a folder moves with it; both parents have changed. *)
UserMovesFolder ==
  /\ MoveSrc \in exists /\ MoveDst \notin exists
  /\ Cost(TRUE)
  /\ exists' = (exists \ {MoveSrc}) \union {MoveDst}
  /\ stale' = (stale \ {MoveSrc}) \union {ParentPath(MoveSrc), ParentPath(MoveDst)}
                \union (IF MoveSrc \in stale THEN {MoveDst} ELSE {})
  /\ moves' = IF watching THEN {[src |-> MoveSrc, dst |-> MoveDst]} ELSE moves
  /\ AdriftWhenUnseen({MoveDst, ParentPath(MoveSrc), ParentPath(MoveDst)}, {})
  /\ UNCHANGED <<tracked, queue, batch, pc, watching, seen, deb, poller>>

(* Other processes register and remove sources; a new one has no time.     *)
Registry ==
  /\ Cost(TRUE)
  /\ \E s \in Sources :
       /\ active' = IF s \in active THEN active \ {s} ELSE active \union {s}
       /\ far' = far \ {s}
  /\ UNCHANGED <<tree, queue, batch, pc, watcher, known, timer, clamped, turn>>

(* The wall clock is corrected: times that were persisted before may be    *)
(* far ahead now.  The scheduler's own clock is monotonic.                 *)
ClockSet ==
  /\ Cost(TRUE)
  /\ far' \in SUBSET active
  /\ UNCHANGED <<tree, queue, batch, pc, watcher, active, known, timer, clamped, turn>>

-----------------------------------------------------------------------------
QueueElapses ==
  /\ \E p \in Paths : CoolDown(p)
  /\ UNCHANGED <<eventsLeft, pc, watcher, poller>>

HourElapses ==
  /\ AnHourPasses
  /\ UNCHANGED <<eventsLeft, pc, watcher, poller>>

(* A time that was too far ahead comes within MAX_FUTURE_CLAMP, thirty     *)
(* days before it is due.                                                  *)
MonthsElapse ==
  /\ \E s \in far : far' = far \ {s}
  /\ UNCHANGED <<files, queue, batch, pc, watcher, active, known, timer, clamped, turn>>

-----------------------------------------------------------------------------
Loop ==
  \/ Start
  \/ StartWatcher
  \/ \E quiet \in SUBSET Paths, reload \in BOOLEAN, due \in SUBSET Sources :
       Gather(quiet, reload, due)
  \/ \E s \in Sources : Poll(s)
  \/ \E ready \in SUBSET Paths : StartRegen(ready)
  \/ \E p \in Paths : Regen(p)

Time == QueueElapses \/ HourElapses \/ MonthsElapse

Environment ==
  \/ \E p \in Paths : UserEdits(p)
  \/ \E p, q \in Paths : UserMovesFile(p, q)
  \/ UserMovesFolder
  \/ Registry
  \/ ClockSet
  \/ RegenGoesWrong
  \/ Stop
  \/ Die

Next == Loop \/ Time \/ Environment

(* The loop never waits for anybody, and time passes: every wait that was  *)
(* begun is over some time, so that, disturbances being finite, the loop   *)
(* finds again and again that all of them are.  The reload comes by the    *)
(* clock too.  A source is due some time although every reload schedules   *)
(* it anew, because it does so for the same time, or at once: Gather is    *)
(* not enabled for a source whose time is clamped, which never comes.      *)
(* Nothing is asked of a daemon that has to run for months.                *)
Fairness ==
  /\ WF_vars(Loop)
  /\ WF_vars(QueueElapses) /\ WF_vars(HourElapses)
  /\ SF_vars(\E due \in SUBSET Sources : Gather(deb \ seen, TRUE, due))
  /\ SF_vars(StartRegen(MayBeReady))
  /\ \A s \in Sources : SF_vars(\E reload \in BOOLEAN : Gather(deb \ seen, reload, {s}))

Spec == Init /\ [][Next]_vars /\ Fairness

-----------------------------------------------------------------------------
(* While the daemon runs, no folder whose insight state is out of date is  *)
(* forgotten between the file event and the regeneration: it is in one of  *)
(* the watcher's or the queue's structures or in the batch, unless the     *)
(* code let go of it in one of the known ways: changed before the watcher  *)
(* was started, left by a file, hidden under an untracked folder, above    *)
(* the bound of a walk, refused, raised, an ancestor that failed, or out   *)
(* of retries.                                                             *)
ChangesAreCarried ==
  Running => \A p \in stale : Carried(p) \/ adrift[p] # "none"

(* While a batch runs, the hour's count is over the limit by no more than  *)
(* the seeds of this batch that were worked off: neither its ancestors nor *)
(* an earlier batch are behind the excess.                                 *)
OvershootsByOneBatch ==
  mode # "none" => window + Cardinality(seeds \intersect todo)
                     < MaxRegensPerHour + Cardinality(seeds)

(* Every source that stays active is polled again and again, as long as    *)
(* the daemon runs: whatever was popped from the scheduler is put back     *)
(* after its poll, or at the next reload.  The exception is a source whose *)
(* persisted time stays beyond the clamp: each reload restarts its wait.   *)
PolledAgainAndAgain ==
  \A s \in Sources : \/ []<>(s \notin active \/ ~Running)
                      \/ []<><<Poll(s)>>_vars
                      \/ <>[](s \in far)

(* Again and again there is nothing left to do: whatever changed has been  *)
(* regenerated, or is adrift for a known reason, or the daemon stopped.    *)
ChangesSettle ==
  []<>(~Running \/ \A p \in stale : adrift[p] # "none")

=============================================================================

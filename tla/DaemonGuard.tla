---------------------------- MODULE DaemonGuard ----------------------------
(***************************************************************************)
(* One daemon per machine: the start guard daemon.lock, the snapshot       *)
(* daemon.json (runtime/repository.py), the daemon processes that take the *)
(* one and write the other (sync/daemon.py), and the launchers in CLI and  *)
(* MCP processes that read both, start a daemon and stop one               *)
(* (application/launcher.py).                                              *)
(*                                                                         *)
(* Processes are known by their pids, and a pid is given out again.  The   *)
(* guard is a file lock: it goes with its process.  A launcher tests it by *)
(* taking it for a moment.  Nothing protects daemon.json: a write reads    *)
(* what is there, keeps some of it, and replaces it.                       *)
(***************************************************************************)
EXTENDS Naturals

CONSTANTS
  Pids,         \* process ids daemons may get
  Clients,      \* launchers
  Calls,        \* what each of them is asked to do
  Roots,        \* brain roots
  Attached,     \* the one attached first
  Nobody,
  MaxEvents     \* bound: crashes, strangers, failures, late starts, users

ASSUME NobodyAssumption == Nobody \notin Pids \union Clients
ASSUME ApartAssumption == Pids \intersect Clients = {}
ASSUME RootsAssumption == Nobody \notin Roots /\ Attached \in Roots
ASSUME CallsAssumption == Calls \in [Clients -> SUBSET {"start", "stop", "restart"}]
ASSUME EventsAssumption == MaxEvents \in Nat

VARIABLES
  proc,         \* what runs under a pid, and where in its program it is
  kind,         \* controller kind and root of the daemon with that pid
  home,
  told,         \* daemons with a cancellation to come
  reused,       \* history: pids that meant two processes since they were seen
  holder,       \* who has the lock on daemon.lock
  guard,        \* what daemon.lock says
  snapshot,     \* daemon.json
  mixed,        \* history: daemons whose snapshot a launcher wrote over
  draft,        \* a snapshot about to be written
  at,           \* where a launcher is
  call,         \* in which call
  view,         \* what it has read of snapshot and guard
  target,       \* the process it stops or has started
  active,       \* the active root of config.json
  eventsLeft

processes == <<proc, kind, home, told, reused, mixed>>
files == <<holder, guard, snapshot>>
launchers == <<at, call, view, target>>
vars == <<processes, files, draft, launchers, active, eventsLeft>>

Kinds == {"foreground", "background"}
Startup == {"born", "deaf", "knock"}
Guarded == {"stamp", "starting", "prepare", "readyRead", "readyWrite", "loop",
            "stopRead", "stopWrite", "release"}
Daemonic == Startup \union Guarded \union {"exit"}
Places == {"idle", "look", "guard", "try", "ungrab", "judge", "spawn", "kill", "waitExit",
           "recordRead", "recordWrite"}
Phases == {"none", "decide", "await", "confirm", "abandon"}

Snapshots == [status : {"starting", "ready", "stopped"}, pid : Pids, root : Roots, kind : Kinds]
Nothing == [status |-> "none"]
Guards == [pid : Pids, root : Roots]
NoGuard == [pid |-> Nobody, root |-> Nobody]
Views == [root : Roots \union {Nobody}, snap : Snapshots \union {Nothing},
          guard : Guards \union {NoGuard}, refused : BOOLEAN]
Blank == [root |-> Nobody, snap |-> Nothing, guard |-> NoGuard, refused |-> FALSE]

(* TypeOK: the records and program points are what they are meant to be.   *)
TypeOK ==
  /\ proc \in [Pids -> {"none", "stranger"} \union Daemonic]
  /\ kind \in [Pids -> Kinds]
  /\ home \in [Pids -> Roots]
  /\ told \subseteq Pids
  /\ reused \subseteq Pids
  /\ holder \in Pids \union Clients \union {Nobody}
  /\ guard \in Guards \union {NoGuard}
  /\ snapshot \in Snapshots \union {Nothing}
  /\ mixed \subseteq Pids
  /\ draft \in [Pids \union Clients -> Snapshots \union {Nothing}]
  /\ at \in [Clients -> Places]
  /\ call \in [Clients -> [name : {"none", "start", "stop", "restart"}, phase : Phases]]
  /\ view \in [Clients -> Views]
  /\ target \in [Clients -> Pids \union {Nobody}]
  /\ active \in Roots
  /\ eventsLeft \in 0 .. MaxEvents

NoCall == [name |-> "none", phase |-> "none"]

Init ==
  /\ proc = [p \in Pids |-> "none"]
  /\ kind = [p \in Pids |-> "foreground"]
  /\ active = Attached
  /\ home = [p \in Pids |-> Attached]
  /\ told = {}
  /\ reused = {}
  /\ holder = Nobody
  /\ guard = NoGuard
  /\ snapshot = Nothing
  /\ mixed = {}
  /\ draft = [w \in Pids \union Clients |-> Nothing]
  /\ at = [c \in Clients |-> "idle"]
  /\ call = [c \in Clients |-> NoCall]
  /\ view = [c \in Clients |-> Blank]
  /\ target = [c \in Clients |-> Nobody]
  /\ eventsLeft = MaxEvents

Event == eventsLeft > 0 /\ eventsLeft' = eventsLeft - 1

Becomes(p, stage) == proc' = [proc EXCEPT ![p] = stage]

(* _pid_is_running.                                                        *)
Running(p) == p \in Pids /\ proc[p] # "none"

(* Somebody has the pid in mind, or in a file.                             *)
Seen(p) ==
  \/ snapshot # Nothing /\ snapshot.pid = p
  \/ \E c \in Clients : target[c] = p \/ (view[c].snap # Nothing /\ view[c].snap.pid = p)
  \/ \E c \in Clients : draft[c] # Nothing /\ draft[c].pid = p

(* No process has the pid, not even a zombie whose launcher waits for it.  *)
Free(p) ==
  /\ proc[p] = "none"
  /\ \A c \in Clients : target[c] = p => call[c].phase \notin {"await", "confirm", "abandon"}

Remembered(p) == reused' = {q \in reused : Seen(q)} \union (IF Seen(p) THEN {p} ELSE {})

-----------------------------------------------------------------------------
(* write_daemon_status.                                                    *)

(* A mutated form: who controls the daemon is not passed on.               *)
SnapshotUncontrolled(status, p, root, kind_) ==
  [status |-> status, pid |-> p, root |-> root, kind |-> "unknown"]

Snapshot(status, p, root, kind_) == [status |-> status, pid |-> p, root |-> root, kind |-> kind_]

(* Another status than "starting" keeps root and controller of the file,   *)
(* if it can be read.                                                      *)
Kept(new, current) ==
  IF current = Nothing THEN new ELSE [new EXCEPT !.root = current.root, !.kind = current.kind]

(* A mutated form: "starting" keeps them too.                              *)
StartingKept(p) == Kept(Snapshot("starting", p, home[p], kind[p]), snapshot)

Starting(p) == Snapshot("starting", p, home[p], kind[p])

(* A reader finds nothing in a file that is being written.  The moment is  *)
(* short enough to be an event.                                            *)
BeingWritten ==
  \/ \E p \in Pids : proc[p] \in {"starting", "readyWrite", "stopWrite"}
  \/ \E c \in Clients : at[c] = "recordWrite"

Reads(content) ==
  \/ content = snapshot /\ UNCHANGED eventsLeft
  \/ content = Nothing /\ content # snapshot /\ BeingWritten /\ Event

-----------------------------------------------------------------------------
(* A daemon.                                                               *)

Spawned(p, kind_, root) ==
  /\ Free(p)
  /\ Becomes(p, "born")
  /\ kind' = [kind EXCEPT ![p] = kind_]
  /\ home' = [home EXCEPT ![p] = root]
  /\ told' = told \ {p}
  /\ mixed' = mixed \ {p}
  /\ Remembered(p)

(* `brain-sync run` in a terminal.                                         *)
RunInTerminal(p) ==
  /\ Event
  /\ Spawned(p, "foreground", active)
  /\ UNCHANGED <<files, draft, launchers, active>>

(* The signal handlers are set, and then the task they cancel is made.     *)
Boot(p) ==
  /\ proc[p] \in {"born", "deaf"}
  /\ Becomes(p, IF proc[p] = "born" THEN "deaf" ELSE "knock")
  /\ UNCHANGED <<kind, home, told, reused, mixed, files, draft, launchers, active, eventsLeft>>

(* A mutated form: the lock is taken for granted.                          *)
MayLockAlways(p) == TRUE

MayLock(p) == holder = Nobody

(* acquire_daemon_start_guard.                                             *)
Acquire(p) ==
  /\ proc[p] = "knock" /\ MayLock(p)
  /\ holder' = p
  /\ Becomes(p, "stamp")
  /\ UNCHANGED <<kind, home, told, reused, mixed, guard, snapshot, draft, launchers, active, eventsLeft>>

(* A launcher's test of the guard is as good as a daemon.                  *)
Refused(p) ==
  /\ proc[p] = "knock" /\ holder # Nobody
  /\ IF holder \in Clients THEN Event ELSE UNCHANGED eventsLeft
  /\ Becomes(p, "exit")
  /\ UNCHANGED <<kind, home, told, reused, mixed, files, draft, launchers, active>>

Stamp(p) ==
  /\ proc[p] = "stamp"
  /\ guard' = [pid |-> p, root |-> home[p]]
  /\ Becomes(p, "starting")
  /\ UNCHANGED <<kind, home, told, reused, mixed, holder, snapshot, draft, launchers, active, eventsLeft>>

WriteStarting(p) ==
  /\ proc[p] = "starting"
  /\ snapshot' = Starting(p)
  /\ Becomes(p, "prepare")
  /\ UNCHANGED <<kind, home, told, reused, mixed, holder, guard, draft, launchers, active, eventsLeft>>

(* Reconcile, the tables, the watcher.  A failure leaves the snapshot.     *)
Prepare(p) ==
  /\ proc[p] = "prepare"
  /\ \/ Becomes(p, "readyRead") /\ UNCHANGED eventsLeft
     \/ Becomes(p, "release") /\ Event
  /\ UNCHANGED <<kind, home, told, reused, mixed, files, draft, launchers, active>>

ReadToWrite(p) ==
  /\ proc[p] \in {"readyRead", "stopRead"}
  /\ LET status == IF proc[p] = "readyRead" THEN "ready" ELSE "stopped"
     IN \E current \in {snapshot, Nothing} : Reads(current) /\ draft' = [draft EXCEPT ![p] = Kept(Snapshot(status, p, home[p], kind[p]), current)]
  /\ Becomes(p, IF proc[p] = "readyRead" THEN "readyWrite" ELSE "stopWrite")
  /\ UNCHANGED <<kind, home, told, reused, mixed, files, launchers, active>>

WriteStatus(p) ==
  /\ proc[p] \in {"readyWrite", "stopWrite"}
  /\ snapshot' = draft[p]
  /\ draft' = [draft EXCEPT ![p] = Nothing]
  /\ Becomes(p, IF proc[p] = "readyWrite" THEN "loop" ELSE "release")
  /\ UNCHANGED <<kind, home, told, reused, mixed, holder, guard, launchers, active, eventsLeft>>

(* The cancellation comes where the loop awaits.                           *)
Stop(p) ==
  /\ proc[p] = "loop" /\ p \in told
  /\ Becomes(p, "stopRead")
  /\ UNCHANGED <<kind, home, told, reused, mixed, files, draft, launchers, active, eventsLeft>>

(* release_daemon_start_guard.                                             *)
Release(p) ==
  /\ proc[p] = "release"
  /\ holder' = IF holder = p THEN Nobody ELSE holder
  /\ Becomes(p, "exit")
  /\ UNCHANGED <<kind, home, told, reused, mixed, guard, snapshot, draft, launchers, active, eventsLeft>>

Gone(p) ==
  /\ Becomes(p, "none")
  /\ holder' = IF holder = p THEN Nobody ELSE holder
  /\ draft' = [draft EXCEPT ![p] = Nothing]
  /\ UNCHANGED <<guard, snapshot>>

Exit(p) ==
  /\ proc[p] \in {"exit", "stranger"}
  /\ Gone(p)
  /\ UNCHANGED <<kind, home, told, reused, mixed, launchers, active, eventsLeft>>

Crash(p) ==
  /\ proc[p] \in Daemonic /\ Event
  /\ Gone(p)
  /\ UNCHANGED <<kind, home, told, reused, mixed, launchers, active>>

(* What a signal does, by where the process is: it ends a process without  *)
(* handlers, finds no task to cancel, or cancels the task.                 *)
Signalled(p) ==
  IF proc[p] \in {"born", "stranger"}
  THEN Gone(p) /\ UNCHANGED told
  ELSE /\ told' = IF proc[p] = "deaf" THEN told ELSE told \union {p}
       /\ UNCHANGED <<proc, draft, files>>

Interrupt(p) ==
  /\ proc[p] \in Daemonic /\ Event
  /\ Signalled(p)
  /\ UNCHANGED <<kind, home, reused, mixed, launchers, active>>

(* Another program gets the pid.                                           *)
Stranger(p) ==
  /\ Free(p) /\ Event
  /\ Becomes(p, "stranger")
  /\ Remembered(p)
  /\ UNCHANGED <<kind, home, told, mixed, files, draft, launchers, active>>

AttachRoot ==
  /\ Event
  /\ active' \in Roots \ {active}
  /\ UNCHANGED <<processes, files, draft, launchers>>

-----------------------------------------------------------------------------
(* A launcher: _classify_daemon_status, once for every look it takes.      *)

Goes(c, place) == at' = [at EXCEPT ![c] = place]

Finished(c) ==
  /\ Goes(c, "idle")
  /\ call' = [call EXCEPT ![c] = NoCall]
  /\ view' = [view EXCEPT ![c] = Blank]
  /\ target' = [target EXCEPT ![c] = Nobody]

(* The caller of start asks again and again; other requests are counted.   *)
(* A request for the status is the beginning of any of them.               *)
Call(c) ==
  /\ at[c] = "idle"
  /\ \E name \in Calls[c] :
       /\ call' = [call EXCEPT ![c] = [name |-> name, phase |-> "decide"]]
       /\ IF name = "start" THEN UNCHANGED eventsLeft ELSE Event
  /\ Goes(c, "look")
  /\ UNCHANGED <<processes, files, draft, view, target, active>>

(* get_setup_status, read_daemon_status.                                   *)
Look(c) ==
  /\ at[c] = "look"
  /\ \E seen \in {snapshot, Nothing} :
       Reads(seen) /\ view' = [view EXCEPT ![c] = [Blank EXCEPT !.root = active, !.snap = seen]]
  /\ Goes(c, "guard")
  /\ UNCHANGED <<processes, files, draft, call, target, active>>

(* inspect_daemon_start_guard: what the file says, and then the lock.      *)
ReadGuard(c) ==
  /\ at[c] = "guard"
  /\ view' = [view EXCEPT ![c].guard = guard]
  /\ Goes(c, "try")
  /\ UNCHANGED <<processes, files, draft, call, target, active, eventsLeft>>

TryGuard(c) ==
  /\ at[c] = "try"
  /\ IF holder = Nobody
     THEN holder' = c /\ Goes(c, "ungrab") /\ UNCHANGED <<view, eventsLeft>>
     ELSE /\ view' = [view EXCEPT ![c].refused = TRUE]
          /\ Goes(c, "judge")
          /\ IF holder \in Clients THEN Event ELSE UNCHANGED eventsLeft
          /\ UNCHANGED holder
  /\ UNCHANGED <<processes, guard, snapshot, draft, call, target, active>>

Ungrab(c) ==
  /\ at[c] = "ungrab"
  /\ holder' = Nobody
  /\ Goes(c, "judge")
  /\ UNCHANGED <<processes, guard, snapshot, draft, call, view, target, active, eventsLeft>>

Healthy(c) ==
  LET seen == view[c].snap
      lock == view[c].guard
  IN /\ seen # Nothing
     /\ seen.status \in {"starting", "ready"}
     /\ Running(seen.pid)
     /\ seen.root = view[c].root
     /\ view[c].refused
     /\ lock.pid \in {Nobody, seen.pid} /\ lock.root \in {Nobody, seen.root}

-----------------------------------------------------------------------------
(* What it does about it.                                                  *)

(* A mutated form: a snapshot that says "ready" is believed.               *)
MaySpawnOnSnapshot(c) ==
  /\ call[c].name \in {"start", "restart"}
  /\ view[c].snap = Nothing \/ view[c].snap.status = "stopped"
  /\ ~view[c].refused

(* start_daemon, restart_daemon: no healthy daemon, and nobody has the     *)
(* guard.                                                                  *)
MaySpawn(c) ==
  /\ call[c].name \in {"start", "restart"}
  /\ ~Healthy(c) /\ ~view[c].refused

(* A mutated form: whoever is healthy is stopped.                          *)
MayStopAny(c) ==
  /\ call[c].name \in {"stop", "restart"}
  /\ Healthy(c)

(* stop_daemon, restart_daemon: stop_supported.                            *)
MayStop(c) ==
  /\ call[c].name \in {"stop", "restart"}
  /\ Healthy(c) /\ view[c].snap.kind = "background"

Decide(c) ==
  /\ at[c] = "judge" /\ call[c].phase = "decide"
  /\ IF MayStop(c)
     THEN Goes(c, "kill") /\ target' = [target EXCEPT ![c] = view[c].snap.pid] /\ UNCHANGED <<call, view>>
     ELSE IF MaySpawn(c) THEN Goes(c, "spawn") /\ UNCHANGED <<call, view, target>> ELSE Finished(c)
  /\ UNCHANGED <<processes, files, draft, active, eventsLeft>>

(* _start_new_background.                                                  *)
Spawn(c) ==
  /\ at[c] = "spawn"
  /\ \E p \in Pids :
       /\ Spawned(p, "background", view[c].root)
       /\ target' = [target EXCEPT ![c] = p]
  /\ call' = [call EXCEPT ![c].phase = "await"]
  /\ view' = [view EXCEPT ![c] = Blank]
  /\ Goes(c, "look")
  /\ UNCHANGED <<files, draft, active, eventsLeft>>

(* _wait_for_background_start, and one more look that must say the same.   *)
Await(c) ==
  /\ at[c] = "judge" /\ call[c].phase = "await"
  /\ IF Healthy(c) /\ view[c].snap.kind = "background"
     THEN call' = [call EXCEPT ![c].phase = "confirm"]
     ELSE UNCHANGED call
  /\ Goes(c, "look")
  /\ view' = [view EXCEPT ![c] = Blank]
  /\ UNCHANGED <<processes, files, draft, target, active, eventsLeft>>

(* Ten seconds are enough for a child that can come up; when they are not, *)
(* it is an event.                                                         *)
Hopeless(p) == proc[p] \notin Startup \union Guarded \/ home[p] # active \/ p \in mixed

Timeout(c) ==
  /\ at[c] = "judge" /\ call[c].phase = "await"
  /\ IF Hopeless(target[c]) THEN UNCHANGED eventsLeft ELSE Event
  /\ call' = [call EXCEPT ![c].phase = "abandon"]
  /\ Goes(c, "kill")
  /\ view' = [view EXCEPT ![c] = Blank]
  /\ UNCHANGED <<processes, files, draft, target, active>>

Confirm(c) ==
  /\ at[c] = "judge" /\ call[c].phase = "confirm"
  /\ IF Healthy(c) /\ view[c].snap.kind = "background"
     THEN Finished(c)
     ELSE /\ call' = [call EXCEPT ![c].phase = "abandon"]
          /\ Goes(c, "kill")
          /\ UNCHANGED <<view, target>>
  /\ UNCHANGED <<processes, files, draft, active, eventsLeft>>

(* _terminate_process.  A pid without a process raises out of a stop, and  *)
(* is not signalled by a start.                                            *)
Kill(c) ==
  /\ at[c] = "kill"
  /\ IF Running(target[c])
     THEN /\ Signalled(target[c])
          /\ Goes(c, "waitExit")
          /\ UNCHANGED <<call, view, target>>
     ELSE Finished(c) /\ UNCHANGED <<proc, told, draft, files>>
  /\ UNCHANGED <<kind, home, reused, mixed, active, eventsLeft>>

(* _wait_for_pid_exit.                                                     *)
WaitExit(c) ==
  /\ at[c] = "waitExit"
  /\ IF Running(target[c]) THEN Event ELSE UNCHANGED eventsLeft
  /\ IF call[c].phase = "abandon" THEN Finished(c) ELSE Goes(c, "recordRead") /\ UNCHANGED <<call, view, target>>
  /\ UNCHANGED <<processes, files, draft, active>>

(* _record_stopped_snapshot: write_daemon_status by a launcher.            *)
RecordRead(c) ==
  /\ at[c] = "recordRead"
  /\ \E current \in {snapshot, Nothing} :
       Reads(current) /\ draft' = [draft EXCEPT ![c] = Kept(Snapshot("stopped", target[c], view[c].root, "background"), current)]
  /\ Goes(c, "recordWrite")
  /\ UNCHANGED <<processes, files, call, view, target, active>>

RecordWrite(c) ==
  /\ at[c] = "recordWrite"
  /\ snapshot' = draft[c]
  /\ draft' = [draft EXCEPT ![c] = Nothing]
  /\ mixed' = mixed \union {p \in Pids : proc[p] \in {"prepare", "readyRead", "loop", "stopRead"}}
  /\ IF call[c].name = "restart"
     THEN Goes(c, "spawn") /\ UNCHANGED <<call, view, target>>
     ELSE Finished(c)
  /\ UNCHANGED <<proc, kind, home, told, reused, holder, guard, active, eventsLeft>>

-----------------------------------------------------------------------------

DaemonSteps(p) ==
  \/ Boot(p) \/ Acquire(p) \/ Refused(p) \/ Stamp(p) \/ WriteStarting(p) \/ Prepare(p)
  \/ ReadToWrite(p) \/ WriteStatus(p) \/ Stop(p) \/ Release(p) \/ Exit(p)

LauncherSteps(c) ==
  \/ Look(c) \/ ReadGuard(c) \/ TryGuard(c) \/ Ungrab(c) \/ Decide(c) \/ Spawn(c) \/ Await(c)
  \/ Timeout(c) \/ Confirm(c) \/ Kill(c) \/ WaitExit(c) \/ RecordRead(c) \/ RecordWrite(c)

Next ==
  \/ \E p \in Pids : DaemonSteps(p) \/ RunInTerminal(p) \/ Crash(p) \/ Interrupt(p) \/ Stranger(p)
  \/ \E c \in Clients : Call(c) \/ LauncherSteps(c)
  \/ AttachRoot

(* Every process runs, a daemon meets the lock free between two probes, a  *)
(* wait ends in time, and whoever may ask for a daemon asks for one.       *)
Fairness ==
  /\ \A p \in Pids : WF_vars(DaemonSteps(p)) /\ SF_vars(Acquire(p))
  /\ \A c \in Clients :
       /\ WF_vars(LauncherSteps(c))
       /\ SF_vars(Timeout(c) /\ UNCHANGED eventsLeft)
       /\ WF_vars(Call(c) /\ UNCHANGED eventsLeft)

Spec == Init /\ [][Next]_vars /\ Fairness

-----------------------------------------------------------------------------

(* OneDaemon: between acquire_daemon_start_guard and its release only the  *)
(* daemon with the lock works, and once it has written daemon.lock the     *)
(* file names it.                                                          *)
OneDaemon ==
  \A p \in Pids : proc[p] \in Guarded =>
    /\ holder = p
    /\ proc[p] # "stamp" => guard = [pid |-> p, root |-> home[p]]

(* SnapshotTellsOfDaemon: while a daemon is in its loop, daemon.json has   *)
(* it ready, under its pid, its root and its controller kind, unless the   *)
(* stopped record of a launcher fell into its life.                        *)
SnapshotTellsOfDaemon ==
  \A p \in Pids : proc[p] = "loop" /\ p \notin mixed => snapshot = Snapshot("ready", p, home[p], kind[p])

(* StopsOnlyBackground: what the launchers signal is a daemon that was     *)
(* started by a launcher: no daemon of a terminal and no other program,    *)
(* whatever happens between the look and the signal, unless the pid was    *)
(* given out again or daemon.json was written over.                        *)
StopsOnlyBackground ==
  [][\A c \in Clients : at[c] = "kill" /\ at'[c] = "waitExit" =>
       \/ target[c] \in reused \union mixed
       \/ proc[target[c]] \in Daemonic /\ kind[target[c]] = "background"]_vars

(* DaemonComesUp: when one launcher asks for a daemon again and again, and *)
(* crashes, interrupts and other requests come to an end, there is one in  *)
(* its loop from some time on: no leftover of a crash keeps it from that.  *)
DaemonComesUp == <>[](\E p \in Pids : proc[p] = "loop")

=============================================================================

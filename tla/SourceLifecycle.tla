--------------------------- MODULE SourceLifecycle ---------------------------
(***************************************************************************)
(* The lifecycle of one registered source of brain-sync: its portable      *)
(* manifest, its managed markdown file, and its machine-local runtime rows *)
(* (sync_polling, source_lifecycle_runtime, child_discovery_requests), as  *)
(* the daemon, the command-line and MCP processes, the user's own file     *)
(* operations, crashes and the passage of time change them.                *)
(*                                                                         *)
(* Every lifecycle operation is a process that runs through program        *)
(* points.  One step is one repository call: one SQLite transaction, one   *)
(* read of the manifest, one write of it, or one file operation; what      *)
(* other processes may do between two such calls is what the module is     *)
(* about.  Rows of different sources are independent, so one canonical id  *)
(* is modelled.                                                            *)
(***************************************************************************)
EXTENDS Naturals, FiniteSets, RuntimeRow

CONSTANTS
  Daemon,       \* the brain-sync run process
  Clients,      \* command-line and MCP processes
  Crashed,      \* stands for the tokens of operations that died
  Areas,        \* knowledge areas: the parent of a knowledge_path
  NoArea,
  Punctual,     \* TRUE: a running operation ends within its lease
  Commands,     \* the commands the clients issue
  MaxCommands,  \* bound: commands the clients issue
  MaxEvents     \* bound: user file operations, remote and local faults, crashes

Procs == {Daemon} \union Clients

ASSUME OwnersAssumption == Owners = Procs \union {Crashed} /\ NoOwner \notin Owners
ASSUME ProcsAssumption == Daemon \notin Clients /\ Crashed \notin Procs
ASSUME AreasAssumption == NoArea \notin Areas /\ IsFiniteSet(Areas)
ASSUME CommandsAssumption ==
  Commands \subseteq {"add", "update", "sync", "remove", "finalize", "move", "reconcile"}
ASSUME BoundsAssumption == Punctual \in BOOLEAN /\ MaxCommands \in Nat /\ MaxEvents \in Nat

VARIABLES
  manifest,      \* .brain-sync/sources/<id>.json
  files,         \* the areas that hold a markdown file with this identity
  rt,            \* the source_lifecycle_runtime row
  polling,       \* is there a sync_polling row
  child,         \* is there a child_discovery_requests row that asks for children
  fence,         \* who is inside BEGIN IMMEDIATE of a commit fence
  pc, snap, spot, dest, flag, row,   \* per process: program point and locals
  notice,        \* why the daemon owes a reconcile, if it does
  folderMove,    \* the folder move the watcher has queued
  commandsLeft, eventsLeft

portable == <<manifest, files>>
runtime == <<rt, polling, child, fence>>
locals == <<snap, spot, dest, flag, row>>
watch == <<notice, folderMove>>
bounds == <<commandsLeft, eventsLeft>>
vars == <<portable, runtime, pc, locals, watch, bounds>>

-----------------------------------------------------------------------------
(* The manifest.  "unregistered" is the absence of the file; hash is TRUE  *)
(* when content_hash, remote_fingerprint and materialized_utc are set.     *)

KnowledgeState == {"awaiting", "materialized", "stale", "missing"}

Manifest ==
  [st: KnowledgeState \union {"unregistered"}, path: Areas \union {NoArea}, hash: BOOLEAN]

NoManifest == [st |-> "unregistered", path |-> NoArea, hash |-> FALSE]

NewManifest(a) == [st |-> "awaiting", path |-> a, hash |-> FALSE]

Registered(m) == m.st # "unregistered"

(* The projection the poller works from leaves missing sources out.        *)
ActiveSource(m) == m.st \in {"awaiting", "materialized", "stale"}

(* What the serializer accepts; a write of anything else raises.           *)
Valid(m) ==
  /\ m.st = "awaiting" => ~m.hash
  /\ m.st \in {"materialized", "stale"} => m.hash

(* A mutated form: the scan's answer is taken before the manifest's path.  *)
ScannedFirst(m) == IF files = {} THEN {NoArea} ELSE files

(* The places a source file may be found: the manifest's own path first,   *)
(* then whichever file the identity scan or the prefix glob meets.         *)
Resolved(m) ==
  IF m.path \in files THEN {m.path}
  ELSE IF files = {} THEN {NoArea} ELSE files

(* A mutated form: the state is kept, though the path under it changed.    *)
RepathedOnly(m, a) == [m EXCEPT !.path = a, !.st = IF m.st = "missing" THEN "stale" ELSE m.st]

SyncedTo(m, a) ==
  [m EXCEPT !.path = a,
            !.st = IF m.st = "missing" \/ (m.path # a /\ m.st # "awaiting")
                   THEN "stale" ELSE m.st]

(* A mutated form: every source of a renamed folder becomes stale.         *)
RehomedStale(m, a) == [m EXCEPT !.path = a, !.st = "stale"]

(* The manifest after its area is set or renamed without a look at files.  *)
Rehomed(m, a) ==
  [m EXCEPT !.path = a,
            !.st = IF m.st \in {"awaiting", "missing"} THEN m.st ELSE "stale"]

Materialized(m, a) == [m EXCEPT !.st = "materialized", !.path = a, !.hash = TRUE]

MarkedMissing(m) == [m EXCEPT !.st = "missing"]

-----------------------------------------------------------------------------
Points ==
  {"idle",
   "syAcquire", "syReload", "syFetch", "syCommit", "syManifest", "syWrite", "sySettle",
   "syRelease", "syChildren", "sySave", "syErrorRelease",
   "syGoneRelease", "syGoneObserve", "syGoneMark", "syGoneWrite", "syGoneConfirm",
   "syGoneChildren",
   "rmAcquire", "rmFiles",
   "fiAcquire", "fiCheck", "fiRecheck", "fiDrop", "fiRestore", "fiWrite",
   "fiRestoreRow", "fiRestorePolling",
   "dePolling", "deRow", "deChild", "deManifest", "deRelease",
   "mvAcquire", "mvRead", "mvFile", "mvRenew", "mvReread", "mvRenewAgain", "mvSync", "mvWrite",
   "mvRollback", "mvRelease",
   "rcRow", "rcClean", "rcResolve", "rcFound", "rcSync", "rcWrite", "rcCommit",
   "rcObserve", "rcMark", "rcMarkWrite", "rcConfirm", "rcAbort", "rcPrune",
   "fmRead", "fmWrite",
   "adManifest", "adPolling", "adChild", "upRead", "upWrite", "upSave", "rqSave"}

DataTypes ==
  /\ manifest \in Manifest
  /\ files \in SUBSET Areas
  /\ rt \in Row
  /\ polling \in BOOLEAN
  /\ child \in BOOLEAN
  /\ fence \in Procs \union {NoOwner}
  /\ snap \in [Procs -> Manifest]
  /\ spot \in [Procs -> Areas \union {NoArea}]
  /\ dest \in [Procs -> Areas \union {NoArea}]
  /\ flag \in [Procs -> BOOLEAN]
  /\ row \in [Procs -> Row]
  /\ notice \in {"none", "changed", "starting"}
  /\ folderMove \in (Areas \X Areas) \union {<<>>}
  /\ commandsLeft \in 0 .. MaxCommands
  /\ eventsLeft \in 0 .. MaxEvents

TypeOK == DataTypes /\ pc \in [Procs -> Points]

(* A fresh brain, or one attached to this machine with a manifest that     *)
(* another machine wrote: no runtime row is inherited in either case.      *)
Init ==
  /\ \/ manifest = NoManifest /\ files = {}
     \/ \E a \in Areas : manifest = [st |-> "materialized", path |-> a, hash |-> TRUE] /\ files = {a}
     \/ \E a \in Areas : manifest = [st |-> "missing", path |-> a, hash |-> TRUE] /\ files = {}
  /\ rt = NoRow
  /\ polling = FALSE
  /\ child = FALSE
  /\ fence = NoOwner
  /\ pc = [p \in Procs |-> "idle"]
  /\ snap = [p \in Procs |-> NoManifest]
  /\ spot = [p \in Procs |-> NoArea]
  /\ dest = [p \in Procs |-> NoArea]
  /\ flag = [p \in Procs |-> FALSE]
  /\ row = [p \in Procs |-> NoRow]
  /\ notice = "starting"
  /\ folderMove = <<>>
  /\ commandsLeft = MaxCommands
  /\ eventsLeft = MaxEvents

-----------------------------------------------------------------------------
(* Steps of a process.                                                     *)

Goto(p, from, to) == pc[p] = from /\ pc' = [pc EXCEPT ![p] = to]

ForgetLocals(p) ==
  /\ snap' = [snap EXCEPT ![p] = NoManifest]
  /\ spot' = [spot EXCEPT ![p] = NoArea]
  /\ dest' = [dest EXCEPT ![p] = NoArea]
  /\ flag' = [flag EXCEPT ![p] = FALSE]
  /\ row' = [row EXCEPT ![p] = NoRow]

Return(p, from) == Goto(p, from, "idle") /\ ForgetLocals(p)

(* Every write of the runtime database waits for a fence to be released.   *)
DbFree == fence = NoOwner

(* The watcher turns a change of the files into a reconcile the daemon     *)
(* owes; until the daemon has started up there is no watcher.              *)
FilesBecome(S) ==
  /\ files' = S
  /\ notice' = IF S # files /\ notice = "none" THEN "changed" ELSE notice
  /\ UNCHANGED folderMove

Command(p, c) ==
  /\ p \in Clients
  /\ c \in Commands
  /\ pc[p] = "idle"
  /\ commandsLeft > 0
  /\ commandsLeft' = commandsLeft - 1

Event == eventsLeft > 0 /\ eventsLeft' = eventsLeft - 1

(* acquire_source_lifecycle_lease, with the handled lease_conflict outcome *)
(* of every operation that calls it.                                       *)
Acquire(p, from, to) ==
  /\ DbFree
  /\ \/ /\ MayAcquire(rt, p)
        /\ rt' = Acquired(rt, p)
        /\ Goto(p, from, to)
        /\ UNCHANGED locals
     \/ /\ ~MayAcquire(rt, p)
        /\ Return(p, from)
        /\ UNCHANGED rt
  /\ UNCHANGED <<portable, polling, child, fence, watch, bounds>>

(* clear_source_lifecycle_lease(owner_id = p) and on to the next point.    *)
Release(p, from, to) ==
  /\ DbFree
  /\ rt' = Cleared(rt, p)
  /\ Goto(p, from, to)
  /\ UNCHANGED <<portable, polling, child, fence, locals, watch, bounds>>

-----------------------------------------------------------------------------
(* Rewriting the manifest.  Nothing serializes its writers: each reads the *)
(* file, puts what it will write in snap, and replaces the file in another *)
(* step.  (A removal looks for the file and unlinks it; whatever is there  *)
(* by then goes, so that is one step.)                                     *)

(* A mutated form: a manifest that is gone is written all the same.        *)
RewritesAlways(p, from, m, write, gone) ==
  Goto(p, from, write) /\ snap' = [snap EXCEPT ![p] = m]

(* A manifest that is gone when it is read is not written.                 *)
Rewrites(p, from, m, write, gone) ==
  IF Registered(manifest)
  THEN Goto(p, from, write) /\ snap' = [snap EXCEPT ![p] = m]
  ELSE Goto(p, from, gone) /\ UNCHANGED snap

(* sync_manifest_to_found_path wants the manifest, the file, and a result  *)
(* that the serializer accepts, and raises without them.                   *)
MayFollow(a) == Registered(manifest) /\ a \in files /\ Valid(SyncedTo(manifest, a))

FollowFile(p, from, a, write, same, raises) ==
  LET found == SyncedTo(manifest, a) IN
  \/ /\ MayFollow(a)
     /\ found # manifest
     /\ Goto(p, from, write)
     /\ snap' = [snap EXCEPT ![p] = found]
  \/ MayFollow(a) /\ found = manifest /\ Goto(p, from, same) /\ UNCHANGED snap
  \/ ~MayFollow(a) /\ Goto(p, from, raises) /\ UNCHANGED snap

(* write_source_manifest, of what was read in an earlier step.             *)
WriteBack(p, from, to) ==
  /\ Goto(p, from, to)
  /\ manifest' = snap[p]
  /\ UNCHANGED <<files, runtime, locals, watch, bounds>>

-----------------------------------------------------------------------------
(* sync_active_source_once: the daemon polls the source.                   *)

SyncStart ==
  /\ notice # "starting"
  /\ ActiveSource(manifest)
  /\ Goto(Daemon, "idle", "syAcquire")
  /\ flag' = [flag EXCEPT ![Daemon] = child]
  /\ UNCHANGED <<portable, runtime, snap, spot, dest, row, watch, bounds>>

SyncReload(p) ==
  /\ \/ /\ ActiveSource(manifest)
        /\ snap' = [snap EXCEPT ![p] = manifest]
        /\ Goto(p, "syReload", "syFetch")
     \/ /\ ~ActiveSource(manifest)
        /\ Goto(p, "syReload", "syRelease")
        /\ UNCHANGED snap
  /\ UNCHANGED <<portable, runtime, spot, dest, flag, row, watch, bounds>>

(* A mutated form: the fast path does not ask whether the state is settled. *)
UnchangedAlwaysSkips(m) == m.hash

(* The adapter answers UNCHANGED only against a stored fingerprint; the    *)
(* fast path also wants a settled source and its file, and the guard below *)
(* it lets an unchanged source without a file alone unless it is stale.    *)
UnchangedSkips(m) ==
  /\ m.hash
  /\ \/ m.st = "materialized" /\ files # {}
     \/ m.st # "stale" /\ files = {}

(* prepare_source_sync: nothing is written while the remote is awaited.    *)
(* An unchanged remote is skipped where it may be; a changed one is an     *)
(* event, and so are missing credentials, an error and a remote 404.       *)
SyncFetch(p) ==
  /\ \/ ~UnchangedSkips(snap[p]) /\ Goto(p, "syFetch", "syCommit") /\ UNCHANGED bounds
     \/ UnchangedSkips(snap[p]) /\ Goto(p, "syFetch", "syRelease") /\ UNCHANGED bounds
     \/ /\ Event
        /\ UNCHANGED commandsLeft
        /\ \E to \in {"syCommit", "syRelease", "syErrorRelease", "syGoneRelease"} : Goto(p, "syFetch", to)
  /\ UNCHANGED <<portable, runtime, locals, watch>>

(* A mutated form: the commit section trusts the lease it once acquired.   *)
CommitsWithoutRenewal(p) == DbFree

(* process_prepared_source renews its lease inside the fence.              *)
CommitsAsOwner(p) == DbFree /\ MayRenew(rt, p)

(* The first half of materialize_markdown: the file is written, under the  *)
(* area of the state loaded before the fetch.                              *)
SyncWrite(p) ==
  /\ CommitsAsOwner(p)
  /\ Goto(p, "syCommit", "syManifest")
  /\ fence' = p
  /\ spot' = [spot EXCEPT ![p] = IF snap[p].path \in files THEN NoArea ELSE snap[p].path]
  /\ FilesBecome(files \union {snap[p].path})
  /\ UNCHANGED <<manifest, rt, polling, child, snap, dest, flag, row, bounds>>

SyncConflict(p) ==
  /\ DbFree
  /\ ~MayRenew(rt, p)
  /\ Return(p, "syCommit")
  /\ UNCHANGED <<portable, runtime, watch, bounds>>

(* The second half: the manifest is read, and written in the next step.    *)
SyncManifest(p) ==
  /\ Rewrites(p, "syManifest", Materialized(manifest, snap[p].path), "syWrite", "sySettle")
  /\ UNCHANGED <<portable, runtime, spot, dest, flag, row, watch, bounds>>

(* A mutated form: the failed commit section keeps its fence.              *)
KeepsFence(p) == UNCHANGED fence

DropsFence(p) == fence' = NoOwner

(* A write fails, of the file or of the manifest: the file is rolled back, *)
(* unless the error was a lock contention, and the fence with it.          *)
SyncWriteFails(p) ==
  /\ Event
  /\ \E from \in {"syManifest", "syWrite"} : Goto(p, from, "syErrorRelease")
  /\ \E S \in {files, files \ {spot[p]}} : FilesBecome(S)
  /\ DropsFence(p)
  /\ UNCHANGED <<manifest, rt, polling, child, locals, commandsLeft>>

SyncSettle(p) ==
  /\ Goto(p, "sySettle", "syChildren")
  /\ polling' = TRUE
  /\ rt' = Pruned(Cleared(rt, p))
  /\ fence' = NoOwner
  /\ UNCHANGED <<portable, child, locals, watch, bounds>>

(* process_discovered_children drops the request it loaded at the start.   *)
SyncChildren(p) ==
  /\ DbFree
  /\ Goto(p, "syChildren", "sySave")
  /\ child' = (child /\ ~flag[p])
  /\ UNCHANGED <<portable, rt, polling, fence, locals, watch, bounds>>

(* save_source_sync_progress upserts the polling row.                      *)
SyncSave(p) ==
  /\ DbFree
  /\ Return(p, "sySave")
  /\ polling' = TRUE
  /\ UNCHANGED <<portable, rt, child, fence, watch, bounds>>

SyncGoneChildren(p) ==
  /\ DbFree
  /\ Return(p, "syGoneChildren")
  /\ child' = (child /\ ~flag[p])
  /\ UNCHANGED <<portable, rt, polling, fence, watch, bounds>>

(* A mutated form: an observation that does not look for a lease.          *)
ObservesDespiteLease == Registered(manifest)

MayObserve == Registered(manifest) /\ ~LeaseActive(rt)

(* observe_missing_source: inside the fence the manifest is looked at,     *)
(* read again and marked unless it says missing already; the rows follow   *)
(* when the fence commits, also when the manifest went in between.         *)
Observe(p, from, mark, confirm, done) ==
  /\ DbFree
  /\ \/ /\ MayObserve
        /\ Goto(p, from, IF manifest.st = "missing" THEN confirm ELSE mark)
        /\ fence' = p
     \/ /\ ~MayObserve
        /\ Goto(p, from, done)
        /\ UNCHANGED fence
  /\ UNCHANGED <<portable, rt, polling, child, locals, watch, bounds>>

ObserveMark(p, mark, write, confirm) ==
  /\ Rewrites(p, mark, MarkedMissing(manifest), write, confirm)
  /\ UNCHANGED <<portable, runtime, spot, dest, flag, row, watch, bounds>>

ObserveConfirm(p, confirm, done) ==
  /\ Goto(p, confirm, done)
  /\ rt' = Confirmed(rt)
  /\ polling' = FALSE
  /\ fence' = NoOwner
  /\ UNCHANGED <<portable, child, locals, watch, bounds>>

Sync ==
  \/ SyncStart
  \/ Acquire(Daemon, "syAcquire", "syReload")
  \/ SyncReload(Daemon)
  \/ SyncFetch(Daemon)
  \/ SyncWrite(Daemon)
  \/ SyncConflict(Daemon)
  \/ SyncManifest(Daemon)
  \/ WriteBack(Daemon, "syWrite", "sySettle")
  \/ SyncWriteFails(Daemon)
  \/ SyncSettle(Daemon)
  \/ Release(Daemon, "syRelease", "syChildren")
  \/ SyncChildren(Daemon)
  \/ SyncSave(Daemon)
  \/ Release(Daemon, "syErrorRelease", "sySave")
  \/ Release(Daemon, "syGoneRelease", "syGoneObserve")
  \/ Observe(Daemon, "syGoneObserve", "syGoneMark", "syGoneConfirm", "syGoneChildren")
  \/ ObserveMark(Daemon, "syGoneMark", "syGoneWrite", "syGoneConfirm")
  \/ WriteBack(Daemon, "syGoneWrite", "syGoneConfirm")
  \/ ObserveConfirm(Daemon, "syGoneConfirm", "syGoneChildren")
  \/ SyncGoneChildren(Daemon)

-----------------------------------------------------------------------------
(* remove_source: the source is resolved in any state, then everything is  *)
(* dropped under a ten-minute lease that is never renewed.                 *)

StartOn(p, c, to) ==
  /\ Command(p, c)
  /\ Registered(manifest)
  /\ Goto(p, "idle", to)
  /\ UNCHANGED <<portable, runtime, watch, eventsLeft>>

RemoveStart(p) == StartOn(p, "remove", "rmAcquire") /\ UNCHANGED locals

RemoveFiles(p) ==
  /\ Goto(p, "rmFiles", "dePolling")
  /\ FilesBecome({})
  /\ UNCHANGED <<manifest, runtime, locals, bounds>>

(* The deletion raises halfway (a file is locked): what was deleted stays  *)
(* deleted, and only the lease is given back.                              *)
RemoveFails(p) ==
  /\ Event
  /\ Goto(p, "rmFiles", "deRelease")
  /\ \E S \in SUBSET files : FilesBecome(S)
  /\ UNCHANGED <<manifest, runtime, locals, commandsLeft>>

(* _deregister_source, and the same calls inline in finalize_missing: the  *)
(* polling row, the runtime row with the lease in it, the child request,   *)
(* and the manifest last.                                                  *)
DropPolling(p) ==
  /\ DbFree
  /\ Goto(p, "dePolling", "deRow")
  /\ polling' = FALSE
  /\ UNCHANGED <<portable, rt, child, fence, locals, watch, bounds>>

DropRow(p, from, to) ==
  /\ DbFree
  /\ Goto(p, from, to)
  /\ rt' = NoRow
  /\ UNCHANGED <<portable, polling, child, fence, locals, watch, bounds>>

DropChild(p) ==
  /\ DbFree
  /\ Goto(p, "deChild", "deManifest")
  /\ child' = FALSE
  /\ UNCHANGED <<portable, rt, polling, fence, locals, watch, bounds>>

DropManifest(p) ==
  /\ Goto(p, "deManifest", "deRelease")
  /\ manifest' = NoManifest
  /\ UNCHANGED <<files, runtime, locals, watch, bounds>>

DeregisterRelease(p) ==
  /\ DbFree
  /\ Return(p, "deRelease")
  /\ rt' = Cleared(rt, p)
  /\ UNCHANGED <<portable, polling, child, fence, watch, bounds>>

Remove(p) ==
  \/ RemoveStart(p)
  \/ Acquire(p, "rmAcquire", "rmFiles")
  \/ RemoveFiles(p)
  \/ RemoveFails(p)

Deregister(p) ==
  \/ DropPolling(p)
  \/ DropRow(p, "deRow", "deChild")
  \/ DropChild(p)
  \/ DropManifest(p)
  \/ DeregisterRelease(p)

-----------------------------------------------------------------------------
(* finalize_missing: the explicit second stage of the missing protocol.    *)

(* Any canonical id is accepted, one that is not registered too.           *)
FinalizeStart(p) ==
  /\ Command(p, "finalize")
  /\ Goto(p, "idle", "fiAcquire")
  /\ UNCHANGED <<portable, runtime, locals, watch, eventsLeft>>

Eligible(m) == m.st = "missing"

(* Reads the manifest and looks for the file; a source that is gone or is  *)
(* not missing only loses its runtime row.                                 *)
FinalizeCheck(p) ==
  /\ \E a \in Resolved(manifest) :
       /\ spot' = [spot EXCEPT ![p] = IF Registered(manifest) THEN a ELSE NoArea]
       /\ \/ ~Registered(manifest) /\ Goto(p, "fiCheck", "fiDrop")
          \/ Registered(manifest) /\ a # NoArea /\ Goto(p, "fiCheck", "fiRestore")
          \/ /\ Registered(manifest) /\ a = NoArea /\ ~Eligible(manifest)
             /\ Goto(p, "fiCheck", "fiDrop")
          \/ /\ Registered(manifest) /\ a = NoArea /\ Eligible(manifest)
             /\ Goto(p, "fiCheck", "fiRecheck")
  /\ snap' = [snap EXCEPT ![p] = manifest]
  /\ UNCHANGED <<portable, runtime, dest, flag, row, watch, bounds>>

(* The commit revalidation, with the manifest read before it.              *)
FinalizeRecheck(p) ==
  /\ \E a \in Resolved(snap[p]) :
       /\ spot' = [spot EXCEPT ![p] = a]
       /\ Goto(p, "fiRecheck", IF a = NoArea THEN "dePolling" ELSE "fiRestore")
  /\ UNCHANGED <<portable, runtime, snap, dest, flag, row, watch, bounds>>

(* _return_rediscovered_not_missing; a manifest or a file that is gone,    *)
(* and a manifest the serializer refuses, raise, and only the lease is     *)
(* undone.                                                                 *)
FinalizeRestore(p) ==
  /\ FollowFile(p, "fiRestore", spot[p], "fiWrite", "fiRestoreRow", "deRelease")
  /\ UNCHANGED <<portable, runtime, spot, dest, flag, row, watch, bounds>>

FinalizeRestorePolling(p) ==
  /\ DbFree
  /\ Goto(p, "fiRestorePolling", "deRelease")
  /\ polling' = TRUE
  /\ UNCHANGED <<portable, rt, child, fence, locals, watch, bounds>>

Finalize(p) ==
  \/ FinalizeStart(p)
  \/ Acquire(p, "fiAcquire", "fiCheck")
  \/ FinalizeCheck(p)
  \/ FinalizeRecheck(p)
  \/ FinalizeRestore(p)
  \/ WriteBack(p, "fiWrite", "fiRestoreRow")
  \/ DropRow(p, "fiRestoreRow", "fiRestorePolling")
  \/ FinalizeRestorePolling(p)
  \/ DropRow(p, "fiDrop", "deRelease")

-----------------------------------------------------------------------------
(* move_source to another area: flag says the markdown file was moved.     *)

MoveStart(p) ==
  /\ StartOn(p, "move", "mvAcquire")
  /\ \E a \in Areas : dest' = [dest EXCEPT ![p] = a]
  /\ UNCHANGED <<snap, spot, flag, row>>

MoveRead(p) ==
  /\ \/ ~Registered(manifest) /\ Goto(p, "mvRead", "mvRelease") /\ UNCHANGED spot
     \/ /\ Registered(manifest)
        /\ Goto(p, "mvRead", "mvFile")
        /\ \E a \in Resolved(manifest) : spot' = [spot EXCEPT ![p] = a]
  /\ UNCHANGED <<portable, runtime, snap, dest, flag, row, watch, bounds>>

(* A mutated form: a move that does not look at its destination.           *)
OntoAnything(p) == spot[p] \in files /\ spot[p] # dest[p]

(* A mutated form: a move that does not look at its origin.                *)
FromAnywhere(p) == spot[p] # dest[p] /\ dest[p] \notin files

Movable(p) == spot[p] \in files /\ spot[p] # dest[p] /\ dest[p] \notin files

(* _move_portable_path does nothing without a source file, and raises when *)
(* the destination exists.                                                 *)
MoveFile(p) ==
  /\ \/ /\ Movable(p)
        /\ Goto(p, "mvFile", "mvRenew")
        /\ FilesBecome((files \ {spot[p]}) \union {dest[p]})
     \/ /\ ~Movable(p)
        /\ Goto(p, "mvFile", IF spot[p] \in files /\ spot[p] # dest[p] THEN "mvRelease" ELSE "mvRenew")
        /\ UNCHANGED <<files, watch>>
  /\ flag' = [flag EXCEPT ![p] = Movable(p)]
  /\ UNCHANGED <<manifest, runtime, snap, spot, dest, row, bounds>>

(* _renew_owned_lease_or_raise_conflict.                                   *)
MoveRenew(p, from, to) ==
  /\ DbFree
  /\ IF MayRenew(rt, p)
     THEN Goto(p, from, to) /\ rt' = Renewed(rt)
     ELSE Goto(p, from, "mvRollback") /\ UNCHANGED rt
  /\ UNCHANGED <<portable, polling, child, fence, locals, watch, bounds>>

(* A manifest that vanished returns not_found, with no rollback.           *)
MoveReread(p) ==
  /\ Goto(p, "mvReread", IF Registered(manifest) THEN "mvRenewAgain" ELSE "mvRelease")
  /\ UNCHANGED <<portable, runtime, locals, watch, bounds>>

(* The manifest follows the file that was moved, or else the file that was *)
(* found; without a file only its area is set.                             *)
MoveSync(p) ==
  /\ \/ flag[p] /\ FollowFile(p, "mvSync", dest[p], "mvWrite", "mvRelease", "mvRollback")
     \/ /\ ~flag[p] /\ spot[p] # NoArea
        /\ FollowFile(p, "mvSync", spot[p], "mvWrite", "mvRelease", "mvRollback")
     \/ /\ ~flag[p] /\ spot[p] = NoArea
        /\ Rewrites(p, "mvSync", Rehomed(manifest, dest[p]), "mvWrite", "mvRelease")
  /\ UNCHANGED <<portable, runtime, spot, dest, flag, row, watch, bounds>>

(* rollback_portable_path_move: nothing to undo, undone, or refused.       *)
MoveRollback(p) ==
  /\ Goto(p, "mvRollback", "mvRelease")
  /\ IF flag[p] /\ dest[p] \in files /\ spot[p] \notin files
     THEN FilesBecome((files \ {dest[p]}) \union {spot[p]})
     ELSE UNCHANGED <<files, watch>>
  /\ UNCHANGED <<manifest, runtime, locals, bounds>>

MoveRelease(p) ==
  /\ DbFree
  /\ Return(p, "mvRelease")
  /\ rt' = Pruned(Cleared(rt, p))
  /\ UNCHANGED <<portable, polling, child, fence, watch, bounds>>

Move(p) ==
  \/ MoveStart(p)
  \/ Acquire(p, "mvAcquire", "mvRead")
  \/ MoveRead(p)
  \/ MoveFile(p)
  \/ MoveRenew(p, "mvRenew", "mvReread")
  \/ MoveReread(p)
  \/ MoveRenew(p, "mvRenewAgain", "mvSync")
  \/ MoveSync(p)
  \/ WriteBack(p, "mvWrite", "mvRelease")
  \/ MoveRollback(p)
  \/ MoveRelease(p)

-----------------------------------------------------------------------------
(* reconcile_sources.  The daemon reconciles when it starts and after the  *)
(* watcher saw the files change; clients reconcile on command.  snap is    *)
(* the manifest as the first scan read it, row the runtime row likewise.   *)
(* A reconcile owed for starting stays owed until it is over: the watcher  *)
(* only runs after it.                                                     *)

ReconcileStart(p) ==
  /\ \/ /\ p = Daemon
        /\ notice # "none"
        /\ Goto(p, "idle", "rcRow")
        /\ notice' = IF notice = "changed" THEN "none" ELSE notice
        /\ UNCHANGED commandsLeft
     \/ Command(p, "reconcile") /\ Goto(p, "idle", "rcRow") /\ UNCHANGED notice
  /\ snap' = [snap EXCEPT ![p] = manifest]
  /\ UNCHANGED <<portable, runtime, spot, dest, flag, row, folderMove, eventsLeft>>

(* A mutated form: the row of a missing source is kept, lease and all.     *)
RewritableUnlessMissing(m, r) == r.present /\ ~LeaseActive(r) /\ m.st # "missing"

(* Which rows reconciliation rewrites: those of no source, and those whose *)
(* lease is gone or over; the history of a missing source is kept.         *)
Rewritable(m, r) ==
  /\ r.present
  /\ ~LeaseActive(r)
  /\ m.st = "missing" => r.owner # NoOwner

ReconcileRow(p) ==
  /\ Goto(p, "rcRow", IF Rewritable(snap[p], rt) THEN "rcClean" ELSE "rcResolve")
  /\ row' = [row EXCEPT ![p] = IF Rewritable(snap[p], rt) THEN rt ELSE NoRow]
  /\ UNCHANGED <<portable, runtime, snap, spot, dest, flag, watch, bounds>>

(* The row read before is written back without its lease, or deleted; what *)
(* the table holds by now is not looked at.                                *)
ReconcileClean(p) ==
  /\ DbFree
  /\ Goto(p, "rcClean", "rcResolve")
  /\ rt' = IF snap[p].st = "missing" THEN Stripped(row[p]) ELSE NoRow
  /\ row' = [row EXCEPT ![p] = NoRow]
  /\ UNCHANGED <<portable, polling, child, fence, snap, spot, dest, flag, watch, bounds>>

(* The file is looked for outside of any fence.                            *)
ReconcileResolve(p) ==
  /\ \E a \in Resolved(snap[p]) :
       Goto(p, "rcResolve",
            IF ~Registered(snap[p]) \/ (a = NoArea /\ snap[p].st = "awaiting") THEN "rcPrune"
            ELSE IF a = NoArea THEN "rcObserve" ELSE "rcFound")
  /\ UNCHANGED <<portable, runtime, locals, watch, bounds>>

(* The manifest is read again, and the file resolved again, in the fence;  *)
(* flag keeps whether the first scan called the source missing.            *)
ReconcileFound(p) ==
  /\ DbFree
  /\ \E a \in Resolved(manifest) :
       \/ /\ Registered(manifest) /\ ~LeaseActive(rt) /\ a # NoArea
          /\ Goto(p, "rcFound", "rcSync")
          /\ fence' = p
          /\ spot' = [spot EXCEPT ![p] = a]
          /\ flag' = [flag EXCEPT ![p] = snap[p].st = "missing"]
       \/ /\ ~Registered(manifest) \/ LeaseActive(rt) \/ a = NoArea
          /\ Goto(p, "rcFound", "rcPrune")
          /\ UNCHANGED <<fence, spot, flag>>
  /\ UNCHANGED <<portable, rt, polling, child, snap, dest, row, watch, bounds>>

(* The manifest is read once more, to follow the file; a manifest or file  *)
(* that went, or a result the serializer refuses, ends the reconcile.      *)
ReconcileSync(p) ==
  /\ FollowFile(p, "rcSync", spot[p], "rcWrite", "rcCommit", "rcAbort")
  /\ UNCHANGED <<portable, runtime, spot, dest, flag, row, watch, bounds>>

(* The rows of a source that comes back are restored when it commits.      *)
ReconcileCommit(p) ==
  /\ Goto(p, "rcCommit", "rcPrune")
  /\ rt' = IF flag[p] THEN NoRow ELSE rt
  /\ polling' = (polling \/ flag[p])
  /\ fence' = NoOwner
  /\ UNCHANGED <<portable, child, locals, watch, bounds>>

(* The error rolls the fence back, reaches the daemon's main loop, and     *)
(* ends the daemon.                                                        *)
ReconcileAbort(p) ==
  /\ Return(p, "rcAbort")
  /\ fence' = NoOwner
  /\ notice' = IF p = Daemon THEN "starting" ELSE notice
  /\ folderMove' = IF p = Daemon THEN <<>> ELSE folderMove
  /\ UNCHANGED <<portable, rt, polling, child, bounds>>

(* Polling rows of ids that the first scan did not see are orphans.        *)
ReconcilePrune(p) ==
  /\ DbFree
  /\ Return(p, "rcPrune")
  /\ polling' = (polling /\ Registered(snap[p]))
  /\ notice' = IF p = Daemon /\ notice = "starting" THEN "none" ELSE notice
  /\ UNCHANGED <<portable, rt, child, fence, folderMove, bounds>>

Reconcile(p) ==
  \/ ReconcileStart(p)
  \/ ReconcileRow(p)
  \/ ReconcileClean(p)
  \/ ReconcileResolve(p)
  \/ ReconcileFound(p)
  \/ ReconcileSync(p)
  \/ WriteBack(p, "rcWrite", "rcCommit")
  \/ ReconcileCommit(p)
  \/ Observe(p, "rcObserve", "rcMark", "rcConfirm", "rcPrune")
  \/ ObserveMark(p, "rcMark", "rcMarkWrite", "rcConfirm")
  \/ WriteBack(p, "rcMarkWrite", "rcConfirm")
  \/ ObserveConfirm(p, "rcConfirm", "rcPrune")
  \/ ReconcileAbort(p)
  \/ ReconcilePrune(p)

-----------------------------------------------------------------------------
(* The operations that take no lease: add_source, update_source and the    *)
(* sync command.                                                           *)

AddStart(p) ==
  /\ Command(p, "add")
  /\ ~Registered(manifest)
  /\ Goto(p, "idle", "adManifest")
  /\ \E a \in Areas : dest' = [dest EXCEPT ![p] = a]
  /\ \E wanted \in BOOLEAN : flag' = [flag EXCEPT ![p] = wanted]
  /\ UNCHANGED <<portable, runtime, snap, spot, row, watch, eventsLeft>>

AddManifest(p) ==
  /\ Goto(p, "adManifest", "adPolling")
  /\ manifest' = NewManifest(dest[p])
  /\ UNCHANGED <<files, runtime, locals, watch, bounds>>

AddPolling(p) ==
  /\ DbFree
  /\ polling' = TRUE
  /\ IF flag[p] THEN Goto(p, "adPolling", "adChild") /\ UNCHANGED locals
                ELSE Return(p, "adPolling")
  /\ UNCHANGED <<portable, rt, child, fence, watch, bounds>>

AddChild(p) ==
  /\ DbFree
  /\ Return(p, "adChild")
  /\ child' = TRUE
  /\ UNCHANGED <<portable, rt, polling, fence, watch, bounds>>

Add(p) == AddStart(p) \/ AddManifest(p) \/ AddPolling(p) \/ AddChild(p)

UpdateStart(p) == StartOn(p, "update", "upRead") /\ UNCHANGED locals

(* update_source_sync_settings rewrites the manifest when a setting is     *)
(* given; its settings are not told apart here, so it writes back what it  *)
(* read.                                                                   *)
UpdateRead(p) ==
  /\ \/ Rewrites(p, "upRead", manifest, "upWrite", "upSave")
     \/ Goto(p, "upRead", "upSave") /\ UNCHANGED snap
  /\ UNCHANGED <<portable, runtime, spot, dest, flag, row, watch, bounds>>

UpdateSave(p) ==
  /\ DbFree
  /\ Return(p, "upSave")
  /\ child' \in BOOLEAN
  /\ UNCHANGED <<portable, rt, polling, fence, watch, bounds>>

RequestStart(p) == ActiveSource(manifest) /\ StartOn(p, "sync", "rqSave") /\ UNCHANGED locals

(* request_source_polls_now upserts the row, whatever the source became.   *)
RequestSave(p) ==
  /\ DbFree
  /\ Return(p, "rqSave")
  /\ polling' = TRUE
  /\ UNCHANGED <<portable, rt, child, fence, watch, bounds>>

Update(p) ==
  \/ UpdateStart(p)
  \/ UpdateRead(p)
  \/ WriteBack(p, "upWrite", "upSave")
  \/ UpdateSave(p)

Unleased(p) == Add(p) \/ Update(p) \/ RequestStart(p) \/ RequestSave(p)

(* apply_folder_move: the daemon takes a queued move, once; it looks for   *)
(* sources under the renamed folder, and again inside the fence.           *)
Under(a) == Registered(manifest) /\ manifest.path = a

FolderMoveStart ==
  /\ folderMove # <<>>
  /\ folderMove' = <<>>
  /\ IF Under(folderMove[1])
     THEN /\ Goto(Daemon, "idle", "fmRead")
          /\ spot' = [spot EXCEPT ![Daemon] = folderMove[1]]
          /\ dest' = [dest EXCEPT ![Daemon] = folderMove[2]]
     ELSE Goto(Daemon, "idle", "idle") /\ UNCHANGED <<spot, dest>>
  /\ UNCHANGED <<portable, runtime, snap, flag, row, notice, bounds>>

FolderMoveRead ==
  /\ DbFree
  /\ \/ /\ Under(spot[Daemon]) /\ ~LeaseActive(rt)
        /\ Goto(Daemon, "fmRead", "fmWrite")
        /\ fence' = Daemon
        /\ snap' = [snap EXCEPT ![Daemon] = Rehomed(manifest, dest[Daemon])]
        /\ UNCHANGED <<spot, dest, flag, row>>
     \/ /\ ~Under(spot[Daemon]) \/ LeaseActive(rt)
        /\ Return(Daemon, "fmRead")
        /\ UNCHANGED fence
  /\ UNCHANGED <<portable, rt, polling, child, watch, bounds>>

FolderMoveWrite ==
  /\ Return(Daemon, "fmWrite")
  /\ manifest' = snap[Daemon]
  /\ fence' = NoOwner
  /\ UNCHANGED <<files, rt, polling, child, watch, bounds>>

ApplyFolderMove == FolderMoveStart \/ FolderMoveRead \/ FolderMoveWrite

-----------------------------------------------------------------------------
(* The world around the code.                                              *)

(* The user deletes the file, puts a copy of it back, or moves it.         *)
UserDeletes == Event /\ \E a \in files : FilesBecome(files \ {a})

UserRestores == Event /\ Registered(manifest) /\ files = {} /\ \E a \in Areas : FilesBecome({a})

UserMoves == Event /\ \E a \in files, b \in Areas \ files : FilesBecome((files \ {a}) \union {b})

UserTouchesFiles ==
  /\ UserDeletes \/ UserRestores \/ UserMoves
  /\ UNCHANGED <<manifest, runtime, pc, locals, commandsLeft>>

(* The user renames the whole folder of the source, onto a new name.       *)
UserRenamesFolder ==
  /\ Event
  /\ folderMove = <<>>
  /\ manifest.path \in Areas
  /\ \E b \in Areas \ (files \union {manifest.path}) :
       /\ files' = IF manifest.path \in files THEN (files \ {manifest.path}) \union {b} ELSE files
       /\ notice' = IF notice = "none" THEN "changed" ELSE notice
       /\ folderMove' = IF notice = "starting" THEN <<>> ELSE <<manifest.path, b>>
  /\ UNCHANGED <<manifest, runtime, pc, locals, commandsLeft>>

(* Time passes the expiry of the lease.                                    *)
Expire ==
  /\ LeaseActive(rt)
  /\ Punctual => rt.owner = Crashed
  /\ rt' = [rt EXCEPT !.live = FALSE]
  /\ UNCHANGED <<portable, polling, child, fence, pc, locals, watch, bounds>>

(* A process dies: SQLite rolls its fence back, its lease outlives it.     *)
Crash(p) ==
  /\ Event
  /\ p = Daemon \/ pc[p] # "idle"
  /\ pc' = [pc EXCEPT ![p] = "idle"]
  /\ ForgetLocals(p)
  /\ fence' = IF fence = p THEN NoOwner ELSE fence
  /\ rt' = Abandoned(rt, p, Crashed)
  /\ notice' = IF p = Daemon THEN "starting" ELSE notice
  /\ folderMove' = IF p = Daemon THEN <<>> ELSE folderMove
  /\ UNCHANGED <<portable, polling, child, commandsLeft>>

World == UserTouchesFiles \/ UserRenamesFolder \/ Expire \/ (\E p \in Procs : Crash(p))

-----------------------------------------------------------------------------
ClientStep(p) ==
  \/ Remove(p)
  \/ Deregister(p)
  \/ Finalize(p)
  \/ Move(p)
  \/ Unleased(p)

Next ==
  \/ Sync
  \/ ApplyFolderMove
  \/ \E p \in Procs : Reconcile(p)
  \/ \E p \in Clients : ClientStep(p)
  \/ World

Spec == Init /\ [][Next]_vars

(* Running operations go on, the daemon polls and reconciles, and the      *)
(* leases of the dead run out.  Nobody has to issue a command, and no      *)
(* fault, crash or user action has to happen.                              *)
Continues(p) == pc[p] # "idle" /\ (Reconcile(p) \/ ClientStep(p))

FairSpec ==
  /\ Spec
  /\ WF_vars(Sync)
  /\ WF_vars(ApplyFolderMove)
  /\ WF_vars(Reconcile(Daemon))
  /\ \A p \in Clients : WF_vars(Continues(p))
  /\ WF_vars(Expire /\ rt.owner = Crashed)

-----------------------------------------------------------------------------
(* What holds of every behaviour.                                          *)

LeasedPoints ==
  {"syReload", "syFetch", "syCommit", "syManifest", "syWrite", "sySettle",
   "syRelease", "syErrorRelease", "syGoneRelease",
   "rmFiles",
   "fiCheck", "fiRecheck", "fiDrop", "fiRestore", "fiWrite",
   "fiRestoreRow", "fiRestorePolling",
   "dePolling", "deRow", "deChild", "deManifest", "deRelease",
   "mvRead", "mvFile", "mvRenew", "mvReread", "mvRenewAgain", "mvSync", "mvWrite",
   "mvRollback", "mvRelease"}

FencedPoints ==
  {"syManifest", "syWrite", "sySettle", "syGoneMark", "syGoneWrite", "syGoneConfirm",
   "rcMark", "rcMarkWrite", "rcConfirm", "rcSync", "rcWrite", "rcCommit", "rcAbort",
   "fmWrite"}

(* Between reading the manifest and writing it back.                       *)
WritePoints ==
  {"syWrite", "syGoneWrite", "fiWrite", "mvWrite", "rcWrite", "rcMarkWrite", "fmWrite", "upWrite"}

(* Every way out of an operation gives its lease back, early returns,      *)
(* conflicts and failures included: only a crash leaves a lease behind.    *)
NoLeakedLease == \A p \in Procs : rt.owner = p => pc[p] \in LeasedPoints

(* The commit fence is held by exactly the process that is inside a commit *)
(* section: two sections never overlap, whatever the leases did, and no    *)
(* failure path leaves the runtime database locked.                        *)
FenceMatchesSection == \A p \in Procs : fence = p <=> pc[p] \in FencedPoints

(* A poll that writes the source file and its manifest owns the lifecycle  *)
(* lease while it writes, even when the lease expired during the fetch or  *)
(* another operation took it over.                                         *)
CommitUnderLease ==
  \A p \in Procs : pc[p] \in {"syManifest", "syWrite", "sySettle"} => rt.owner = p

(* No interleaving leads to a manifest its own serializer would refuse to  *)
(* write or to read: settled states have their hashes, awaiting ones none. *)
ManifestStaysValid == Valid(manifest)

(* The source has no manifest and nobody is about to write one back.       *)
Gone == ~Registered(manifest) /\ \A p \in Procs : pc[p] \notin WritePoints

(* Once a source is gone it stays gone until somebody adds it: no poll,    *)
(* reconcile, move, update or missing observation that was under way when  *)
(* the manifest was unlinked starts to rewrite it afterwards.              *)
NoResurrection == [][Gone /\ ~Gone' => \E p \in Clients : pc[p] = "adManifest"]_vars

(* The watcher, reconcile and remote-missing paths leave the manifest of a *)
(* source alone while a lifecycle operation holds its lease; the commands  *)
(* add and update look for no lease.                                       *)
SoftPathsRespectLease ==
  [][manifest' # manifest /\ LeaseActive(rt)
       => \E p \in Procs : /\ pc[p] \in LeasedPoints \union {"adManifest", "upWrite"}
                           /\ pc'[p] # pc[p]]_vars

(* A copy of the source file disappears only by the hand of the user, by a *)
(* remove, or when a failed poll takes back what it wrote: moves and their *)
(* rollbacks never overwrite one file with another.                        *)
NoFileLost ==
  [][Cardinality(files') < Cardinality(files)
       => eventsLeft' < eventsLeft \/ \E p \in Clients : pc[p] = "rmFiles"]_vars

(* Every operation comes to its end: no conflict, failure or crash of      *)
(* another process leaves a client waiting for ever.                       *)
OperationsEnd == \A p \in Clients : pc[p] # "idle" ~> pc[p] = "idle"

(* A source whose content is owed (awaiting its first poll, or stale) does *)
(* not stay owed: it is materialized, found missing, or removed.           *)
OwedContentArrives ==
  manifest.st \in {"awaiting", "stale"} ~> manifest.st \in {"materialized", "missing", "unregistered"}

-----------------------------------------------------------------------------
(* What the documents say, and the code does not do.                       *)

(* docs/RULES.md: a soft path must not overwrite the coordination of a     *)
(* lifecycle operation.  Reconciliation writes back the row it read.       *)
ReconcileSparesLeases ==
  [][LeaseActive(rt) /\ rt' # rt => ~\E p \in Procs : pc[p] = "rcClean" /\ pc'[p] # pc[p]]_vars

(* docs/runtime/SCHEMAS.md: missing sources leave sync_polling.  The poll  *)
(* that observed the source missing saves its progress afterwards, and a   *)
(* sync command asks for a poll of whatever the source became.             *)
MissingLeavesPolling ==
  manifest.st = "missing" /\ (\A p \in Procs : pc[p] = "idle") => ~polling

(* docs/sync/README.md: only an add leads out of "unregistered", and an    *)
(* update leaves the knowledge lifecycle alone.  An update writes back the *)
(* manifest it read, also when a remove has unlinked it meanwhile.         *)
OnlyAddRegisters ==
  [][~Registered(manifest) /\ Registered(manifest') => \E p \in Clients : pc[p] = "adManifest"]_vars

=============================================================================

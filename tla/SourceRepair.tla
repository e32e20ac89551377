---------------------------- MODULE SourceRepair ----------------------------
(***************************************************************************)
(* What one reconcile is good for.  The source starts as wreckage: any     *)
(* manifest the serializer accepts, files wherever the user or a crashed   *)
(* operation left them, any runtime rows, the lease of a dead operation    *)
(* among them.  The daemon starts up and reconciles; after that a client   *)
(* reconciles again.  Nobody else does anything.                           *)
(***************************************************************************)
EXTENDS SourceLifecycle

(* Rows a dead operation, an observation or nobody left behind.            *)
LeftRow ==
  {r \in Row : /\ r.owner \in {Crashed, NoOwner} /\ ~r.live
               /\ ~r.present => r = NoRow}

Wreckage ==
  /\ \/ manifest = NoManifest
     \/ manifest \in {m \in Manifest : Registered(m) /\ Valid(m) /\ m.path # NoArea}
  /\ files \in SUBSET Areas
  /\ rt \in LeftRow
  /\ polling \in BOOLEAN
  /\ child = FALSE
  /\ fence = NoOwner
  /\ pc = [p \in Procs |-> "idle"]
  /\ snap = [p \in Procs |-> NoManifest]
  /\ spot = [p \in Procs |-> NoArea]
  /\ dest = [p \in Procs |-> NoArea]
  /\ flag = [p \in Procs |-> FALSE]
  /\ row = [p \in Procs |-> NoRow]
  /\ notice = "starting"
  /\ folderMove = <<>>
  /\ commandsLeft = MaxCommands
  /\ eventsLeft = 0

StartedUp == notice = "none" /\ pc[Daemon] = "idle"

RepairNext ==
  \/ Reconcile(Daemon)
  \/ \E p \in Clients : StartedUp /\ Reconcile(p)

RepairSpec == Wreckage /\ [][RepairNext]_vars

(* A source without a manifest leaves no row behind; a missing source is   *)
(* one without a file, its absence is on record and it is not polled; any  *)
(* other source is where a file of it is, and no operation seems to own    *)
(* it.  Only a source that was never materialized may lack a file.         *)
Repaired ==
  /\ rt.owner = NoOwner
  /\ ~Registered(manifest) => ~polling /\ rt = NoRow
  /\ manifest.st = "missing" => files = {} /\ rt.confirmed /\ ~polling
  /\ ActiveSource(manifest) => rt = NoRow
  /\ manifest.st \in {"materialized", "stale"} => manifest.path \in files
  /\ manifest.st = "awaiting" => files = {} \/ manifest.path \in files

(* Whatever a crash or the user left behind, one reconcile that runs to    *)
(* its end makes manifest, files and runtime rows agree again.             *)
StartupRepairs == StartedUp => Repaired

(* "materialized" is never claimed of a file in another place than where   *)
(* the content was written: a repaired placement is polled again.          *)
RepairedPlacementIsStale ==
  [][manifest'.st = "materialized" => manifest' = manifest]_vars

(* A second reconcile finds nothing to do: it moves no manifest between    *)
(* copies of the file, and does not flip states.                           *)
ReconcileIsIdempotent == [][StartedUp => UNCHANGED <<portable, polling, rt>>]_vars

=============================================================================

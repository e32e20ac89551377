------------------------- MODULE SourceRepairProofs -------------------------
(***************************************************************************)
(* What one reconcile is good for, for any wreckage: any number of areas   *)
(* and of copies of the file, any manifest the serializer accepts and any  *)
(* row a dead operation left, and any number of clients that reconcile     *)
(* again afterwards, all of them at once.                                  *)
(***************************************************************************)
EXTENDS SourceRepair, SourceLifecycleTypes

(* Nobody alive owns the row, and an absent row has no contents.           *)
LeftAlone ==
  /\ Valid(manifest)
  /\ rt.owner \in {Crashed, NoOwner} /\ ~rt.live
  /\ ~rt.present => rt = NoRow
  /\ notice \in {"starting", "none"}

(* The row has no lease of the dead; only a missing source has one.        *)
RowCleaned == rt.owner = NoOwner /\ (manifest.st # "missing" => rt = NoRow)

(* What is left to do is to drop the polling row of a source that is gone. *)
Sorted ==
  /\ RowCleaned
  /\ manifest.st = "missing" => files = {} /\ rt.confirmed /\ ~polling
  /\ manifest.st \in {"materialized", "stale"} => manifest.path \in files
  /\ manifest.st = "awaiting" => files = {} \/ manifest.path \in files

(* What the reconcile of the daemon that starts up has achieved by each of *)
(* its points.                                                             *)
DaemonAt ==
  LET point == pc[Daemon]
      place == spot[Daemon]
  IN
  /\ point \in {"idle", "rcRow", "rcClean", "rcResolve", "rcFound", "rcSync", "rcWrite", "rcCommit",
                "rcObserve", "rcMark", "rcMarkWrite", "rcConfirm", "rcPrune", "rcAbort"}
  /\ point \in {"rcRow", "rcClean", "rcResolve", "rcFound", "rcSync", "rcObserve", "rcMark"}
       => snap[Daemon] = manifest
  /\ point = "rcClean" => row[Daemon] = rt
  /\ point \in {"rcResolve", "rcFound", "rcSync", "rcWrite", "rcObserve", "rcMark", "rcMarkWrite"}
       => RowCleaned
  /\ point \in {"rcFound", "rcSync", "rcWrite"} => files # {} /\ Registered(manifest)
  /\ point \in {"rcSync", "rcWrite"} => /\ place \in files
                                        /\ manifest.path \in files => place = manifest.path
                                        /\ flag[Daemon] <=> manifest.st = "missing"
  /\ point = "rcWrite" => snap[Daemon] = SyncedTo(manifest, place) /\ Valid(snap[Daemon])
  /\ point = "rcCommit" => /\ Registered(snap[Daemon]) /\ ActiveSource(manifest)
                           /\ manifest.path \in files
                           /\ ~flag[Daemon] => rt = NoRow
  /\ point \in {"rcObserve", "rcMark", "rcMarkWrite"} => files = {} /\ Registered(manifest)
  /\ point = "rcMarkWrite" => snap[Daemon] = MarkedMissing(manifest)
  /\ point = "rcConfirm" => /\ Registered(snap[Daemon]) /\ files = {} /\ rt.owner = NoOwner
                            /\ manifest.st = "missing"
  /\ point = "rcPrune" => Sorted /\ (Registered(snap[Daemon]) <=> Registered(manifest))

(* The clients wait for the daemon to have started up.                     *)
Starting == notice = "starting" => DaemonAt /\ \A c \in Clients : pc[c] = "idle"

(* A client that reconciles again finds everything as its scan read it.    *)
ClientAt(c) ==
  /\ pc[c] \in {"idle", "rcRow", "rcResolve", "rcFound", "rcSync", "rcCommit", "rcObserve",
                "rcConfirm", "rcPrune"}
  /\ pc[c] # "idle" => snap[c] = manifest
  /\ pc[c] \in {"rcFound", "rcSync"} => files # {} /\ Registered(manifest)
  /\ pc[c] = "rcSync" => spot[c] = manifest.path
  /\ pc[c] \in {"rcSync", "rcCommit"} => ~flag[c]
  /\ pc[c] \in {"rcObserve", "rcConfirm"} => manifest.st = "missing"

Started ==
  notice = "none" => pc[Daemon] = "idle" /\ Repaired /\ \A c \in Clients : ClientAt(c)

(* The inductive form of StartupRepairs. *)
RepairInv == Typed /\ LeftAlone /\ Starting /\ Started

-----------------------------------------------------------------------------
(* The wreckage is a state of the types, with nothing begun.               *)
LEMMA RepairInvInit == Wreckage => RepairInv
<1> SUFFICES ASSUME Wreckage PROVE RepairInv
  OBVIOUS
<1>1. manifest \in Manifest /\ Valid(manifest) /\ (Registered(manifest) => manifest.path \in Areas)
  <2>1. CASE manifest = NoManifest
    BY <2>1, ManifestsTyped DEF NoManifest, Valid, Registered
  <2>2. CASE manifest # NoManifest
    BY <2>2 DEF Wreckage, Manifest
  <2> QED BY <2>1, <2>2
<1>2. rt \in Row /\ rt.owner \in {Crashed, NoOwner} /\ ~rt.live /\ (~rt.present => rt = NoRow)
  BY DEF Wreckage, LeftRow
<1>3. NoRow \in Row /\ NoManifest \in Manifest /\ ~Registered(NoManifest)
  BY <1>2, RowsTyped, ManifestsTyped, Tokens DEF NoManifest, Registered
<1>4. DataTypes
  <2>1. /\ manifest \in Manifest /\ files \in SUBSET Areas /\ rt \in Row
        /\ polling \in BOOLEAN /\ child \in BOOLEAN /\ fence \in Procs \union {NoOwner}
    BY <1>1, <1>2 DEF Wreckage
  <2>2. /\ snap \in [Procs -> Manifest] /\ spot \in [Procs -> Areas \union {NoArea}]
        /\ dest \in [Procs -> Areas \union {NoArea}] /\ flag \in [Procs -> BOOLEAN]
        /\ row \in [Procs -> Row]
    BY <1>3 DEF Wreckage
  <2>3. /\ notice \in {"none", "changed", "starting"} /\ folderMove = <<>>
        /\ commandsLeft \in 0 .. MaxCommands /\ eventsLeft \in 0 .. MaxEvents
    BY BoundsAssumption DEF Wreckage
  <2> QED BY <2>1, <2>2, <2>3 DEF DataTypes
<1>5. \A p \in Procs : pc[p] = "idle"
  BY DEF Wreckage
<1>6. PcType
  BY DEF Wreckage, PcType, Points
<1>7. Placed
  BY <1>1, <1>3, <1>5 DEF Wreckage, Placed
<1>8. LeftAlone
  BY <1>1, <1>2 DEF LeftAlone, Wreckage
<1>9. Starting /\ Started
  BY <1>5, Tokens DEF Wreckage, Starting, Started, DaemonAt
<1> QED BY <1>4, <1>6, <1>7, <1>8, <1>9 DEF RepairInv, Typed

(* Where a step takes the processes.                                       *)
LEMMA Moves ==
  ASSUME PcType, NEW p \in Procs, NEW from, NEW to, Goto(p, from, to)
  PROVE  pc[p] = from /\ pc'[p] = to /\ \A q \in Procs : q # p => pc'[q] = pc[q]
  BY DEF PcType, Goto

(* The rows a reconcile writes have no owner.                              *)
LEMMA RowsLeft ==
  ASSUME NEW r \in Row
  PROVE  /\ NoRow.owner = NoOwner /\ ~NoRow.live /\ ~NoRow.present /\ ~NoRow.confirmed
         /\ Stripped(r).owner = NoOwner /\ ~Stripped(r).live /\ Stripped(r).present
         /\ Confirmed(r).owner = r.owner /\ Confirmed(r).live = r.live
         /\ Confirmed(r).present /\ Confirmed(r).confirmed
         /\ r.present /\ r.confirmed => Confirmed(r) = r
  BY DEF Row, NoRow, Stripped, Confirmed

(* A manifest that is given the place of a file claims its content only if *)
(* it was materialized there.                                              *)
LEMMA SyncedFacts ==
  ASSUME NEW m \in Manifest, NEW a
  PROVE  /\ SyncedTo(m, a).path = a
         /\ SyncedTo(m, a).st = IF m.st = "missing" \/ (m.path # a /\ m.st # "awaiting")
                                THEN "stale" ELSE m.st
         /\ SyncedTo(m, a).hash = m.hash
         /\ m.path = a /\ m.st # "missing" => SyncedTo(m, a) = m
  BY DEF Manifest, SyncedTo

(* A file is found if there is one.                                        *)
LEMMA ResolvedFacts ==
  ASSUME files \in SUBSET Areas, NEW m, NEW a \in Resolved(m)
  PROVE  /\ a = NoArea <=> files = {}
         /\ files # {} => a \in files
         /\ m.path \in files => a = m.path
  BY AreasAssumption DEF Resolved

-----------------------------------------------------------------------------
(* The daemon, starting up.                                                *)

(* What a step of the daemon has to show of the state it leaves.           *)
LeavesStarting == notice' = "starting" /\ LeftAlone' /\ DaemonAt'

(* The first scan. *)
LEMMA StartStep ==
  ASSUME RepairInv, notice = "starting", ReconcileStart(Daemon)
  PROVE  LeavesStarting /\ UNCHANGED manifest
<1>1. Goto(Daemon, "idle", "rcRow") /\ notice' = notice
  BY ProcsAssumption DEF ReconcileStart, Command
<1>2. snap'[Daemon] = manifest /\ UNCHANGED <<portable, runtime>>
  BY Tokens DEF ReconcileStart, RepairInv, Typed, DataTypes
<1>3. pc'[Daemon] = "rcRow"
  BY <1>1, Moves, Tokens DEF RepairInv, Typed
<1> QED BY <1>1, <1>2, <1>3 DEF RepairInv, LeavesStarting, LeftAlone, DaemonAt, portable, runtime

(* The row is looked at: what nobody needs is to be cleaned. *)
LEMMA RowStep ==
  ASSUME RepairInv, notice = "starting", ReconcileRow(Daemon)
  PROVE  LeavesStarting /\ UNCHANGED manifest
<1> DEFINE to == IF Rewritable(snap[Daemon], rt) THEN "rcClean" ELSE "rcResolve"
<1>1. pc[Daemon] = "rcRow" /\ pc'[Daemon] = to
  BY Moves, Tokens DEF ReconcileRow, RepairInv, Typed
<1>2. UNCHANGED <<manifest, files, rt, polling, snap, notice>>
  BY DEF ReconcileRow, portable, runtime, watch
<1>3. snap[Daemon] = manifest
  BY <1>1 DEF RepairInv, Starting, DaemonAt
<1>4. CASE Rewritable(snap[Daemon], rt)
  <2>1. row'[Daemon] = rt
    BY <1>4, Tokens DEF ReconcileRow, RepairInv, Typed, DataTypes
  <2> QED BY <1>1, <1>2, <1>3, <1>4, <2>1 DEF RepairInv, LeavesStarting, LeftAlone, DaemonAt
<1>5. CASE ~Rewritable(snap[Daemon], rt)
  <2>1. RowCleaned
    BY <1>3, <1>5, RowsLeft DEF Rewritable, LeaseActive, RepairInv, LeftAlone, RowCleaned, Typed, DataTypes
  <2> QED BY <1>1, <1>2, <1>3, <1>5, <2>1 DEF RepairInv, LeavesStarting, LeftAlone, DaemonAt, RowCleaned
<1> QED BY <1>4, <1>5

(* The row of the dead loses its lease, or goes. *)
LEMMA CleanStep ==
  ASSUME RepairInv, notice = "starting", ReconcileClean(Daemon)
  PROVE  LeavesStarting /\ UNCHANGED manifest
<1>1. pc[Daemon] = "rcClean" /\ pc'[Daemon] = "rcResolve"
  BY Moves, Tokens DEF ReconcileClean, RepairInv, Typed
<1>2. UNCHANGED <<manifest, files, polling, snap, notice>>
  BY DEF ReconcileClean, portable, watch
<1>3. snap[Daemon] = manifest /\ row[Daemon] = rt /\ rt \in Row
  BY <1>1 DEF RepairInv, Starting, DaemonAt, Typed, DataTypes
<1>4. rt' = IF manifest.st = "missing" THEN Stripped(rt) ELSE NoRow
  BY <1>3 DEF ReconcileClean
<1>5. rt'.owner = NoOwner /\ ~rt'.live /\ (~rt'.present => rt' = NoRow)
  BY <1>3, <1>4, RowsLeft
<1> QED BY <1>1, <1>2, <1>3, <1>4, <1>5 DEF RepairInv, LeavesStarting, LeftAlone, DaemonAt, RowCleaned

(* The file is looked for; there may be none. *)
LEMMA ResolveStep ==
  ASSUME RepairInv, notice = "starting", ReconcileResolve(Daemon)
  PROVE  LeavesStarting /\ UNCHANGED manifest
<1>1. PICK a \in Resolved(snap[Daemon]) :
        Goto(Daemon, "rcResolve",
             IF ~Registered(snap[Daemon]) \/ (a = NoArea /\ snap[Daemon].st = "awaiting") THEN "rcPrune"
             ELSE IF a = NoArea THEN "rcObserve" ELSE "rcFound")
  BY DEF ReconcileResolve
<1>2. UNCHANGED <<manifest, files, rt, polling, snap, row, notice>>
  BY DEF ReconcileResolve, portable, runtime, locals, watch
<1>3. pc[Daemon] = "rcResolve"
  BY <1>1 DEF Goto
<1>4. snap[Daemon] = manifest /\ RowCleaned /\ files \in SUBSET Areas
  BY <1>3 DEF RepairInv, Starting, DaemonAt, Typed, DataTypes
<1>5. a = NoArea <=> files = {}
  BY <1>4, ResolvedFacts
<1>6. pc'[Daemon] = IF ~Registered(manifest) \/ (files = {} /\ manifest.st = "awaiting") THEN "rcPrune"
                    ELSE IF files = {} THEN "rcObserve" ELSE "rcFound"
  BY <1>1, <1>4, <1>5, Moves, Tokens DEF RepairInv, Typed
<1>7. LeftAlone' /\ RowCleaned' /\ notice' = "starting"
  BY <1>2, <1>4 DEF RepairInv, LeftAlone, RowCleaned
<1>8. ~Registered(manifest) \/ (files = {} /\ manifest.st = "awaiting") => Sorted'
  BY <1>2, <1>7 DEF Sorted, Registered
<1> QED BY <1>2, <1>4, <1>6, <1>7, <1>8 DEF LeavesStarting, DaemonAt

(* The source is found, and the fence taken. *)
LEMMA FoundStep ==
  ASSUME RepairInv, notice = "starting", ReconcileFound(Daemon)
  PROVE  LeavesStarting /\ UNCHANGED manifest
<1>1. pc[Daemon] = "rcFound"
  BY DEF ReconcileFound, Goto
<1>2. UNCHANGED <<manifest, files, rt, polling, snap, notice>>
  BY DEF ReconcileFound, portable, watch
<1>3. /\ snap[Daemon] = manifest /\ RowCleaned /\ files # {} /\ Registered(manifest)
      /\ files \in SUBSET Areas
  BY <1>1 DEF RepairInv, Starting, DaemonAt, Typed, DataTypes
<1>4. ~LeaseActive(rt)
  BY DEF LeaseActive, RepairInv, LeftAlone
<1>5. PICK a \in Resolved(manifest) :
        /\ Goto(Daemon, "rcFound", "rcSync")
        /\ spot' = [spot EXCEPT ![Daemon] = a]
        /\ flag' = [flag EXCEPT ![Daemon] = snap[Daemon].st = "missing"]
  BY <1>3, <1>4, ResolvedFacts DEF ReconcileFound
<1>6. a \in files /\ (manifest.path \in files => a = manifest.path)
  BY <1>3, ResolvedFacts
<1>7. pc'[Daemon] = "rcSync" /\ spot'[Daemon] = a
  BY <1>5, Moves, Tokens DEF RepairInv, Typed, DataTypes
<1>8. flag'[Daemon] <=> manifest.st = "missing"
  <2>1. Daemon \in DOMAIN flag
    BY Tokens DEF RepairInv, Typed, DataTypes
  <2> QED BY Zenon, <1>3, <1>5, <2>1
<1>9. LeftAlone' /\ RowCleaned' /\ notice' = "starting"
  BY <1>2, <1>3 DEF RepairInv, LeftAlone, RowCleaned
<1> QED BY <1>2, <1>3, <1>6, <1>7, <1>8, <1>9 DEF LeavesStarting, DaemonAt

(* The place of the file is taken down, or refused. *)
LEMMA SyncStep ==
  ASSUME RepairInv, notice = "starting", ReconcileSync(Daemon)
  PROVE  LeavesStarting /\ UNCHANGED manifest
<1> DEFINE found == SyncedTo(manifest, spot[Daemon])
<1>1. pc[Daemon] = "rcSync" /\ PcType /\ snap \in [Procs -> Manifest] /\ manifest \in Manifest
  BY DEF ReconcileSync, FollowFile, Goto, RepairInv, Typed, DataTypes
<1>2. UNCHANGED <<manifest, files, rt, polling, spot, flag, notice>>
  BY DEF ReconcileSync, portable, runtime, watch
<1>3. /\ snap[Daemon] = manifest /\ RowCleaned /\ files # {} /\ Registered(manifest)
      /\ spot[Daemon] \in files /\ (manifest.path \in files => spot[Daemon] = manifest.path)
      /\ flag[Daemon] <=> manifest.st = "missing"
  BY <1>1 DEF RepairInv, Starting, DaemonAt
<1>4. LeftAlone' /\ RowCleaned' /\ notice' = "starting"
  BY <1>2, <1>3 DEF RepairInv, LeftAlone, RowCleaned
<1>5. CASE MayFollow(spot[Daemon]) /\ found # manifest
  <2>1. snap'[Daemon] = found /\ pc'[Daemon] = "rcWrite" /\ Valid(found)
    BY <1>1, <1>5, Tokens, Moves DEF ReconcileSync, FollowFile, MayFollow
  <2> QED BY <1>2, <1>3, <1>4, <2>1 DEF LeavesStarting, DaemonAt
<1>6. CASE MayFollow(spot[Daemon]) /\ found = manifest
  <2>1. snap' = snap /\ pc'[Daemon] = "rcCommit"
    BY <1>1, <1>6, Tokens, Moves DEF ReconcileSync, FollowFile
  <2>2. manifest.path = spot[Daemon] /\ manifest.st # "missing"
    BY <1>1, <1>6, SyncedFacts
  <2>3. ActiveSource(manifest)
    BY <1>1, <1>3, <2>2 DEF ActiveSource, Registered, Manifest, KnowledgeState
  <2>4. rt = NoRow
    BY <1>3, <2>2 DEF RowCleaned
  <2> QED BY <1>2, <1>3, <1>4, <2>1, <2>2, <2>3, <2>4 DEF LeavesStarting, DaemonAt
<1>7. CASE ~MayFollow(spot[Daemon])
  <2>1. pc'[Daemon] = "rcAbort"
    BY <1>1, <1>7, Tokens, Moves DEF ReconcileSync, FollowFile
  <2> QED BY <1>2, <1>4, <2>1 DEF LeavesStarting, DaemonAt
<1> QED BY <1>5, <1>6, <1>7

(* The manifest is given the place of the file. *)
LEMMA FollowStep ==
  ASSUME RepairInv, notice = "starting", WriteBack(Daemon, "rcWrite", "rcCommit")
  PROVE  LeavesStarting /\ (manifest'.st = "materialized" => UNCHANGED manifest)
<1>1. pc[Daemon] = "rcWrite" /\ pc'[Daemon] = "rcCommit"
  BY Moves, Tokens DEF WriteBack, RepairInv, Typed
<1>2. UNCHANGED <<files, rt, polling, snap, spot, flag, notice>> /\ manifest' = snap[Daemon]
  BY DEF WriteBack, runtime, locals, watch
<1>3. /\ snap[Daemon] = SyncedTo(manifest, spot[Daemon]) /\ Valid(snap[Daemon]) /\ RowCleaned
      /\ spot[Daemon] \in files /\ Registered(manifest) /\ manifest \in Manifest
      /\ flag[Daemon] <=> manifest.st = "missing"
  BY <1>1 DEF RepairInv, Starting, DaemonAt, Typed, DataTypes
<1>4. /\ manifest'.path = spot[Daemon]
      /\ manifest'.st = IF manifest.st = "missing" \/ (manifest.path # spot[Daemon] /\ manifest.st # "awaiting")
                        THEN "stale" ELSE manifest.st
      /\ manifest.path = spot[Daemon] /\ manifest.st # "missing" => manifest' = manifest
  BY <1>2, <1>3, SyncedFacts
<1>5. LeftAlone' /\ notice' = "starting"
  BY <1>2, <1>3 DEF RepairInv, LeftAlone
<1>6. ActiveSource(manifest')
  BY <1>3, <1>4 DEF ActiveSource, Registered, Manifest, KnowledgeState
<1>7. Registered(snap'[Daemon]) /\ (~flag'[Daemon] => rt' = NoRow)
  BY <1>2, <1>3, <1>6 DEF ActiveSource, Registered, RowCleaned
<1>8. DaemonAt'
  BY <1>1, <1>2, <1>3, <1>4, <1>6, <1>7 DEF DaemonAt, ActiveSource
<1> QED BY <1>4, <1>5, <1>8 DEF LeavesStarting

(* The rows of a source that came back. *)
LEMMA CommitStep ==
  ASSUME RepairInv, notice = "starting", ReconcileCommit(Daemon)
  PROVE  LeavesStarting /\ UNCHANGED manifest
<1>1. pc[Daemon] = "rcCommit" /\ pc'[Daemon] = "rcPrune"
  BY Moves, Tokens DEF ReconcileCommit, RepairInv, Typed
<1>2. UNCHANGED <<manifest, files, snap, notice>>
  BY DEF ReconcileCommit, portable, locals, watch
<1>3. /\ Registered(snap[Daemon]) /\ ActiveSource(manifest) /\ manifest.path \in files /\ rt \in Row
      /\ ~flag[Daemon] => rt = NoRow
  BY <1>1 DEF RepairInv, Starting, DaemonAt, Typed, DataTypes
<1>4. rt' = NoRow
  BY <1>3 DEF ReconcileCommit
<1>5. Sorted' /\ Registered(manifest)
  BY <1>2, <1>3, <1>4, RowsLeft DEF Sorted, RowCleaned, Registered, ActiveSource
<1>6. LeftAlone' /\ notice' = "starting"
  BY <1>2, <1>3, <1>4, RowsLeft DEF RepairInv, LeftAlone
<1> QED BY <1>1, <1>2, <1>3, <1>5, <1>6 DEF LeavesStarting, DaemonAt

(* A source without a file is observed missing. *)
LEMMA ObserveStep ==
  ASSUME RepairInv, notice = "starting", Observe(Daemon, "rcObserve", "rcMark", "rcConfirm", "rcPrune")
  PROVE  LeavesStarting /\ UNCHANGED manifest
<1>1. pc[Daemon] = "rcObserve"
  BY DEF Observe, Goto
<1>2. UNCHANGED <<manifest, files, rt, polling, snap, notice>>
  BY DEF Observe, portable, locals, watch
<1>3. snap[Daemon] = manifest /\ RowCleaned /\ files = {} /\ Registered(manifest)
  BY <1>1 DEF RepairInv, Starting, DaemonAt
<1>4. MayObserve
  BY <1>3 DEF MayObserve, LeaseActive, RepairInv, LeftAlone
<1>5. pc'[Daemon] = IF manifest.st = "missing" THEN "rcConfirm" ELSE "rcMark"
  BY <1>4, Moves, Tokens DEF Observe, RepairInv, Typed
<1>6. LeftAlone' /\ RowCleaned' /\ notice' = "starting"
  BY <1>2, <1>3 DEF RepairInv, LeftAlone, RowCleaned
<1> QED BY <1>2, <1>3, <1>5, <1>6 DEF LeavesStarting, DaemonAt, RowCleaned

(* It is there to be marked. *)
LEMMA MarkStep ==
  ASSUME RepairInv, notice = "starting", ObserveMark(Daemon, "rcMark", "rcMarkWrite", "rcConfirm")
  PROVE  LeavesStarting /\ UNCHANGED manifest
<1>1. pc[Daemon] = "rcMark" /\ PcType /\ snap \in [Procs -> Manifest]
  BY DEF ObserveMark, Rewrites, Goto, RepairInv, Typed, DataTypes
<1>2. UNCHANGED <<manifest, files, rt, polling, notice>>
  BY DEF ObserveMark, portable, runtime, watch
<1>3. RowCleaned /\ files = {} /\ Registered(manifest)
  BY <1>1 DEF RepairInv, Starting, DaemonAt
<1>4. pc'[Daemon] = "rcMarkWrite" /\ snap'[Daemon] = MarkedMissing(manifest)
  BY <1>1, <1>3, Moves, Tokens DEF ObserveMark, Rewrites
<1>5. LeftAlone' /\ RowCleaned' /\ notice' = "starting"
  BY <1>2, <1>3 DEF RepairInv, LeftAlone, RowCleaned
<1> QED BY <1>2, <1>3, <1>4, <1>5 DEF LeavesStarting, DaemonAt

(* It is marked missing. *)
LEMMA MarkWriteStep ==
  ASSUME RepairInv, notice = "starting", WriteBack(Daemon, "rcMarkWrite", "rcConfirm")
  PROVE  LeavesStarting /\ (manifest'.st = "materialized" => UNCHANGED manifest)
<1>1. pc[Daemon] = "rcMarkWrite" /\ pc'[Daemon] = "rcConfirm"
  BY Moves, Tokens DEF WriteBack, RepairInv, Typed
<1>2. UNCHANGED <<files, rt, polling, snap, notice>> /\ manifest' = snap[Daemon]
  BY DEF WriteBack, runtime, locals, watch
<1>3. snap[Daemon] = MarkedMissing(manifest) /\ RowCleaned /\ files = {} /\ manifest \in Manifest
  BY <1>1 DEF RepairInv, Starting, DaemonAt, Typed, DataTypes
<1>4. manifest'.st = "missing"
  BY <1>2, <1>3 DEF Manifest, MarkedMissing
<1>5. LeftAlone' /\ notice' = "starting"
  BY <1>2, <1>4 DEF RepairInv, LeftAlone, Valid
<1> QED BY <1>1, <1>2, <1>3, <1>4, <1>5 DEF LeavesStarting, DaemonAt, RowCleaned, Registered

(* Its absence is put on record. *)
LEMMA ConfirmStep ==
  ASSUME RepairInv, notice = "starting", ObserveConfirm(Daemon, "rcConfirm", "rcPrune")
  PROVE  LeavesStarting /\ UNCHANGED manifest
<1>1. pc[Daemon] = "rcConfirm" /\ pc'[Daemon] = "rcPrune"
  BY Moves, Tokens DEF ObserveConfirm, RepairInv, Typed
<1>2. UNCHANGED <<manifest, files, snap, notice>> /\ rt' = Confirmed(rt) /\ polling' = FALSE
  BY DEF ObserveConfirm, portable, locals, watch
<1>3. /\ Registered(snap[Daemon]) /\ files = {} /\ rt.owner = NoOwner /\ manifest.st = "missing"
      /\ rt \in Row
  BY <1>1 DEF RepairInv, Starting, DaemonAt, Typed, DataTypes
<1>4. Sorted' /\ Registered(manifest)
  BY <1>2, <1>3, RowsLeft DEF Sorted, RowCleaned, Registered
<1>5. LeftAlone' /\ notice' = "starting"
  BY <1>2, <1>3, RowsLeft DEF RepairInv, LeftAlone
<1> QED BY <1>1, <1>2, <1>3, <1>4, <1>5 DEF LeavesStarting, DaemonAt

(* An error ends the daemon, which starts up again. *)
LEMMA AbortStep ==
  ASSUME RepairInv, notice = "starting", ReconcileAbort(Daemon)
  PROVE  LeavesStarting /\ UNCHANGED manifest
<1>1. pc'[Daemon] = "idle"
  BY Moves, Tokens DEF ReconcileAbort, Return, RepairInv, Typed
<1>2. UNCHANGED <<manifest, files, rt, polling>> /\ notice' = "starting"
  BY DEF ReconcileAbort, portable, runtime
<1> QED BY <1>1, <1>2 DEF RepairInv, LeavesStarting, LeftAlone, DaemonAt

(* The polling row of a source that is gone goes: everything is repaired. *)
LEMMA PruneStep ==
  ASSUME RepairInv, notice = "starting", ReconcilePrune(Daemon)
  PROVE  /\ UNCHANGED manifest /\ notice' = "none" /\ LeftAlone'
         /\ pc'[Daemon] = "idle" /\ Repaired'
<1>1. pc[Daemon] = "rcPrune" /\ pc'[Daemon] = "idle"
  BY Moves, Tokens DEF ReconcilePrune, Return, RepairInv, Typed
<1>2. UNCHANGED <<manifest, files, rt>> /\ notice' = "none"
  BY DEF ReconcilePrune, portable
<1>3. Sorted /\ (Registered(snap[Daemon]) <=> Registered(manifest)) /\ polling \in BOOLEAN
  BY <1>1 DEF RepairInv, Starting, DaemonAt, Typed, DataTypes
<1>4. polling' = (polling /\ Registered(manifest))
  BY <1>3 DEF ReconcilePrune
<1>5. Repaired'
  BY <1>2, <1>3, <1>4 DEF Repaired, Sorted, RowCleaned, Registered, ActiveSource
<1> QED BY <1>1, <1>2, <1>5 DEF RepairInv, LeftAlone

(* The daemon starts up while the clients wait. *)
LEMMA DaemonStep ==
  ASSUME RepairInv, notice = "starting", Reconcile(Daemon)
  PROVE  /\ LeftAlone' /\ Starting' /\ Started'
         /\ manifest'.st = "materialized" => manifest' = manifest
<1>1. \A c \in Clients : pc'[c] = "idle"
  <2>1. \A c \in Clients : pc[c] = "idle" /\ c \in Procs /\ c # Daemon
    BY Tokens, ProcsAssumption DEF RepairInv, Starting
  <2>2. \A q \in Procs : q # Daemon => pc'[q] = pc[q]
    BY Tokens DEF Reconcile, ReconcileStart, ReconcileRow, ReconcileClean, ReconcileResolve, ReconcileFound,
       ReconcileSync, FollowFile, ReconcileCommit, Observe, ObserveMark, Rewrites, WriteBack, ObserveConfirm,
       ReconcileAbort, ReconcilePrune, Return, Goto, RepairInv, Typed, PcType
  <2> QED BY <2>1, <2>2
<1>2. CASE ReconcilePrune(Daemon)
  <2>1. UNCHANGED manifest /\ notice' = "none" /\ LeftAlone' /\ pc'[Daemon] = "idle" /\ Repaired'
    BY <1>2, PruneStep
  <2>2. \A c \in Clients : ClientAt(c)'
    BY <1>1 DEF ClientAt
  <2> QED BY <2>1, <2>2 DEF Starting, Started
<1>3. CASE ~ReconcilePrune(Daemon)
  <2>1. LeavesStarting /\ (manifest'.st = "materialized" => manifest' = manifest)
    BY <1>3, StartStep, RowStep, CleanStep, ResolveStep, FoundStep, SyncStep, FollowStep, CommitStep,
       ObserveStep, MarkStep, MarkWriteStep, ConfirmStep, AbortStep DEF Reconcile
  <2> QED BY <1>1, <2>1 DEF LeavesStarting, Starting, Started
<1> QED BY <1>2, <1>3

-----------------------------------------------------------------------------
(* The clients, afterwards.                                                *)

(* What a step of a client has to show: it changes nothing but itself.     *)
ChangesNothing(p) == UNCHANGED <<portable, polling, rt, notice>> /\ ClientAt(p)'

(* What a client that reconciles knows.                                    *)
LEMMA ClientFacts ==
  ASSUME RepairInv, notice = "none", NEW p \in Clients
  PROVE  /\ Repaired /\ ClientAt(p) /\ p \in Procs /\ p # Daemon /\ pc[Daemon] = "idle"
         /\ manifest \in Manifest /\ files \in SUBSET Areas /\ rt \in Row /\ PcType
         /\ LeftAlone
         /\ polling \in BOOLEAN
  BY Tokens, ProcsAssumption DEF RepairInv, Started, Typed, DataTypes

(* The first scan and the look at the row: there is nothing to clean.      *)
LEMMA ClientScans ==
  ASSUME RepairInv, notice = "none", NEW p \in Clients, ReconcileStart(p) \/ ReconcileRow(p)
  PROVE  ChangesNothing(p)
<1>1. CASE ReconcileStart(p)
  <2>1. pc'[p] = "rcRow" /\ UNCHANGED <<portable, polling, rt, notice>>
    BY <1>1, ClientFacts, Moves DEF ReconcileStart, runtime
  <2>2. snap'[p] = manifest
    BY <1>1, ClientFacts DEF ReconcileStart, RepairInv, Typed, DataTypes
  <2> QED BY <2>1, <2>2 DEF ChangesNothing, ClientAt, portable
<1>2. CASE ReconcileRow(p)
  <2>1. UNCHANGED <<portable, polling, rt, notice, snap>>
    BY <1>2 DEF ReconcileRow, runtime, watch
  <2>2. pc[p] = "rcRow" /\ pc'[p] = IF Rewritable(snap[p], rt) THEN "rcClean" ELSE "rcResolve"
    BY <1>2, ClientFacts, Moves DEF ReconcileRow
  <2>3. snap[p] = manifest
    BY <2>2, ClientFacts DEF ClientAt
  <2>4. ~Rewritable(manifest, rt)
    <3>1. rt.owner = NoOwner /\ (manifest.st # "missing" => rt = NoRow)
      BY ClientFacts DEF Repaired, ActiveSource, Registered, Manifest, KnowledgeState
    <3> QED BY <3>1 DEF Rewritable, NoRow
  <2> QED BY <2>1, <2>2, <2>3, <2>4 DEF ChangesNothing, ClientAt, portable
<1> QED BY <1>1, <1>2

(* The look for the file: a source without one is missing already.         *)
LEMMA ClientResolves ==
  ASSUME RepairInv, notice = "none", NEW p \in Clients, ReconcileResolve(p)
  PROVE  ChangesNothing(p)
<1>1. PICK a \in Resolved(snap[p]) :
        Goto(p, "rcResolve",
             IF ~Registered(snap[p]) \/ (a = NoArea /\ snap[p].st = "awaiting") THEN "rcPrune"
             ELSE IF a = NoArea THEN "rcObserve" ELSE "rcFound")
  BY DEF ReconcileResolve
<1>2. UNCHANGED <<portable, polling, rt, notice, snap>>
  BY DEF ReconcileResolve, runtime, locals, watch
<1>3. pc[p] = "rcResolve"
  BY <1>1 DEF Goto
<1>4. snap[p] = manifest
  BY <1>3, ClientFacts DEF ClientAt
<1>5. a = NoArea <=> files = {}
  BY ResolvedFacts, ClientFacts
<1>6. pc'[p] = IF ~Registered(manifest) \/ (files = {} /\ manifest.st = "awaiting") THEN "rcPrune"
               ELSE IF files = {} THEN "rcObserve" ELSE "rcFound"
  BY <1>1, <1>4, <1>5, Moves, ClientFacts
<1>7. files = {} /\ Registered(manifest) /\ manifest.st # "awaiting" => manifest.st = "missing"
  BY ClientFacts DEF Repaired, Registered, Manifest, KnowledgeState
<1> QED BY <1>2, <1>4, <1>6, <1>7 DEF ChangesNothing, ClientAt, portable

(* The manifest has the place of the file.                                 *)
LEMMA ClientFinds ==
  ASSUME RepairInv, notice = "none", NEW p \in Clients, ReconcileFound(p)
  PROVE  ChangesNothing(p)
<1>1. pc[p] = "rcFound"
  BY DEF ReconcileFound, Goto
<1>2. UNCHANGED <<portable, polling, rt, notice, snap>>
  BY DEF ReconcileFound, watch
<1>3. snap[p] = manifest /\ files # {} /\ Registered(manifest)
  BY <1>1, ClientFacts DEF ClientAt
<1>4. manifest.path \in files /\ manifest.st # "missing" /\ ~LeaseActive(rt)
  BY <1>3, ClientFacts DEF Repaired, Registered, Manifest, KnowledgeState, LeaseActive
<1>5. \A a \in Resolved(manifest) : a = manifest.path /\ a # NoArea
  BY <1>3, <1>4, ResolvedFacts, ClientFacts
<1>6. /\ Goto(p, "rcFound", "rcSync")
      /\ spot' = [spot EXCEPT ![p] = manifest.path]
      /\ flag' = [flag EXCEPT ![p] = snap[p].st = "missing"]
  BY <1>3, <1>4, <1>5 DEF ReconcileFound
<1>7. pc'[p] = "rcSync" /\ spot'[p] = manifest.path
  BY <1>6, Moves, ClientFacts DEF RepairInv, Typed, DataTypes
<1>8. ~flag'[p]
  <2>1. p \in DOMAIN flag
    BY ClientFacts DEF RepairInv, Typed, DataTypes
  <2> QED BY Zenon, <1>3, <1>4, <1>6, <2>1
<1> QED BY <1>2, <1>3, <1>7, <1>8 DEF ChangesNothing, ClientAt, portable

(* There is nothing to follow, and nothing to restore.                     *)
LEMMA ClientFollows ==
  ASSUME RepairInv, notice = "none", NEW p \in Clients, ReconcileSync(p) \/ ReconcileCommit(p)
  PROVE  ChangesNothing(p)
<1>1. CASE ReconcileSync(p)
  <2>1. pc[p] = "rcSync"
    BY <1>1 DEF ReconcileSync, FollowFile, Goto
  <2>2. UNCHANGED <<portable, polling, rt, notice, spot, flag>>
    BY <1>1 DEF ReconcileSync, runtime, watch
  <2>3. /\ snap[p] = manifest /\ files # {} /\ Registered(manifest)
        /\ spot[p] = manifest.path /\ ~flag[p]
    BY <2>1, ClientFacts DEF ClientAt
  <2>4. manifest.path \in files /\ manifest.st # "missing"
    BY <2>3, ClientFacts DEF Repaired, Registered, Manifest, KnowledgeState
  <2>5. SyncedTo(manifest, spot[p]) = manifest /\ Valid(manifest)
    BY <2>3, <2>4, SyncedFacts, ClientFacts DEF LeftAlone
  <2>6. Goto(p, "rcSync", "rcCommit") /\ UNCHANGED snap
    BY <1>1, <2>3, <2>4, <2>5 DEF ReconcileSync, FollowFile, MayFollow
  <2>7. pc'[p] = "rcCommit"
    BY <2>6, Moves, ClientFacts
  <2> QED BY <2>2, <2>3, <2>6, <2>7 DEF ChangesNothing, ClientAt, portable
<1>2. CASE ReconcileCommit(p)
  <2>1. pc[p] = "rcCommit" /\ pc'[p] = "rcPrune"
    BY <1>2, Moves, ClientFacts DEF ReconcileCommit
  <2>2. snap[p] = manifest /\ ~flag[p]
    BY <2>1, ClientFacts DEF ClientAt
  <2>3. UNCHANGED <<portable, rt, notice, snap>>
    BY <1>2, <2>2 DEF ReconcileCommit, locals, watch
  <2>4. polling' = polling
    BY Zenon, <1>2, <2>2, ClientFacts DEF ReconcileCommit
  <2> QED BY <2>1, <2>2, <2>3, <2>4 DEF ChangesNothing, ClientAt, portable
<1> QED BY <1>1, <1>2

(* A missing source is observed missing again.                             *)
LEMMA ClientObserves ==
  ASSUME RepairInv, notice = "none", NEW p \in Clients,
         \/ Observe(p, "rcObserve", "rcMark", "rcConfirm", "rcPrune")
         \/ ObserveConfirm(p, "rcConfirm", "rcPrune")
  PROVE  ChangesNothing(p)
<1>1. CASE Observe(p, "rcObserve", "rcMark", "rcConfirm", "rcPrune")
  <2>1. pc[p] = "rcObserve"
    BY <1>1 DEF Observe, Goto
  <2>2. UNCHANGED <<portable, polling, rt, notice, snap>>
    BY <1>1 DEF Observe, locals, watch
  <2>3. snap[p] = manifest /\ manifest.st = "missing"
    BY <2>1, ClientFacts DEF ClientAt
  <2>4. pc'[p] \in {"rcConfirm", "rcPrune"}
    BY <1>1, <2>3, Moves, ClientFacts DEF Observe
  <2> QED BY <2>2, <2>3, <2>4 DEF ChangesNothing, ClientAt, portable
<1>2. CASE ObserveConfirm(p, "rcConfirm", "rcPrune")
  <2>1. pc[p] = "rcConfirm" /\ pc'[p] = "rcPrune"
    BY <1>2, Moves, ClientFacts DEF ObserveConfirm
  <2>2. UNCHANGED <<portable, notice, snap>> /\ rt' = Confirmed(rt) /\ polling' = FALSE
    BY <1>2 DEF ObserveConfirm, locals, watch
  <2>3. snap[p] = manifest /\ manifest.st = "missing"
    BY <2>1, ClientFacts DEF ClientAt
  <2>4. rt.confirmed /\ polling = FALSE /\ rt.present
    BY <2>3, ClientFacts DEF Repaired, LeftAlone, NoRow
  <2>5. rt' = rt
    BY <2>2, <2>4, ClientFacts, RowsLeft
  <2> QED BY <2>1, <2>2, <2>3, <2>4, <2>5 DEF ChangesNothing, ClientAt, portable
<1> QED BY <1>1, <1>2

(* There is no polling row to prune.                                       *)
LEMMA ClientPrunes ==
  ASSUME RepairInv, notice = "none", NEW p \in Clients, ReconcilePrune(p)
  PROVE  ChangesNothing(p)
<1>1. pc[p] = "rcPrune" /\ pc'[p] = "idle"
  BY Moves, ClientFacts DEF ReconcilePrune, Return
<1>2. UNCHANGED <<portable, rt, notice>> /\ polling' = (polling /\ Registered(snap[p]))
  BY ClientFacts DEF ReconcilePrune
<1>3. snap[p] = manifest
  BY <1>1, ClientFacts DEF ClientAt
<1>4. polling' = polling
  BY <1>2, <1>3, ClientFacts DEF Repaired
<1> QED BY <1>1, <1>2, <1>4 DEF ChangesNothing, ClientAt

(* The row of nobody is never written, and no manifest rewritten or        *)
(* refused.                                                                *)
LEMMA ClientStepChangesNothing ==
  ASSUME RepairInv, notice = "none", NEW p \in Clients, Reconcile(p)
  PROVE  ChangesNothing(p)
<1>1. pc[p] \notin {"rcClean", "rcWrite", "rcMark", "rcMarkWrite", "rcAbort"}
  BY ClientFacts DEF ClientAt
<1>2. ~ReconcileClean(p) /\ ~ReconcileAbort(p)
  BY <1>1 DEF ReconcileClean, ReconcileAbort, Return, Goto
<1>3. /\ ~WriteBack(p, "rcWrite", "rcCommit") /\ ~WriteBack(p, "rcMarkWrite", "rcConfirm")
      /\ ~ObserveMark(p, "rcMark", "rcMarkWrite", "rcConfirm")
  BY <1>1 DEF WriteBack, ObserveMark, Rewrites, Goto
<1> QED BY <1>2, <1>3, ClientScans, ClientResolves, ClientFinds, ClientFollows, ClientObserves, ClientPrunes
    DEF Reconcile

(* The others find everything as their scans read it.                      *)
LEMMA ClientStepKeeps ==
  ASSUME RepairInv, notice = "none", NEW p \in Clients, Reconcile(p)
  PROVE  LeftAlone' /\ Starting' /\ Started'
<1>1. UNCHANGED <<manifest, files, polling, rt, notice>> /\ ClientAt(p)'
  BY ClientStepChangesNothing DEF ChangesNothing, portable
<1>2. \A q \in Procs : q # p => pc'[q] = pc[q]
  BY ClientFacts DEF Reconcile, ReconcileStart, ReconcileRow, ReconcileClean, ReconcileResolve, ReconcileFound,
     ReconcileSync, FollowFile, ReconcileCommit, Observe, ObserveMark, Rewrites, WriteBack, ObserveConfirm,
     ReconcileAbort, ReconcilePrune, Return, Goto, PcType
<1>3. \A q \in Procs : q # p => snap'[q] = snap[q] /\ spot'[q] = spot[q] /\ flag'[q] = flag[q]
  <2>1. /\ snap \in [Procs -> Manifest] /\ spot \in [Procs -> Areas \union {NoArea}]
        /\ flag \in [Procs -> BOOLEAN]
    BY DEF RepairInv, Typed, DataTypes
  <2>2. UNCHANGED snap \/ \E m : snap' = [snap EXCEPT ![p] = m]
    BY DEF Reconcile, ReconcileStart, ReconcileRow, ReconcileClean, ReconcileResolve, ReconcileFound,
       ReconcileSync, FollowFile, ReconcileCommit, Observe, ObserveMark, Rewrites, WriteBack,
       ObserveConfirm, ReconcileAbort, ReconcilePrune, Return, ForgetLocals, locals
  <2>3. UNCHANGED spot \/ \E a : spot' = [spot EXCEPT ![p] = a]
    BY DEF Reconcile, ReconcileStart, ReconcileRow, ReconcileClean, ReconcileResolve, ReconcileFound,
       ReconcileSync, FollowFile, ReconcileCommit, Observe, ObserveMark, Rewrites, WriteBack,
       ObserveConfirm, ReconcileAbort, ReconcilePrune, Return, ForgetLocals, locals
  <2>4. UNCHANGED flag \/ \E b : flag' = [flag EXCEPT ![p] = b]
    BY DEF Reconcile, ReconcileStart, ReconcileRow, ReconcileClean, ReconcileResolve, ReconcileFound,
       ReconcileSync, FollowFile, ReconcileCommit, Observe, ObserveMark, Rewrites, WriteBack,
       ObserveConfirm, ReconcileAbort, ReconcilePrune, Return, ForgetLocals, locals
  <2> QED BY <2>1, <2>2, <2>3, <2>4
<1>4. \A c \in Clients : ClientAt(c)'
  <2> TAKE c \in Clients
  <2>1. CASE c = p
    BY <1>1, <2>1
  <2>2. CASE c # p
    <3>1. /\ pc'[c] = pc[c] /\ snap'[c] = snap[c] /\ spot'[c] = spot[c] /\ flag'[c] = flag[c]
          /\ ClientAt(c)
      BY <1>2, <1>3, <2>2, ClientFacts
    <3> QED BY <1>1, <3>1 DEF ClientAt
  <2> QED BY <2>1, <2>2
<1>5. pc'[Daemon] = "idle" /\ Repaired'
  BY <1>1, <1>2, ClientFacts, Tokens DEF Repaired
<1> QED BY <1>1, <1>4, <1>5 DEF RepairInv, LeftAlone, Starting, Started

-----------------------------------------------------------------------------
(* Before the daemon has started up nobody else reconciles, afterwards it  *)
(* owes no reconcile.                                                      *)
LEMMA WhoReconciles ==
  ASSUME RepairInv, RepairNext
  PROVE  \/ notice = "starting" /\ Reconcile(Daemon)
         \/ notice = "none" /\ StartedUp /\ \E p \in Clients : Reconcile(p)
<1>1. notice \in {"starting", "none"}
  BY DEF RepairInv, LeftAlone
<1>2. ASSUME notice = "none", Reconcile(Daemon)
      PROVE  FALSE
  <2>1. pc[Daemon] = "idle"
    BY <1>2 DEF RepairInv, Started
  <2> QED BY <1>2, <2>1, ProcsAssumption DEF Reconcile, ReconcileStart, ReconcileRow, ReconcileClean,
         ReconcileResolve, ReconcileFound, ReconcileSync, FollowFile, ReconcileCommit, Observe, ObserveMark,
         Rewrites, WriteBack, ObserveConfirm, ReconcileAbort, ReconcilePrune, Return, Goto, Command
<1> QED BY <1>1, <1>2 DEF RepairNext, StartedUp

(* Every step keeps the invariant.                                         *)
LEMMA RepairInvStep == RepairInv /\ [RepairNext]_vars => RepairInv'
<1> SUFFICES ASSUME RepairInv, [RepairNext]_vars PROVE RepairInv'
  OBVIOUS
<1>1. Typed'
  <2>1. RepairNext => Next
    BY Tokens DEF RepairNext, Next
  <2> QED BY <2>1, TypedStep DEF RepairInv
<1>2. CASE RepairNext
  BY <1>1, <1>2, WhoReconciles, DaemonStep, ClientStepKeeps DEF RepairInv
<1>3. CASE UNCHANGED vars
  <2>1. UNCHANGED <<manifest, files, rt, polling, pc, snap, spot, flag, row, notice>>
    BY <1>3 DEF vars, portable, runtime, locals, watch
  <2>2. LeftAlone'
    BY <2>1 DEF RepairInv, LeftAlone
  <2>3. Starting'
    BY <2>1 DEF RepairInv, Starting, DaemonAt, Sorted, RowCleaned
  <2>4. Started'
    BY <2>1 DEF RepairInv, Started, Repaired, ClientAt
  <2> QED BY <1>1, <2>2, <2>3, <2>4 DEF RepairInv
<1> QED BY <1>2, <1>3

(* The invariant of the repair.                                            *)
LEMMA RepairInvariant == RepairSpec => []RepairInv
  BY RepairInvInit, RepairInvStep, PTL DEF RepairSpec

(* Once the daemon has started up, manifest, files and runtime rows agree, *)
(* whatever they were before.                                              *)
THEOREM StartingUpRepairs == RepairSpec => []StartupRepairs
<1>1. RepairInv => StartupRepairs
  BY DEF RepairInv, Started, StartupRepairs, StartedUp
<1> QED BY <1>1, RepairInvariant, PTL

(* No reconcile claims content of a file in another place than where it    *)
(* was written.                                                            *)
THEOREM RepairedPlacementsAreStale == RepairSpec => RepairedPlacementIsStale
<1>1. RepairInv /\ [RepairNext]_vars => [manifest'.st = "materialized" => manifest' = manifest]_vars
  <2> SUFFICES ASSUME RepairInv, RepairNext
               PROVE  manifest'.st = "materialized" => manifest' = manifest
    OBVIOUS
  <2>1. CASE notice = "starting" /\ Reconcile(Daemon)
    BY <2>1, DaemonStep
  <2>2. CASE \E p \in Clients : notice = "none" /\ Reconcile(p)
    BY <2>2, ClientStepChangesNothing DEF ChangesNothing, portable
  <2> QED BY <2>1, <2>2, WhoReconciles
<1> QED BY <1>1, RepairInvariant, PTL DEF RepairSpec, RepairedPlacementIsStale

(* However many clients reconcile at once, they change nothing.            *)
THEOREM ReconcilingAgainIsIdle == RepairSpec => ReconcileIsIdempotent
<1>1. RepairInv /\ [RepairNext]_vars => [StartedUp => UNCHANGED <<portable, polling, rt>>]_vars
  <2> SUFFICES ASSUME RepairInv, RepairNext, StartedUp PROVE UNCHANGED <<portable, polling, rt>>
    OBVIOUS
  <2>1. PICK p \in Clients : notice = "none" /\ Reconcile(p)
    BY WhoReconciles DEF StartedUp
  <2> QED BY <2>1, ClientStepChangesNothing DEF ChangesNothing
<1> QED BY <1>1, RepairInvariant, PTL DEF RepairSpec, ReconcileIsIdempotent

=============================================================================

------------------------ MODULE SourceLifecycleTypes ------------------------
(***************************************************************************)
(* Type correctness of SourceLifecycle, for every number of clients and    *)
(* areas and every bound.  TypeOK is not inductive: what a move or a poll  *)
(* writes into the manifest is an area only because of what the operation  *)
(* read before, which Placed says.                                         *)
(***************************************************************************)
EXTENDS SourceLifecycle, TLAPS

PcType == pc \in [Procs -> Points]

(* Where the steps of an operation rely on knowing an area: a registered   *)
(* manifest has one, on disk or about to be written, a poll has loaded a   *)
(* registered manifest, a move has a destination, and a moved file an      *)
(* origin it can be rolled back to.                                        *)
Placed ==
  /\ Registered(manifest) => manifest.path \in Areas
  /\ \A p \in Procs :
       /\ Registered(snap[p]) => snap[p].path \in Areas
       /\ pc[p] \in {"syFetch", "syCommit", "syManifest"} => Registered(snap[p])
       /\ pc[p] \in {"mvAcquire", "mvRead", "mvFile", "mvRenew", "mvReread", "mvRenewAgain",
                     "mvSync", "mvRollback", "fmRead", "adManifest"} => dest[p] \in Areas
       /\ pc[p] \in {"mvRenew", "mvReread", "mvRenewAgain", "mvSync", "mvRollback"} /\ flag[p]
            => spot[p] \in Areas

(* The inductive form of TypeOK. *)
Typed == DataTypes /\ PcType /\ Placed

-----------------------------------------------------------------------------
(* A process is none of the stand-ins for no owner and for dead owners.    *)
LEMMA Tokens ==
  /\ Daemon \in Procs /\ Clients \subseteq Procs
  /\ Procs \subseteq Owners /\ Crashed \in Owners
  /\ NoOwner \notin Procs /\ Crashed \notin Procs /\ NoOwner # Crashed
  BY OwnersAssumption, ProcsAssumption DEF Procs

(* The statements on a runtime row return rows.                            *)
LEMMA RowsTyped ==
  ASSUME NEW r \in Row, NEW p \in Procs
  PROVE  /\ NoRow \in Row
         /\ Acquired(r, p) \in Row
         /\ Renewed(r) \in Row
         /\ Cleared(r, p) \in Row
         /\ Pruned(r) \in Row
         /\ Stripped(r) \in Row
         /\ Confirmed(r) \in Row
         /\ Abandoned(r, p, Crashed) \in Row
         /\ [r EXCEPT !.live = FALSE] \in Row
  BY Tokens DEF Row, NoRow, Acquired, Renewed, Cleared, Stripped, Confirmed, Pruned, Abandoned

(* The updates of a manifest return manifests.                             *)
LEMMA ManifestsTyped ==
  /\ NoManifest \in Manifest
  /\ \A m \in Manifest, a \in Areas \union {NoArea} :
         /\ NewManifest(a) \in Manifest
         /\ SyncedTo(m, a) \in Manifest
         /\ Rehomed(m, a) \in Manifest
         /\ Materialized(m, a) \in Manifest
         /\ MarkedMissing(m) \in Manifest
  BY ZenonT(40) DEF Manifest, KnowledgeState, NoManifest, NewManifest, SyncedTo, Rehomed, Materialized,
     MarkedMissing, Registered

(* What the steps of a process may write is of the right type.             *)
LEMMA StatementsTyped ==
  ASSUME DataTypes, NEW p \in Procs
  PROVE  /\ NoRow \in Row
         /\ Renewed(rt) \in Row
         /\ Cleared(rt, p) \in Row
         /\ Pruned(Cleared(rt, p)) \in Row
         /\ Stripped(row[p]) \in Row
         /\ Confirmed(rt) \in Row
         /\ NoManifest \in Manifest
         /\ NewManifest(dest[p]) \in Manifest
  <1>1. rt \in Row /\ row[p] \in Row /\ manifest \in Manifest
    BY DEF DataTypes
  <1>2. dest[p] \in Areas \union {NoArea}
    BY DEF DataTypes
  <1>3. Cleared(rt, p) \in Row
    BY <1>1, RowsTyped
  <1> QED BY <1>1, <1>2, <1>3, RowsTyped, ManifestsTyped

(* The area that each update of a manifest leaves in it.                   *)
LEMMA ManifestPaths ==
  \A m \in Manifest, a \in Areas \union {NoArea} :
    /\ SyncedTo(m, a).path = a
    /\ Rehomed(m, a).path = a
    /\ Materialized(m, a).path = a
    /\ MarkedMissing(m).path = m.path
  BY DEF Manifest, SyncedTo, Rehomed, Materialized, MarkedMissing

(* The locals of a process that returns, or keeps them, have their types.  *)
LEMMA ForgetTyped ==
  ASSUME DataTypes, NEW p \in Procs, ForgetLocals(p) \/ UNCHANGED locals
  PROVE  /\ snap' \in [Procs -> Manifest]
         /\ spot' \in [Procs -> Areas \union {NoArea}]
         /\ dest' \in [Procs -> Areas \union {NoArea}]
         /\ flag' \in [Procs -> BOOLEAN]
         /\ row' \in [Procs -> Row]
  <1>1. NoRow \in Row /\ NoManifest \in Manifest
    BY RowsTyped, ManifestsTyped DEF DataTypes
  <1> QED BY ZenonT(40), <1>1 DEF DataTypes, ForgetLocals, locals

-----------------------------------------------------------------------------

(* Acquiring a lease, or being refused one, keeps the types.               *)
LEMMA AcquireData ==
  ASSUME DataTypes, NEW p \in Procs, NEW from, NEW to, Acquire(p, from, to)
  PROVE  DataTypes'
  <1> USE DEF Acquire, portable, watch, bounds
  <1>1. rt' \in Row
    <2>1. Acquired(rt, p) \in Row
      BY RowsTyped DEF DataTypes
    <2> QED BY <2>1 DEF DataTypes
  <1>2. ForgetLocals(p) \/ UNCHANGED locals
    BY DEF Return
  <1> QED BY <1>1, <1>2, ForgetTyped DEF DataTypes

(* What a process is about to write, if anything, is a manifest with an    *)
(* area.                                                                   *)
SnapTakes(p) ==
  \/ UNCHANGED snap
  \/ \E m \in Manifest : m.path \in Areas /\ snap' = [snap EXCEPT ![p] = m]

(* A step that reads the manifest to rewrite it.                           *)
Reads(p, from, to) ==
  /\ Goto(p, from, to)
  /\ SnapTakes(p)
  /\ UNCHANGED <<portable, runtime, spot, dest, flag, row, watch, bounds>>

(* Where the reading steps lead, but for a move that failed.               *)
AfterReading ==
  {"syWrite", "sySettle", "syGoneWrite", "syGoneConfirm", "fiWrite", "fiRestoreRow", "deRelease",
   "mvWrite", "mvRelease", "rcWrite", "rcCommit", "rcAbort", "rcMarkWrite", "rcConfirm",
   "upWrite", "upSave"}

(* A rewrite takes what it will write, or the manifest is gone.            *)
LEMMA RewritesReads ==
  ASSUME NEW p \in Procs, NEW from, NEW write, NEW gone, NEW m,
         Registered(manifest) => m \in Manifest /\ m.path \in Areas,
         Rewrites(p, from, m, write, gone)
  PROVE  SnapTakes(p) /\ \E to \in {write, gone} : Goto(p, from, to)
  BY DEF Rewrites, SnapTakes

(* Following a file takes the manifest that has its place.                 *)
LEMMA FollowReads ==
  ASSUME DataTypes, NEW p \in Procs, NEW from, NEW write, NEW same, NEW raises, NEW a,
         FollowFile(p, from, a, write, same, raises)
  PROVE  SnapTakes(p) /\ \E to \in {write, same, raises} : Goto(p, from, to)
  <1>1. MayFollow(a) => a \in Areas
    BY DEF MayFollow, DataTypes
  <1>2. MayFollow(a) => SyncedTo(manifest, a) \in Manifest /\ SyncedTo(manifest, a).path \in Areas
    BY <1>1, ManifestsTyped, ManifestPaths DEF DataTypes
  <1> QED BY <1>2 DEF FollowFile, SnapTakes

(* The steps that read the manifest to rewrite it.                         *)
LEMMA Readers ==
  ASSUME DataTypes, Placed, NEW p \in Procs
  PROVE  /\ SyncManifest(p) => \E to \in AfterReading : Reads(p, "syManifest", to)
         /\ ObserveMark(p, "syGoneMark", "syGoneWrite", "syGoneConfirm")
              => \E to \in AfterReading : Reads(p, "syGoneMark", to)
         /\ ObserveMark(p, "rcMark", "rcMarkWrite", "rcConfirm")
              => \E to \in AfterReading : Reads(p, "rcMark", to)
         /\ FinalizeRestore(p) => \E to \in AfterReading : Reads(p, "fiRestore", to)
         /\ ReconcileSync(p) => \E to \in AfterReading : Reads(p, "rcSync", to)
         /\ UpdateRead(p) => \E to \in AfterReading : Reads(p, "upRead", to)
         /\ MoveSync(p) => \E to \in AfterReading \union {"mvRollback"} : Reads(p, "mvSync", to)
  <1>1. /\ manifest \in Manifest
        /\ Registered(manifest) => manifest.path \in Areas
        /\ dest[p] \in Areas \union {NoArea} /\ snap[p].path \in Areas \union {NoArea}
    BY DEF DataTypes, Placed, Manifest
  <1>2. ASSUME SyncManifest(p)
        PROVE  \E to \in AfterReading : Reads(p, "syManifest", to)
    <2>1. snap[p].path \in Areas
      BY <1>2 DEF SyncManifest, Rewrites, Goto, Placed
    <2>2. /\ Materialized(manifest, snap[p].path) \in Manifest
          /\ Materialized(manifest, snap[p].path).path \in Areas
      BY <1>1, <2>1, ManifestsTyped, ManifestPaths
    <2>3. SnapTakes(p) /\ \E to \in {"syWrite", "sySettle"} : Goto(p, "syManifest", to)
      BY <1>2, <2>2, RewritesReads DEF SyncManifest
    <2> QED BY <1>2, <2>3 DEF SyncManifest, Reads, AfterReading
  <1>3. ASSUME NEW mark, NEW write \in AfterReading, NEW confirm \in AfterReading,
               ObserveMark(p, mark, write, confirm)
        PROVE  \E to \in AfterReading : Reads(p, mark, to)
    <2>1. Registered(manifest) => MarkedMissing(manifest) \in Manifest
                                  /\ MarkedMissing(manifest).path \in Areas
      BY <1>1, ManifestsTyped, ManifestPaths
    <2>2. SnapTakes(p) /\ \E to \in {write, confirm} : Goto(p, mark, to)
      BY <1>3, <2>1, RewritesReads DEF ObserveMark
    <2> QED BY <1>3, <2>2 DEF ObserveMark, Reads
  <1>4. ASSUME FinalizeRestore(p)
        PROVE  \E to \in AfterReading : Reads(p, "fiRestore", to)
    <2>1. SnapTakes(p) /\ \E to \in {"fiWrite", "fiRestoreRow", "deRelease"} : Goto(p, "fiRestore", to)
      BY <1>4, FollowReads DEF FinalizeRestore
    <2> QED BY <1>4, <2>1 DEF FinalizeRestore, Reads, AfterReading
  <1>5. ASSUME ReconcileSync(p)
        PROVE  \E to \in AfterReading : Reads(p, "rcSync", to)
    <2>1. SnapTakes(p) /\ \E to \in {"rcWrite", "rcCommit", "rcAbort"} : Goto(p, "rcSync", to)
      BY <1>5, FollowReads DEF ReconcileSync
    <2> QED BY <1>5, <2>1 DEF ReconcileSync, Reads, AfterReading
  <1>6. ASSUME UpdateRead(p)
        PROVE  \E to \in AfterReading : Reads(p, "upRead", to)
    <2>1. SnapTakes(p) /\ \E to \in {"upWrite", "upSave"} : Goto(p, "upRead", to)
      BY <1>1, <1>6, RewritesReads DEF UpdateRead, SnapTakes
    <2> QED BY <1>6, <2>1 DEF UpdateRead, Reads, AfterReading
  <1>7. ASSUME MoveSync(p)
        PROVE  \E to \in AfterReading \union {"mvRollback"} : Reads(p, "mvSync", to)
    <2>1. CASE FollowFile(p, "mvSync", IF flag[p] THEN dest[p] ELSE spot[p],
                          "mvWrite", "mvRelease", "mvRollback")
      <3>1. /\ SnapTakes(p)
            /\ \E to \in {"mvWrite", "mvRelease", "mvRollback"} : Goto(p, "mvSync", to)
        BY <2>1, FollowReads
      <3> QED BY <1>7, <3>1 DEF MoveSync, Reads, AfterReading
    <2>2. CASE Rewrites(p, "mvSync", Rehomed(manifest, dest[p]), "mvWrite", "mvRelease")
      <3>1. dest[p] \in Areas
        BY <2>2 DEF Rewrites, Goto, Placed
      <3>2. /\ Rehomed(manifest, dest[p]) \in Manifest
            /\ Rehomed(manifest, dest[p]).path \in Areas
        BY <1>1, <3>1, ManifestsTyped, ManifestPaths
      <3>3. SnapTakes(p) /\ \E to \in {"mvWrite", "mvRelease"} : Goto(p, "mvSync", to)
        BY <2>2, <3>2, RewritesReads
      <3> QED BY <1>7, <3>3 DEF MoveSync, Reads, AfterReading
    <2> QED BY <1>7, <2>1, <2>2 DEF MoveSync
  <1>8. {"syGoneWrite", "syGoneConfirm", "rcMarkWrite", "rcConfirm"} \subseteq AfterReading
    BY DEF AfterReading
  <1> QED BY <1>2, <1>3, <1>4, <1>5, <1>6, <1>7, <1>8

(* Reading keeps the types.                                                *)
LEMMA ReadsData ==
  ASSUME DataTypes, NEW p \in Procs, NEW from, NEW to, Reads(p, from, to)
  PROVE  DataTypes'
  BY DEF Reads, SnapTakes, DataTypes, portable, runtime, watch, bounds

(* Writing back what was read keeps the types.                             *)
LEMMA WriteBackData ==
  ASSUME DataTypes, NEW p \in Procs, NEW from, NEW to, WriteBack(p, from, to)
  PROVE  DataTypes'
  BY DEF WriteBack, DataTypes, runtime, locals, watch, bounds

(* Both ways on from the polling row of an add keep the types.             *)
LEMMA AddPollingData ==
  ASSUME DataTypes, Placed, NEW p \in Procs, AddPolling(p)
  PROVE  DataTypes'
  <1> USE DEF AddPolling, portable, watch, bounds
  <1>2. ForgetLocals(p) \/ UNCHANGED locals
    BY DEF Return
  <1> QED BY <1>2, ForgetTyped DEF DataTypes

(* An expiring lease keeps the types.                                      *)
LEMMA ExpireData ==
  ASSUME DataTypes, Placed, Expire
  PROVE  DataTypes'
  <1> USE DEF Expire, portable, watch, bounds, locals
  <1>2. rt' \in Row
    BY RowsTyped, Tokens DEF DataTypes
  <1> QED BY <1>2 DEF DataTypes

(* A crash keeps the types.                                                *)
LEMMA CrashData ==
  ASSUME DataTypes, Placed, NEW p \in Procs, Crash(p)
  PROVE  DataTypes'
  <1> USE DEF Crash, portable, watch, bounds
  <1>2. rt' \in Row
    BY RowsTyped, Tokens DEF DataTypes
  <1>3. eventsLeft' \in 0 .. MaxEvents
    BY BoundsAssumption DEF DataTypes, Event
  <1> QED BY <1>2, <1>3, ForgetTyped DEF DataTypes

(* The steps of a poll keep every variable but pc in its type.             *)
LEMMA SyncTyped ==
  ASSUME DataTypes, Placed, Sync
  PROVE  DataTypes'
  <1> USE Tokens DEF portable, runtime, locals, watch, bounds, Goto, DataTypes
  <1>1. CASE Acquire(Daemon, "syAcquire", "syReload")
    BY <1>1, AcquireData
  <1>2. CASE SyncFetch(Daemon)
    BY <1>2, BoundsAssumption DEF SyncFetch, Event
  <1>3. CASE SyncWriteFails(Daemon)
    BY <1>3, BoundsAssumption DEF SyncWriteFails, FilesBecome, Event, DropsFence
  <1>4. CASE SyncWrite(Daemon)
    BY <1>4 DEF SyncWrite, FilesBecome, CommitsAsOwner, Placed
  <1>5. CASE \/ SyncManifest(Daemon)
             \/ ObserveMark(Daemon, "syGoneMark", "syGoneWrite", "syGoneConfirm")
    BY <1>5, Readers, ReadsData
  <1>6. CASE SyncSettle(Daemon)
    BY <1>6, StatementsTyped DEF SyncSettle
  <1>7. CASE SyncStart \/ SyncReload(Daemon)
    BY <1>7 DEF SyncStart, SyncReload, ActiveSource, Registered
  <1>8. CASE Release(Daemon, "syRelease", "syChildren") \/ SyncChildren(Daemon)
    BY ZenonT(40), <1>8, StatementsTyped DEF Release, SyncChildren
  <1>9. CASE \/ Release(Daemon, "syErrorRelease", "sySave")
             \/ Release(Daemon, "syGoneRelease", "syGoneObserve")
    BY <1>9, StatementsTyped DEF Release
  <1>10. CASE \/ Observe(Daemon, "syGoneObserve", "syGoneMark", "syGoneConfirm", "syGoneChildren")
              \/ ObserveConfirm(Daemon, "syGoneConfirm", "syGoneChildren")
    BY <1>10, StatementsTyped DEF Observe, ObserveConfirm
  <1>11. CASE SyncConflict(Daemon) \/ SyncSave(Daemon) \/ SyncGoneChildren(Daemon)
    <2>1. ForgetLocals(Daemon)
      BY <1>11 DEF SyncConflict, SyncSave, SyncGoneChildren, Return
    <2> QED BY <1>11, <2>1, ForgetTyped, StatementsTyped DEF SyncConflict, SyncSave,
       SyncGoneChildren
  <1>12. CASE \/ WriteBack(Daemon, "syWrite", "sySettle")
              \/ WriteBack(Daemon, "syGoneWrite", "syGoneConfirm")
    BY <1>12, WriteBackData
  <1> QED BY <1>1, <1>2, <1>3, <1>4, <1>5, <1>6, <1>7, <1>8, <1>9, <1>10, <1>11, <1>12 DEF Sync

(* The steps of a reconcile keep every variable but pc in its type.        *)
LEMMA ReconcileTyped ==
  ASSUME DataTypes, Placed, NEW p \in Procs, Reconcile(p)
  PROVE  DataTypes'
  <1> USE Tokens DEF portable, runtime, locals, watch, bounds, Goto, DataTypes
  <1>1. CASE ReconcileFound(p)
    <2>1. Resolved(manifest) \subseteq Areas \union {NoArea}
      BY DEF Resolved
    <2>2. /\ fence' \in Procs \union {NoOwner}
          /\ spot' \in [Procs -> Areas \union {NoArea}]
      BY <1>1, <2>1 DEF ReconcileFound
    <2>3. flag' \in [Procs -> BOOLEAN]
      BY Zenon, <1>1 DEF ReconcileFound
    <2> QED BY <1>1, <2>2, <2>3 DEF ReconcileFound
  <1>2. CASE ReconcileStart(p)
    BY <1>2, BoundsAssumption DEF ReconcileStart, Command
  <1>3. CASE ReconcileRow(p) \/ ReconcileClean(p)
    BY <1>3, StatementsTyped DEF ReconcileRow, ReconcileClean
  <1>4. CASE ReconcileResolve(p) \/ ReconcileCommit(p)
    BY <1>4, StatementsTyped DEF ReconcileResolve, ReconcileCommit
  <1>5. CASE \/ Observe(p, "rcObserve", "rcMark", "rcConfirm", "rcPrune")
             \/ ObserveConfirm(p, "rcConfirm", "rcPrune")
    BY <1>5, StatementsTyped DEF Observe, ObserveConfirm
  <1>6. CASE ReconcileAbort(p) \/ ReconcilePrune(p)
    <2>1. ForgetLocals(p)
      BY <1>6 DEF ReconcileAbort, ReconcilePrune, Return
    <2> QED BY <1>6, <2>1, ForgetTyped, StatementsTyped DEF ReconcileAbort, ReconcilePrune
  <1>7. CASE ReconcileSync(p) \/ ObserveMark(p, "rcMark", "rcMarkWrite", "rcConfirm")
    BY <1>7, Readers, ReadsData
  <1>8. CASE WriteBack(p, "rcWrite", "rcCommit") \/ WriteBack(p, "rcMarkWrite", "rcConfirm")
    BY <1>8, WriteBackData
  <1> QED BY <1>1, <1>2, <1>3, <1>4, <1>5, <1>6, <1>7, <1>8 DEF Reconcile

(* The steps of a remove before it deregisters keep every variable but pc  *)
(* in its type.                                                            *)
LEMMA RemoveTyped ==
  ASSUME DataTypes, Placed, NEW p \in Procs, Remove(p)
  PROVE  DataTypes'
  <1> USE Tokens DEF portable, runtime, locals, watch, bounds, Goto, DataTypes
  <1>1. CASE Acquire(p, "rmAcquire", "rmFiles")
    BY <1>1, AcquireData
  <1>2. CASE RemoveStart(p)
    BY <1>2, BoundsAssumption DEF RemoveStart, StartOn, Command
  <1>3. CASE RemoveFails(p)
    BY <1>3, BoundsAssumption DEF RemoveFails, FilesBecome, Event
  <1>4. CASE RemoveFiles(p)
    BY <1>4 DEF RemoveFiles, FilesBecome
  <1> QED BY <1>1, <1>2, <1>3, <1>4 DEF Remove

(* The steps of a deregistration keep every variable but pc in its type.   *)
LEMMA DeregisterTyped ==
  ASSUME DataTypes, Placed, NEW p \in Procs, Deregister(p)
  PROVE  DataTypes'
  <1> USE Tokens DEF portable, runtime, locals, watch, bounds, Goto, DataTypes
  <1>1. CASE DropPolling(p) \/ DropRow(p, "deRow", "deChild")
    BY <1>1, StatementsTyped DEF DropPolling, DropRow
  <1>2. CASE DropChild(p) \/ DropManifest(p)
    BY <1>2, StatementsTyped DEF DropChild, DropManifest
  <1>3. CASE DeregisterRelease(p)
    <2>1. ForgetLocals(p)
      BY <1>3 DEF DeregisterRelease, Return
    <2> QED BY <1>3, <2>1, ForgetTyped, StatementsTyped DEF DeregisterRelease
  <1> QED BY <1>1, <1>2, <1>3 DEF Deregister

(* The steps of a finalization keep every variable but pc in its type.     *)
LEMMA FinalizeTyped ==
  ASSUME DataTypes, Placed, NEW p \in Procs, Finalize(p)
  PROVE  DataTypes'
  <1> USE Tokens DEF portable, runtime, locals, watch, bounds, Goto, DataTypes
  <1>1. CASE Acquire(p, "fiAcquire", "fiCheck")
    BY <1>1, AcquireData
  <1>2. CASE FinalizeRestore(p)
    BY <1>2, Readers, ReadsData
  <1>3. CASE FinalizeStart(p)
    BY <1>3, BoundsAssumption DEF FinalizeStart, StartOn, Command
  <1>4. CASE FinalizeCheck(p) \/ FinalizeRecheck(p)
    BY <1>4 DEF FinalizeCheck, FinalizeRecheck, Resolved
  <1>5. CASE DropRow(p, "fiRestoreRow", "fiRestorePolling") \/ FinalizeRestorePolling(p)
    BY <1>5, StatementsTyped DEF DropRow, FinalizeRestorePolling
  <1>6. CASE DropRow(p, "fiDrop", "deRelease")
    BY <1>6, StatementsTyped DEF DropRow
  <1>7. CASE WriteBack(p, "fiWrite", "fiRestoreRow")
    BY <1>7, WriteBackData
  <1> QED BY <1>1, <1>2, <1>3, <1>4, <1>5, <1>6, <1>7 DEF Finalize

(* The steps of a move keep every variable but pc in its type.             *)
LEMMA MoveTyped ==
  ASSUME DataTypes, Placed, NEW p \in Procs, Move(p)
  PROVE  DataTypes'
  <1> USE Tokens DEF portable, runtime, locals, watch, bounds, Goto, DataTypes
  <1>1. CASE Acquire(p, "mvAcquire", "mvRead")
    BY <1>1, AcquireData
  <1>2. CASE MoveSync(p) \/ WriteBack(p, "mvWrite", "mvRelease")
    BY <1>2, Readers, ReadsData, WriteBackData
  <1>3. CASE MoveStart(p)
    BY <1>3, BoundsAssumption DEF MoveStart, StartOn, Command
  <1>4. CASE MoveRead(p)
    BY <1>4 DEF MoveRead, Resolved, Placed
  <1>5. CASE MoveFile(p)
    BY <1>5 DEF MoveFile, FilesBecome, Movable, Placed
  <1>6. CASE MoveRollback(p)
    BY <1>6 DEF MoveRollback, FilesBecome, Placed
  <1>7. CASE MoveRenew(p, "mvRenew", "mvReread") \/ MoveReread(p)
    BY <1>7, StatementsTyped DEF MoveRenew, MoveReread
  <1>8. CASE MoveRenew(p, "mvRenewAgain", "mvSync")
    BY <1>8, StatementsTyped DEF MoveRenew
  <1>9. CASE MoveRelease(p)
    <2>1. ForgetLocals(p)
      BY <1>9 DEF MoveRelease, Return
    <2> QED BY <1>9, <2>1, ForgetTyped, StatementsTyped DEF MoveRelease
  <1> QED BY <1>1, <1>2, <1>3, <1>4, <1>5, <1>6, <1>7, <1>8, <1>9 DEF Move

(* The steps of the operations without a lease keep every variable but pc  *)
(* in its type.                                                            *)
LEMMA UnleasedTyped ==
  ASSUME DataTypes, Placed, NEW p \in Procs, Unleased(p)
  PROVE  DataTypes'
  <1> USE Tokens DEF portable, runtime, locals, watch, bounds, Goto, DataTypes
  <1>1. CASE AddPolling(p)
    BY <1>1, AddPollingData
  <1>2. CASE AddStart(p)
    BY <1>2, BoundsAssumption DEF AddStart, Command
  <1>3. CASE UpdateStart(p)
    BY <1>3, BoundsAssumption DEF UpdateStart, StartOn, Command
  <1>4. CASE RequestStart(p)
    BY <1>4, BoundsAssumption DEF RequestStart, StartOn, Command
  <1>5. CASE AddManifest(p)
    BY <1>5, StatementsTyped DEF AddManifest
  <1>6. CASE AddChild(p) \/ UpdateSave(p) \/ RequestSave(p)
    <2>1. ForgetLocals(p)
      BY <1>6 DEF AddChild, UpdateSave, RequestSave, Return
    <2> QED BY <1>6, <2>1, ForgetTyped, StatementsTyped DEF AddChild, UpdateSave, RequestSave
  <1>7. CASE UpdateRead(p) \/ WriteBack(p, "upWrite", "upSave")
    BY <1>7, Readers, ReadsData, WriteBackData
  <1> QED BY <1>1, <1>2, <1>3, <1>4, <1>5, <1>6, <1>7 DEF Unleased, Add, Update

(* The steps of a folder move keep every variable but pc in its type.      *)
LEMMA FolderMoveTyped ==
  ASSUME DataTypes, Placed, ApplyFolderMove
  PROVE  DataTypes'
  <1> USE Tokens DEF portable, runtime, locals, watch, bounds, Goto, DataTypes
  <1>1. CASE FolderMoveStart
    BY <1>1 DEF FolderMoveStart
  <1>2. CASE FolderMoveRead
    <2>1. CASE ~Under(spot[Daemon]) \/ LeaseActive(rt)
      <3>1. ForgetLocals(Daemon)
        BY <1>2, <2>1 DEF FolderMoveRead, Return
      <3> QED BY <1>2, <3>1, ForgetTyped DEF FolderMoveRead
    <2>2. CASE Under(spot[Daemon]) /\ ~LeaseActive(rt)
      <3>1. Rehomed(manifest, dest[Daemon]) \in Manifest
        <4>1. manifest \in Manifest /\ dest[Daemon] \in Areas \union {NoArea}
          OBVIOUS
        <4> QED BY <4>1, ManifestsTyped
      <3> QED BY <1>2, <2>2, <3>1 DEF FolderMoveRead
    <2> QED BY <1>2, <2>1, <2>2 DEF FolderMoveRead
  <1>3. CASE FolderMoveWrite
    <2>1. ForgetLocals(Daemon) /\ manifest' \in Manifest
      BY <1>3 DEF FolderMoveWrite, Return
    <2> QED BY <1>3, <2>1, ForgetTyped DEF FolderMoveWrite
  <1> QED BY <1>1, <1>2, <1>3 DEF ApplyFolderMove

(* The steps of the world around the code keep every variable but pc in    *)
(* its type.                                                               *)
LEMMA WorldTyped ==
  ASSUME DataTypes, Placed, World
  PROVE  DataTypes'
  <1> USE Tokens DEF portable, runtime, locals, watch, bounds, Goto, DataTypes
  <1>1. CASE Expire
    BY <1>1, ExpireData
  <1>2. ASSUME NEW p \in Procs, Crash(p)
        PROVE  DataTypes'
    BY <1>2, CrashData
  <1>3. CASE UserTouchesFiles
    BY <1>3, BoundsAssumption DEF UserTouchesFiles, UserDeletes, UserRestores, UserMoves,
       FilesBecome, Event
  <1>4. CASE UserRenamesFolder
    BY <1>4, BoundsAssumption DEF UserRenamesFolder, Event
  <1> QED BY <1>1, <1>2, <1>3, <1>4 DEF World

-----------------------------------------------------------------------------

(* Every step leads a process from one program point to another.           *)
LEMMA PointsTyped ==
  ASSUME PcType, Next
  PROVE  PcType'
  <1> USE Tokens DEF PcType, Goto, Points, Return
  <1>1. CASE Sync
    BY <1>1 DEF Sync, SyncStart, Acquire, SyncReload, SyncFetch, SyncWrite, SyncConflict,
       SyncManifest, SyncWriteFails, SyncSettle, Release, SyncChildren, SyncSave, Observe,
       ObserveMark, ObserveConfirm, SyncGoneChildren, Rewrites, WriteBack
  <1>2. ASSUME NEW p \in Procs, Reconcile(p)
        PROVE  PcType'
    BY <1>2 DEF Reconcile, ReconcileStart, ReconcileRow, ReconcileClean, ReconcileResolve,
       ReconcileFound, ReconcileSync, ReconcileCommit, Observe, ObserveMark, ObserveConfirm,
       ReconcileAbort, ReconcilePrune, FollowFile, Rewrites, WriteBack
  <1>3. ASSUME NEW p \in Clients, ClientStep(p)
        PROVE  PcType'
    <2>1. CASE Remove(p) \/ Deregister(p)
      BY <2>1 DEF Remove, Deregister, RemoveStart, StartOn, Acquire, RemoveFiles, RemoveFails,
         DropPolling, DropRow, DropChild, DropManifest, DeregisterRelease
    <2>2. CASE Finalize(p)
      BY <2>2 DEF Finalize, FinalizeStart, StartOn, Acquire, FinalizeCheck, FinalizeRecheck,
         FinalizeRestore, DropRow, FinalizeRestorePolling, FollowFile, WriteBack
    <2>3. CASE Move(p)
      BY <2>3 DEF Move, MoveStart, StartOn, Acquire, MoveRead, MoveFile, MoveRenew, MoveReread,
         MoveSync, MoveRollback, MoveRelease, FollowFile, Rewrites, WriteBack
    <2>4. CASE Unleased(p)
      BY <2>4 DEF Unleased, Add, AddStart, AddManifest, AddPolling, AddChild, Update, UpdateStart,
         StartOn, UpdateRead, UpdateSave, RequestStart, RequestSave, Rewrites, WriteBack
    <2> QED BY <1>3, <2>1, <2>2, <2>3, <2>4 DEF ClientStep
  <1>4. CASE World
    BY <1>4 DEF World, UserTouchesFiles, UserRenamesFolder, Expire, Crash
  <1>5. CASE ApplyFolderMove
    BY <1>5 DEF ApplyFolderMove, FolderMoveStart, FolderMoveRead, FolderMoveWrite
  <1> QED BY <1>1, <1>2, <1>3, <1>4, <1>5 DEF Next

-----------------------------------------------------------------------------

(* Reading leaves an area in what will be written; a move that fails there *)
(* still knows its areas.                                                  *)
LEMMA ReadsPlaced ==
  ASSUME DataTypes, PcType, Placed, NEW p \in Procs, NEW from, NEW to, Reads(p, from, to),
         to \in AfterReading \/ (from = "mvSync" /\ to = "mvRollback")
  PROVE  Placed'
  <1>1. Registered(manifest') => manifest'.path \in Areas
    BY DEF Reads, portable, Placed, Registered
  <1>2. \A q \in Procs : snap'[q] = snap[q] \/ snap'[q].path \in Areas
    BY DEF Reads, SnapTakes, DataTypes
  <1>3. \A q \in Procs : q # p => snap'[q] = snap[q] /\ pc'[q] = pc[q]
    BY DEF Reads, SnapTakes, DataTypes, Goto, PcType
  <1>4. pc[p] = from /\ pc'[p] = to
    BY DEF Reads, Goto, PcType
  <1>5. UNCHANGED <<spot, dest, flag>>
    BY DEF Reads
  <1> QED BY <1>1, <1>2, <1>3, <1>4, <1>5 DEF Placed, AfterReading, Registered

(* What is written back has an area.                                       *)
LEMMA WriteBackPlaced ==
  ASSUME DataTypes, PcType, Placed, NEW p \in Procs, NEW from,
         NEW to \in {"sySettle", "syGoneConfirm", "fiRestoreRow", "mvRelease", "rcCommit", "rcConfirm",
                     "upSave"},
         WriteBack(p, from, to)
  PROVE  Placed'
  BY DEF WriteBack, Goto, Placed, PcType, DataTypes, locals

(* The steps of a poll keep the areas known where they are used.           *)
LEMMA SyncPlaced ==
  ASSUME DataTypes, PcType, Placed, Sync
  PROVE  Placed'
  <1> USE Tokens DEF portable, runtime, locals, watch, bounds, Goto, DataTypes, PcType, Placed,
     Manifest, Registered
  <1>1. CASE \/ SyncManifest(Daemon)
             \/ ObserveMark(Daemon, "syGoneMark", "syGoneWrite", "syGoneConfirm")
    BY <1>1, Readers, ReadsPlaced
  <1>2. CASE SyncStart \/ Acquire(Daemon, "syAcquire", "syReload")
    BY <1>2 DEF SyncStart, Acquire, Return, ForgetLocals, NoManifest
  <1>3. CASE SyncReload(Daemon) \/ SyncFetch(Daemon)
    BY <1>3 DEF SyncReload, SyncFetch, ActiveSource, Registered, Event
  <1>4. CASE SyncWrite(Daemon) \/ SyncConflict(Daemon)
    BY <1>4 DEF SyncWrite, SyncConflict, FilesBecome, CommitsAsOwner, Return, ForgetLocals,
       NoManifest
  <1>5. CASE SyncSettle(Daemon) \/ Release(Daemon, "syRelease", "syChildren")
    BY <1>5 DEF SyncSettle, Release
  <1>6. CASE SyncChildren(Daemon) \/ SyncSave(Daemon)
    BY <1>6 DEF SyncChildren, SyncSave, Return, ForgetLocals, NoManifest
  <1>7. CASE \/ Release(Daemon, "syErrorRelease", "sySave")
             \/ Release(Daemon, "syGoneRelease", "syGoneObserve")
    BY <1>7 DEF Release
  <1>8. CASE \/ ObserveConfirm(Daemon, "syGoneConfirm", "syGoneChildren")
             \/ SyncGoneChildren(Daemon)
    BY <1>8 DEF ObserveConfirm, SyncGoneChildren, Return, ForgetLocals, NoManifest
  <1>9. CASE Observe(Daemon, "syGoneObserve", "syGoneMark", "syGoneConfirm", "syGoneChildren")
    BY <1>9 DEF Observe
  <1>10. CASE SyncWriteFails(Daemon)
    BY <1>10 DEF SyncWriteFails, FilesBecome, Event, DropsFence
  <1>11. CASE \/ WriteBack(Daemon, "syWrite", "sySettle")
              \/ WriteBack(Daemon, "syGoneWrite", "syGoneConfirm")
    BY <1>11, WriteBackPlaced
  <1> QED BY <1>1, <1>2, <1>3, <1>4, <1>5, <1>6, <1>7, <1>8, <1>9, <1>10, <1>11 DEF Sync

(* The steps of a reconcile keep the areas known where they are used.      *)
LEMMA ReconcilePlaced ==
  ASSUME DataTypes, PcType, Placed, NEW p \in Procs, Reconcile(p)
  PROVE  Placed'
  <1> USE Tokens DEF portable, runtime, locals, watch, bounds, Goto, DataTypes, PcType, Placed,
     Manifest, Registered
  <1>1. CASE ReconcileFound(p) \/ Observe(p, "rcObserve", "rcMark", "rcConfirm", "rcPrune")
    BY <1>1 DEF ReconcileFound, Observe
  <1>2. CASE ReconcileSync(p) \/ ObserveMark(p, "rcMark", "rcMarkWrite", "rcConfirm")
    BY <1>2, Readers, ReadsPlaced
  <1>3. CASE ReconcileStart(p) \/ ReconcileRow(p)
    BY <1>3 DEF ReconcileStart, ReconcileRow, Command
  <1>4. CASE ReconcileClean(p) \/ ReconcileResolve(p)
    BY <1>4 DEF ReconcileClean, ReconcileResolve
  <1>5. CASE ReconcileCommit(p) \/ ObserveConfirm(p, "rcConfirm", "rcPrune")
    BY <1>5 DEF ReconcileCommit, ObserveConfirm
  <1>6. CASE ReconcileAbort(p)
    BY <1>6 DEF ReconcileAbort, Return, ForgetLocals, NoManifest
  <1>7. CASE ReconcilePrune(p)
    BY <1>7 DEF ReconcilePrune, Return, ForgetLocals, NoManifest
  <1>8. CASE WriteBack(p, "rcWrite", "rcCommit") \/ WriteBack(p, "rcMarkWrite", "rcConfirm")
    BY <1>8, WriteBackPlaced
  <1> QED BY <1>1, <1>2, <1>3, <1>4, <1>5, <1>6, <1>7, <1>8 DEF Reconcile

(* The steps of a remove before it deregisters keep the areas known where  *)
(* they are used.                                                          *)
LEMMA RemovePlaced ==
  ASSUME DataTypes, PcType, Placed, NEW p \in Procs, Remove(p)
  PROVE  Placed'
  <1> USE Tokens DEF portable, runtime, locals, watch, bounds, Goto, DataTypes, PcType, Placed,
     Manifest, Registered
  <1>1. CASE RemoveStart(p) \/ Acquire(p, "rmAcquire", "rmFiles")
    BY <1>1 DEF RemoveStart, Acquire, StartOn, Command, Return, ForgetLocals, NoManifest
  <1>2. CASE RemoveFiles(p) \/ RemoveFails(p)
    BY <1>2 DEF RemoveFiles, RemoveFails, FilesBecome, Event
  <1> QED BY <1>1, <1>2 DEF Remove

(* The steps of a deregistration keep the areas known where they are used. *)
LEMMA DeregisterPlaced ==
  ASSUME DataTypes, PcType, Placed, NEW p \in Procs, Deregister(p)
  PROVE  Placed'
  <1> USE Tokens DEF portable, runtime, locals, watch, bounds, Goto, DataTypes, PcType, Placed,
     Manifest, Registered
  <1>1. CASE DropPolling(p) \/ DropRow(p, "deRow", "deChild")
    BY <1>1 DEF DropPolling, DropRow
  <1>2. CASE DropChild(p) \/ DropManifest(p)
    BY <1>2 DEF DropChild, DropManifest, NoManifest
  <1>3. CASE DeregisterRelease(p)
    BY <1>3 DEF DeregisterRelease, Return, ForgetLocals, NoManifest
  <1> QED BY <1>1, <1>2, <1>3 DEF Deregister

(* The steps of a finalization keep the areas known where they are used.   *)
LEMMA FinalizePlaced ==
  ASSUME DataTypes, PcType, Placed, NEW p \in Procs, Finalize(p)
  PROVE  Placed'
  <1> USE Tokens DEF portable, runtime, locals, watch, bounds, Goto, DataTypes, PcType, Placed,
     Manifest, Registered
  <1>1. CASE FinalizeRestore(p) \/ WriteBack(p, "fiWrite", "fiRestoreRow")
    BY <1>1, Readers, ReadsPlaced, WriteBackPlaced
  <1>2. CASE FinalizeStart(p) \/ Acquire(p, "fiAcquire", "fiCheck")
    BY <1>2 DEF FinalizeStart, Acquire, StartOn, Command, Return, ForgetLocals, NoManifest
  <1>3. CASE FinalizeCheck(p) \/ FinalizeRecheck(p)
    BY SMTT(30), <1>3 DEF FinalizeCheck, FinalizeRecheck, Resolved
  <1>4. CASE DropRow(p, "fiRestoreRow", "fiRestorePolling") \/ FinalizeRestorePolling(p)
    BY <1>4 DEF DropRow, FinalizeRestorePolling
  <1>5. CASE DropRow(p, "fiDrop", "deRelease")
    BY <1>5 DEF DropRow
  <1> QED BY <1>1, <1>2, <1>3, <1>4, <1>5 DEF Finalize

(* The steps of a move keep the areas known where they are used.           *)
LEMMA MovePlaced ==
  ASSUME DataTypes, PcType, Placed, NEW p \in Procs, Move(p)
  PROVE  Placed'
  <1> USE Tokens DEF portable, runtime, locals, watch, bounds, Goto, DataTypes, PcType, Placed,
     Manifest, Registered
  <1>1. CASE MoveSync(p) \/ WriteBack(p, "mvWrite", "mvRelease")
    BY <1>1, Readers, ReadsPlaced, WriteBackPlaced
  <1>2. CASE MoveStart(p) \/ Acquire(p, "mvAcquire", "mvRead")
    BY <1>2 DEF MoveStart, Acquire, StartOn, Command, Return, ForgetLocals, NoManifest
  <1>3. CASE MoveRenew(p, "mvRenew", "mvReread") \/ MoveReread(p)
    BY <1>3 DEF MoveRenew, MoveReread
  <1>4. CASE MoveRenew(p, "mvRenewAgain", "mvSync") \/ MoveRollback(p)
    BY <1>4 DEF MoveRenew, MoveRollback, FilesBecome
  <1>5. CASE MoveRelease(p)
    BY <1>5 DEF MoveRelease, Return, ForgetLocals, NoManifest
  <1>6. CASE MoveRead(p)
    BY <1>6 DEF MoveRead, Resolved
  <1>7. CASE MoveFile(p)
    BY ZenonT(40), <1>7 DEF MoveFile, FilesBecome, Movable
  <1> QED BY <1>1, <1>2, <1>3, <1>4, <1>5, <1>6, <1>7 DEF Move

(* The steps of the operations without a lease keep the areas known where  *)
(* they are used.                                                          *)
LEMMA UnleasedPlaced ==
  ASSUME DataTypes, PcType, Placed, NEW p \in Procs, Unleased(p)
  PROVE  Placed'
  <1> USE Tokens DEF portable, runtime, locals, watch, bounds, Goto, DataTypes, PcType, Placed,
     Manifest, Registered
  <1>1. CASE AddStart(p) \/ AddManifest(p)
    BY <1>1 DEF AddStart, AddManifest, Command, NewManifest
  <1>2. CASE AddPolling(p) \/ AddChild(p)
    BY <1>2 DEF AddPolling, AddChild, Return, ForgetLocals, NoManifest
  <1>3. CASE UpdateStart(p) \/ UpdateSave(p)
    BY <1>3 DEF UpdateStart, UpdateSave, StartOn, Command, Return, ForgetLocals, NoManifest
  <1>4. CASE RequestStart(p) \/ RequestSave(p)
    BY <1>4 DEF RequestStart, RequestSave, StartOn, Command, Return, ForgetLocals, NoManifest
  <1>5. CASE UpdateRead(p) \/ WriteBack(p, "upWrite", "upSave")
    BY <1>5, Readers, ReadsPlaced, WriteBackPlaced
  <1> QED BY <1>1, <1>2, <1>3, <1>4, <1>5 DEF Unleased, Add, Update

(* The steps of a folder move keep the areas known where they are used.    *)
LEMMA FolderMovePlaced ==
  ASSUME DataTypes, PcType, Placed, ApplyFolderMove
  PROVE  Placed'
  <1> USE Tokens DEF portable, runtime, locals, watch, bounds, Goto, DataTypes, PcType, Placed,
     Manifest, Registered
  <1>1. CASE FolderMoveStart
    BY <1>1 DEF FolderMoveStart
  <1>2. CASE FolderMoveRead
    BY <1>2, ManifestPaths DEF FolderMoveRead, Return, ForgetLocals, NoManifest
  <1>3. CASE FolderMoveWrite
    BY <1>3 DEF FolderMoveWrite, Return, ForgetLocals, NoManifest
  <1> QED BY <1>1, <1>2, <1>3 DEF ApplyFolderMove

(* The steps of the world around the code keep the areas known where they  *)
(* are used.                                                               *)
LEMMA WorldPlaced ==
  ASSUME DataTypes, PcType, Placed, World
  PROVE  Placed'
  <1> USE Tokens DEF portable, runtime, locals, watch, bounds, Goto, DataTypes, PcType, Placed,
     Manifest, Registered
  <1>1. CASE UserTouchesFiles \/ UserRenamesFolder
    BY <1>1 DEF UserTouchesFiles, UserDeletes, UserRestores, UserMoves, FilesBecome,
       UserRenamesFolder, Event
  <1>2. CASE Expire
    BY <1>2 DEF Expire
  <1>3. ASSUME NEW p \in Procs, Crash(p)
        PROVE  Placed'
    BY <1>3 DEF Crash, ForgetLocals, Event, NoManifest
  <1> QED BY <1>1, <1>2, <1>3 DEF World

-----------------------------------------------------------------------------

(* Every step keeps the types of the data.                                 *)
LEMMA DataStep ==
  ASSUME DataTypes, Placed, Next
  PROVE  DataTypes'
  <1>1. CASE Sync
    BY <1>1, SyncTyped
  <1>2. CASE ApplyFolderMove
    BY <1>2, FolderMoveTyped
  <1>3. ASSUME NEW p \in Procs, Reconcile(p)
        PROVE  DataTypes'
    BY <1>3, ReconcileTyped
  <1>4. ASSUME NEW p \in Clients, ClientStep(p)
        PROVE  DataTypes'
    <2>1. p \in Procs
      BY Tokens
    <2> QED BY <1>4, <2>1, RemoveTyped, DeregisterTyped, FinalizeTyped, MoveTyped, UnleasedTyped
            DEF ClientStep
  <1>5. CASE World
    BY <1>5, WorldTyped
  <1> QED BY <1>1, <1>2, <1>3, <1>4, <1>5 DEF Next

(* Every step keeps the areas known.                                       *)
LEMMA PlacedStep ==
  ASSUME DataTypes, PcType, Placed, Next
  PROVE  Placed'
  <1>1. CASE Sync
    BY <1>1, SyncPlaced
  <1>2. CASE ApplyFolderMove
    BY <1>2, FolderMovePlaced
  <1>3. ASSUME NEW p \in Procs, Reconcile(p)
        PROVE  Placed'
    BY <1>3, ReconcilePlaced
  <1>4. ASSUME NEW p \in Clients, ClientStep(p)
        PROVE  Placed'
    <2>1. p \in Procs
      BY Tokens
    <2> QED BY <1>4, <2>1, RemovePlaced, DeregisterPlaced, FinalizePlaced, MovePlaced, UnleasedPlaced
            DEF ClientStep
  <1>5. CASE World
    BY <1>5, WorldPlaced
  <1> QED BY <1>1, <1>2, <1>3, <1>4, <1>5 DEF Next

(* The initial states are typed, whichever of the three brains it starts   *)
(* from.                                                                   *)
LEMMA TypedInit == Init => Typed
  <1> SUFFICES ASSUME Init
               PROVE  Typed
    OBVIOUS
  <1>1. NoRow \in Row /\ NoManifest \in Manifest
    BY DEF Row, NoRow, Manifest, NoManifest
  <1>2. manifest \in Manifest /\ files \in SUBSET Areas
    <2>1. CASE manifest = NoManifest /\ files = {}
      BY <1>1, <2>1
    <2>2. ASSUME NEW a \in Areas, NEW s \in {"materialized", "missing"},
                 manifest = [st |-> s, path |-> a, hash |-> TRUE], files \in {{}, {a}}
          PROVE  manifest \in Manifest /\ files \in SUBSET Areas
      BY <2>2 DEF Manifest, KnowledgeState
    <2> QED BY <2>1, <2>2 DEF Init
  <1>3. DataTypes
    <2>1. /\ snap \in [Procs -> Manifest] /\ row \in [Procs -> Row]
          /\ spot \in [Procs -> Areas \union {NoArea}]
          /\ dest \in [Procs -> Areas \union {NoArea}]
          /\ flag \in [Procs -> BOOLEAN]
      BY <1>1 DEF Init
    <2>2. commandsLeft \in 0 .. MaxCommands /\ eventsLeft \in 0 .. MaxEvents
      BY BoundsAssumption DEF Init
    <2> QED BY <1>1, <1>2, <2>1, <2>2 DEF Init, DataTypes
  <1>4. PcType
    BY DEF Init, PcType, Points
  <1>5. Placed
    BY DEF Init, Placed, Registered, NoManifest
  <1> QED BY <1>3, <1>4, <1>5 DEF Typed

(* Every step, and every stutter, keeps the typed invariant.               *)
LEMMA TypedStep == Typed /\ [Next]_vars => Typed'
  <1>1. ASSUME Typed, Next
        PROVE  Typed'
    BY <1>1, DataStep, PointsTyped, PlacedStep DEF Typed
  <1>2. ASSUME Typed, UNCHANGED vars
        PROVE  Typed'
    BY <1>2 DEF Typed, DataTypes, PcType, Placed, Registered, vars, portable, runtime, locals,
       watch, bounds
  <1> QED BY <1>1, <1>2

(* In every reachable state each variable holds a value of its type: the   *)
(* manifest, rows and fence that the repository calls pass around, and the *)
(* program point and locals of every process.                              *)
THEOREM TypeCorrect == Spec => []TypeOK
  <1>1. Typed => TypeOK
    BY DEF Typed, TypeOK, PcType
  <1> QED BY <1>1, TypedInit, TypedStep, PTL DEF Spec

=============================================================================

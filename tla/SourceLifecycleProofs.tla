------------------------ MODULE SourceLifecycleProofs -----------------------
(***************************************************************************)
(* What SourceLifecycle is correct by, for every number of clients and     *)
(* areas and every bound: leases, commit fence and program points agree    *)
(* (Coordination), the manifest stays one its serializer accepts, nobody   *)
(* starts to rewrite a source that is gone, soft paths respect leases, and *)
(* no file is lost.                                                        *)
(***************************************************************************)
EXTENDS SourceLifecycleTypes, FiniteSetTheorems

(* Inside the fence, after a look that found no lease.                     *)
SoftPoints ==
  {"syGoneMark", "syGoneWrite", "rcMark", "rcMarkWrite", "rcSync", "rcWrite", "fmWrite"}

SoftSectionsUnleased == \A p \in Procs : pc[p] \in SoftPoints => ~LeaseActive(rt)

(* The four are inductive only together: who is inside a commit section    *)
(* holds the fence, so nobody else writes the lease it committed under, or *)
(* takes one that it did not find.                                         *)
Coordination ==
  NoLeakedLease /\ FenceMatchesSection /\ CommitUnderLease /\ SoftSectionsUnleased

(* What is about to be written is as valid as what is on disk.             *)
ManifestsStayValid ==
  ManifestStaysValid /\ \A p \in Procs : pc[p] \in WritePoints => Valid(snap[p])

IInv == Typed /\ Coordination /\ ManifestsStayValid

-----------------------------------------------------------------------------

(* Whose the lease is after each statement on a runtime row.               *)
LEMMA RowOwners ==
  \A r \in Row, p \in Procs :
    /\ NoRow.owner = NoOwner
    /\ Acquired(r, p).owner = p
    /\ Renewed(r).owner = r.owner
    /\ Cleared(r, p).owner = IF r.owner = p THEN NoOwner ELSE r.owner
    /\ Pruned(Cleared(r, p)).owner = Cleared(r, p).owner
    /\ Stripped(r).owner = NoOwner
    /\ Confirmed(r).owner = r.owner
    /\ Abandoned(r, p, Crashed).owner = IF r.owner = p THEN Crashed ELSE r.owner
  BY Tokens DEF Row, NoRow, Acquired, Renewed, Cleared, Pruned, Stripped, Confirmed, Abandoned

(* What a step of a process has to respect: it writes the row only outside *)
(* of the sections of others, and then makes itself the owner, or nobody;  *)
(* it leaves its leased points without the lease; it goes where no lease   *)
(* is active only if none is; and it takes, keeps or drops the fence as    *)
(* its program point says.                                                 *)
LEMMA Coordinates ==
  ASSUME DataTypes, PcType, Coordination, NEW p \in Procs, NEW from, NEW to, Goto(p, from, to),
         rt' # rt => fence \in {p, NoOwner} /\ rt'.owner \in {rt.owner, p, NoOwner},
         rt'.owner = p => to \in LeasedPoints,
         to \in {"syManifest", "syWrite", "sySettle"} => rt'.owner = p,
         to \in SoftPoints => ~LeaseActive(rt'),
         \/ fence' = fence /\ (from \in FencedPoints <=> to \in FencedPoints)
         \/ fence = NoOwner /\ fence' = p /\ to \in FencedPoints
         \/ fence = p /\ fence' = NoOwner /\ to \notin FencedPoints
  PROVE  Coordination'
  <1> USE Tokens DEF Goto, PcType
  <1>1. \A q \in Procs : pc'[q] = IF q = p THEN to ELSE pc[q]
    OBVIOUS
  <1>2. \A q \in Procs : pc[q] \in FencedPoints <=> fence = q
    BY DEF Coordination, FenceMatchesSection
  <1>3. NoLeakedLease'
    BY <1>1 DEF Coordination, NoLeakedLease
  <1>4. FenceMatchesSection'
    BY <1>1, <1>2 DEF FenceMatchesSection
  <1>5. CommitUnderLease'
    BY <1>1, <1>2 DEF Coordination, CommitUnderLease, FencedPoints
  <1>6. SoftSectionsUnleased'
    BY <1>1, <1>2 DEF Coordination, SoftSectionsUnleased, SoftPoints, FencedPoints, LeaseActive
  <1> QED BY <1>3, <1>4, <1>5, <1>6 DEF Coordination

(* An operation that acquires the lease goes on to a leased point; one     *)
(* that is refused owns nothing and returns.                               *)
LEMMA AcquireCoordinated ==
  ASSUME DataTypes, PcType, Coordination, NEW p \in Procs,
         NEW from, from \notin FencedPoints,
         NEW to \in LeasedPoints, to \notin FencedPoints \union SoftPoints, Acquire(p, from, to)
  PROVE  Coordination'
  <1>1. Acquired(rt, p).owner = p
    BY RowOwners DEF DataTypes
  <1>2. CASE Goto(p, from, to) /\ rt' = Acquired(rt, p)
    BY <1>1, <1>2, Coordinates DEF Acquire, DbFree, FencedPoints
  <1>3. CASE Goto(p, from, "idle") /\ rt' = rt /\ ~MayAcquire(rt, p)
    BY <1>3, Coordinates DEF Acquire, FencedPoints, SoftPoints, MayAcquire
  <1> QED BY <1>2, <1>3 DEF Acquire, Return

(* A step that drops the row, or clears the lease of its process, outside  *)
(* of any section leaves the process without the lease.                    *)
LEMMA GivesUpCoordinated ==
  ASSUME DataTypes, PcType, Coordination, NEW p \in Procs,
         NEW from, NEW to, from \notin FencedPoints, to \notin FencedPoints \union SoftPoints,
         DbFree, Goto(p, from, to), fence' = fence,
         rt' \in {NoRow, Cleared(rt, p), Pruned(Cleared(rt, p))}
  PROVE  Coordination'
  <1>1. rt'.owner # p /\ rt'.owner \in {rt.owner, NoOwner}
    <2>1. /\ NoRow.owner = NoOwner
          /\ Cleared(rt, p).owner = IF rt.owner = p THEN NoOwner ELSE rt.owner
          /\ Pruned(Cleared(rt, p)).owner = Cleared(rt, p).owner
      BY RowOwners DEF DataTypes
    <2> QED BY <2>1, Tokens
  <1> QED BY <1>1, Coordinates DEF DbFree, FencedPoints

(* The commit section of a poll ends with neither lease nor fence.         *)
LEMMA SyncSettleCoordinated ==
  ASSUME DataTypes, PcType, Coordination, NEW p \in Procs, SyncSettle(p)
  PROVE  Coordination'
  <1>1. rt'.owner # p /\ rt'.owner \in {rt.owner, NoOwner}
    <2>1. /\ Cleared(rt, p).owner = IF rt.owner = p THEN NoOwner ELSE rt.owner
          /\ Pruned(Cleared(rt, p)).owner = Cleared(rt, p).owner
      BY RowOwners DEF DataTypes
    <2> QED BY <2>1, Tokens DEF SyncSettle
  <1>2. fence = p
    BY DEF SyncSettle, Goto, Coordination, FenceMatchesSection, FencedPoints
  <1> QED BY <1>1, <1>2, Coordinates DEF SyncSettle, FencedPoints, SoftPoints

(* What reconcile writes over a runtime row has no owner.                  *)
LEMMA ReconcileCleanCoordinated ==
  ASSUME DataTypes, PcType, Coordination, NEW p \in Procs, ReconcileClean(p)
  PROVE  Coordination'
  <1>1. rt'.owner = NoOwner
    <2>1. NoRow.owner = NoOwner /\ Stripped(row[p]).owner = NoOwner
      BY RowOwners DEF DataTypes
    <2> QED BY <2>1 DEF ReconcileClean
  <1> QED BY <1>1, Tokens, Coordinates DEF ReconcileClean, DbFree, FencedPoints, SoftPoints

(* The fence of a source that was found is dropped, with the row of one    *)
(* that comes back.                                                        *)
LEMMA ReconcileCommitCoordinated ==
  ASSUME DataTypes, PcType, Coordination, NEW p \in Procs, ReconcileCommit(p)
  PROVE  Coordination'
  <1>1. NoRow.owner = NoOwner
    BY DEF NoRow
  <1>2. fence = p /\ rt.owner # p
    BY DEF ReconcileCommit, Goto, Coordination, FenceMatchesSection, NoLeakedLease, FencedPoints,
       LeasedPoints
  <1> QED BY <1>1, <1>2, Tokens, Coordinates DEF ReconcileCommit, FencedPoints, SoftPoints

(* The fence of an observation is dropped, and the lease left as it is.    *)
LEMMA ObserveConfirmCoordinated ==
  ASSUME DataTypes, PcType, Coordination, NEW p \in Procs,
         NEW confirm \in FencedPoints, confirm \notin LeasedPoints,
         NEW done, done \notin FencedPoints \union LeasedPoints \union SoftPoints,
         ObserveConfirm(p, confirm, done)
  PROVE  Coordination'
  <1>1. rt'.owner = rt.owner
    BY RowOwners DEF DataTypes, ObserveConfirm
  <1>2. fence = p /\ rt.owner # p
    BY DEF ObserveConfirm, Goto, Coordination, FenceMatchesSection, NoLeakedLease
  <1> QED BY <1>1, <1>2, Coordinates DEF ObserveConfirm, FencedPoints

(* A poll enters its commit section as the owner of the lease.             *)
LEMMA SyncWriteCoordinated ==
  ASSUME DataTypes, PcType, Coordination, NEW p \in Procs, SyncWrite(p)
  PROVE  Coordination'
  BY Coordinates DEF SyncWrite, CommitsAsOwner, MayRenew, DbFree, FencedPoints, LeasedPoints, SoftPoints

(* A poll that lost its lease returns, and has none.                       *)
LEMMA SyncConflictCoordinated ==
  ASSUME DataTypes, PcType, Coordination, NEW p \in Procs, SyncConflict(p)
  PROVE  Coordination'
  BY Coordinates DEF SyncConflict, Return, MayRenew, runtime, FencedPoints, SoftPoints

(* Renewing changes no owner, whether it succeeds or not.                  *)
LEMMA MoveRenewCoordinated ==
  ASSUME DataTypes, PcType, Coordination, NEW p \in Procs,
         NEW from \in {"mvRenew", "mvRenewAgain"}, NEW to \in {"mvReread", "mvSync"},
         MoveRenew(p, from, to)
  PROVE  Coordination'
  <1>1. Renewed(rt).owner = rt.owner
    BY RowOwners DEF DataTypes
  <1>2. CASE Goto(p, from, to) /\ rt' = Renewed(rt)
    BY <1>1, <1>2, Coordinates DEF MoveRenew, DbFree, FencedPoints, LeasedPoints, SoftPoints
  <1>3. CASE Goto(p, from, "mvRollback") /\ rt' = rt
    BY <1>3, Coordinates DEF MoveRenew, DbFree, FencedPoints, LeasedPoints, SoftPoints
  <1> QED BY <1>2, <1>3 DEF MoveRenew

(* The lease of a crashed process is that of no process, and its fence is  *)
(* rolled back.                                                            *)
LEMMA CrashCoordinated ==
  ASSUME DataTypes, PcType, Coordination, NEW p \in Procs, Crash(p)
  PROVE  Coordination'
  <1>0. rt'.owner = IF rt.owner = p THEN Crashed ELSE rt.owner
    BY RowOwners DEF DataTypes, Crash
  <1>1. \A q \in Procs : pc'[q] = IF q = p THEN "idle" ELSE pc[q]
    BY DEF Crash, PcType
  <1> USE Tokens, <1>0, <1>1
  <1>3. NoLeakedLease'
    BY DEF Coordination, NoLeakedLease
  <1>4. FenceMatchesSection'
    BY DEF Coordination, FenceMatchesSection, Crash, FencedPoints
  <1>5. CommitUnderLease'
    BY DEF Coordination, CommitUnderLease
  <1>6. SoftSectionsUnleased'
    <2>1. rt'.live = rt.live /\ (rt'.owner # NoOwner <=> rt.owner # NoOwner)
      BY DEF Crash, Abandoned, DataTypes, Row
    <2> QED BY <2>1 DEF Coordination, SoftSectionsUnleased, SoftPoints, LeaseActive
  <1> QED BY <1>3, <1>4, <1>5, <1>6 DEF Coordination

(* The steps of a poll keep leases, fence and program points together.     *)
LEMMA SyncCoordinated ==
  ASSUME DataTypes, PcType, Coordination, Sync
  PROVE  Coordination'
  <1> USE Tokens DEF portable, runtime, locals, Goto, DbFree, PcType, Coordination,
     NoLeakedLease, FenceMatchesSection, CommitUnderLease, LeasedPoints, FencedPoints,
     SoftSectionsUnleased, SoftPoints
  <1>1. CASE Acquire(Daemon, "syAcquire", "syReload")
    BY <1>1, AcquireCoordinated
  <1>2. CASE SyncWrite(Daemon)
    BY <1>2, SyncWriteCoordinated
  <1>3. CASE SyncConflict(Daemon)
    BY <1>3, SyncConflictCoordinated
  <1>4. CASE SyncSettle(Daemon)
    BY <1>4, SyncSettleCoordinated
  <1>5. CASE Release(Daemon, "syRelease", "syChildren")
    BY <1>5, GivesUpCoordinated DEF Release
  <1>6. CASE Release(Daemon, "syErrorRelease", "sySave")
    BY <1>6, GivesUpCoordinated DEF Release
  <1>7. CASE Release(Daemon, "syGoneRelease", "syGoneObserve")
    BY <1>7, GivesUpCoordinated DEF Release
  <1>8. CASE ObserveConfirm(Daemon, "syGoneConfirm", "syGoneChildren")
    BY <1>8, ObserveConfirmCoordinated
  <1>9. CASE SyncStart \/ SyncReload(Daemon)
    BY <1>9 DEF SyncStart, SyncReload, ActiveSource, Registered
  <1>10. CASE SyncFetch(Daemon) \/ SyncManifest(Daemon)
    BY <1>10 DEF SyncFetch, SyncManifest, Rewrites, Event
  <1>11. CASE SyncWriteFails(Daemon) \/ SyncChildren(Daemon)
    BY <1>11 DEF SyncWriteFails, SyncChildren, FilesBecome, Event, DropsFence
  <1>12. CASE SyncSave(Daemon) \/ SyncGoneChildren(Daemon)
    BY <1>12 DEF SyncSave, SyncGoneChildren, Return, ForgetLocals
  <1>13. CASE \/ Observe(Daemon, "syGoneObserve", "syGoneMark", "syGoneConfirm", "syGoneChildren")
              \/ ObserveMark(Daemon, "syGoneMark", "syGoneWrite", "syGoneConfirm")
    BY <1>13 DEF Observe, MayObserve, ObserveMark, Rewrites
  <1>14. CASE \/ WriteBack(Daemon, "syWrite", "sySettle")
              \/ WriteBack(Daemon, "syGoneWrite", "syGoneConfirm")
    BY <1>14 DEF WriteBack
  <1> QED BY <1>1, <1>2, <1>3, <1>4, <1>5, <1>6, <1>7, <1>8, <1>9, <1>10, <1>11, <1>12, <1>13, <1>14
     DEF Sync

(* The steps of a reconcile keep leases, fence and program points          *)
(* together.                                                               *)
LEMMA ReconcileCoordinated ==
  ASSUME DataTypes, PcType, Coordination, NEW p \in Procs, Reconcile(p)
  PROVE  Coordination'
  <1> USE Tokens DEF portable, runtime, locals, Goto, DbFree, PcType, Coordination,
     NoLeakedLease, FenceMatchesSection, CommitUnderLease, LeasedPoints, FencedPoints,
     SoftSectionsUnleased, SoftPoints
  <1>1. CASE ReconcileClean(p)
    BY <1>1, ReconcileCleanCoordinated
  <1>2. CASE ReconcileCommit(p)
    BY <1>2, ReconcileCommitCoordinated
  <1>3. CASE ObserveConfirm(p, "rcConfirm", "rcPrune")
    BY <1>3, ObserveConfirmCoordinated
  <1>4. CASE ReconcileStart(p) \/ ReconcileRow(p)
    BY <1>4 DEF ReconcileStart, ReconcileRow, Command
  <1>5. CASE ReconcileResolve(p) \/ ReconcileFound(p)
    BY <1>5 DEF ReconcileResolve, ReconcileFound
  <1>6. CASE \/ Observe(p, "rcObserve", "rcMark", "rcConfirm", "rcPrune")
             \/ ObserveMark(p, "rcMark", "rcMarkWrite", "rcConfirm")
    BY <1>6 DEF Observe, MayObserve, ObserveMark, Rewrites
  <1>7. CASE ReconcilePrune(p) \/ ReconcileAbort(p)
    BY <1>7 DEF ReconcilePrune, ReconcileAbort, Return, ForgetLocals
  <1>8. CASE ReconcileSync(p)
    BY <1>8 DEF ReconcileSync, FollowFile
  <1>9. CASE WriteBack(p, "rcWrite", "rcCommit") \/ WriteBack(p, "rcMarkWrite", "rcConfirm")
    BY <1>9 DEF WriteBack
  <1> QED BY <1>1, <1>2, <1>3, <1>4, <1>5, <1>6, <1>7, <1>8, <1>9 DEF Reconcile

(* The steps of a remove before it deregisters keep leases, fence and      *)
(* program points together.                                                *)
LEMMA RemoveCoordinated ==
  ASSUME DataTypes, PcType, Coordination, NEW p \in Procs, Remove(p)
  PROVE  Coordination'
  <1> USE Tokens DEF portable, runtime, locals, Goto, DbFree, PcType, Coordination,
     NoLeakedLease, FenceMatchesSection, CommitUnderLease, LeasedPoints, FencedPoints,
     SoftSectionsUnleased, SoftPoints
  <1>1. CASE Acquire(p, "rmAcquire", "rmFiles")
    BY <1>1, AcquireCoordinated
  <1>2. CASE RemoveStart(p) \/ RemoveFiles(p)
    BY <1>2 DEF RemoveStart, RemoveFiles, StartOn, Command, FilesBecome
  <1>3. CASE RemoveFails(p)
    BY <1>3 DEF RemoveFails, Event
  <1> QED BY <1>1, <1>2, <1>3 DEF Remove

(* The steps of a deregistration keep leases, fence and program points     *)
(* together.                                                               *)
LEMMA DeregisterCoordinated ==
  ASSUME DataTypes, PcType, Coordination, NEW p \in Procs, Deregister(p)
  PROVE  Coordination'
  <1> USE Tokens DEF portable, runtime, locals, Goto, DbFree, PcType, Coordination,
     NoLeakedLease, FenceMatchesSection, CommitUnderLease, LeasedPoints, FencedPoints,
     SoftSectionsUnleased, SoftPoints
  <1>1. CASE DropRow(p, "deRow", "deChild")
    BY <1>1, GivesUpCoordinated DEF DropRow
  <1>2. CASE DeregisterRelease(p)
    BY <1>2, GivesUpCoordinated DEF DeregisterRelease, Return
  <1>3. CASE DropPolling(p) \/ DropChild(p)
    BY <1>3 DEF DropPolling, DropChild
  <1>4. CASE DropManifest(p)
    BY <1>4 DEF DropManifest
  <1> QED BY <1>1, <1>2, <1>3, <1>4 DEF Deregister

(* The steps of a finalization keep leases, fence and program points       *)
(* together.                                                               *)
LEMMA FinalizeCoordinated ==
  ASSUME DataTypes, PcType, Coordination, NEW p \in Procs, Finalize(p)
  PROVE  Coordination'
  <1> USE Tokens DEF portable, runtime, locals, Goto, DbFree, PcType, Coordination,
     NoLeakedLease, FenceMatchesSection, CommitUnderLease, LeasedPoints, FencedPoints,
     SoftSectionsUnleased, SoftPoints
  <1>1. CASE Acquire(p, "fiAcquire", "fiCheck")
    BY <1>1, AcquireCoordinated
  <1>2. CASE DropRow(p, "fiRestoreRow", "fiRestorePolling")
    BY <1>2, GivesUpCoordinated DEF DropRow
  <1>3. CASE DropRow(p, "fiDrop", "deRelease")
    BY <1>3, GivesUpCoordinated DEF DropRow
  <1>4. CASE FinalizeStart(p) \/ FinalizeCheck(p)
    BY <1>4 DEF FinalizeStart, FinalizeCheck, StartOn, Command
  <1>5. CASE FinalizeRecheck(p) \/ FinalizeRestore(p)
    BY <1>5 DEF FinalizeRecheck, FinalizeRestore, FollowFile
  <1>6. CASE FinalizeRestorePolling(p) \/ WriteBack(p, "fiWrite", "fiRestoreRow")
    BY <1>6 DEF FinalizeRestorePolling, WriteBack
  <1> QED BY <1>1, <1>2, <1>3, <1>4, <1>5, <1>6 DEF Finalize

(* The steps of a move keep leases, fence and program points together.     *)
LEMMA MoveCoordinated ==
  ASSUME DataTypes, PcType, Coordination, NEW p \in Procs, Move(p)
  PROVE  Coordination'
  <1> USE Tokens DEF portable, runtime, locals, Goto, DbFree, PcType, Coordination,
     NoLeakedLease, FenceMatchesSection, CommitUnderLease, LeasedPoints, FencedPoints,
     SoftSectionsUnleased, SoftPoints
  <1>1. CASE Acquire(p, "mvAcquire", "mvRead")
    BY <1>1, AcquireCoordinated
  <1>2. CASE MoveRenew(p, "mvRenew", "mvReread")
    BY <1>2, MoveRenewCoordinated
  <1>3. CASE MoveRenew(p, "mvRenewAgain", "mvSync")
    BY <1>3, MoveRenewCoordinated
  <1>4. CASE MoveRelease(p)
    BY <1>4, GivesUpCoordinated DEF MoveRelease, Return
  <1>5. CASE MoveStart(p) \/ MoveRead(p)
    BY <1>5 DEF MoveStart, MoveRead, StartOn, Command
  <1>6. CASE MoveFile(p) \/ MoveReread(p)
    BY <1>6 DEF MoveFile, MoveReread, FilesBecome, Movable
  <1>7. CASE WriteBack(p, "mvWrite", "mvRelease") \/ MoveRollback(p)
    BY <1>7 DEF WriteBack, MoveRollback, FilesBecome
  <1>8. CASE MoveSync(p)
    BY <1>8 DEF MoveSync, FollowFile, Rewrites
  <1> QED BY <1>1, <1>2, <1>3, <1>4, <1>5, <1>6, <1>7, <1>8 DEF Move

(* The steps of the operations without a lease keep leases, fence and      *)
(* program points together.                                                *)
LEMMA UnleasedCoordinated ==
  ASSUME DataTypes, PcType, Coordination, NEW p \in Procs, Unleased(p)
  PROVE  Coordination'
  <1> USE Tokens DEF portable, runtime, locals, Goto, DbFree, PcType, Coordination,
     NoLeakedLease, FenceMatchesSection, CommitUnderLease, LeasedPoints, FencedPoints,
     SoftSectionsUnleased, SoftPoints
  <1>1. CASE AddStart(p) \/ AddManifest(p)
    BY <1>1 DEF AddStart, AddManifest, Command
  <1>2. CASE AddPolling(p) \/ AddChild(p)
    BY <1>2 DEF AddPolling, AddChild, Return, ForgetLocals
  <1>3. CASE UpdateStart(p) \/ UpdateSave(p)
    BY <1>3 DEF UpdateStart, UpdateSave, StartOn, Command, Return, ForgetLocals
  <1>4. CASE RequestStart(p) \/ RequestSave(p)
    BY <1>4 DEF RequestStart, RequestSave, StartOn, Command, Return, ForgetLocals
  <1>5. CASE UpdateRead(p) \/ WriteBack(p, "upWrite", "upSave")
    BY <1>5 DEF UpdateRead, Rewrites, WriteBack
  <1> QED BY <1>1, <1>2, <1>3, <1>4, <1>5 DEF Unleased, Add, Update

(* The steps of a folder move keep leases, fence and program points        *)
(* together.                                                               *)
LEMMA FolderMoveCoordinated ==
  ASSUME DataTypes, PcType, Coordination, ApplyFolderMove
  PROVE  Coordination'
  <1> USE Tokens DEF portable, runtime, locals, Goto, DbFree, PcType, Coordination,
     NoLeakedLease, FenceMatchesSection, CommitUnderLease, LeasedPoints, FencedPoints,
     SoftSectionsUnleased, SoftPoints
  <1>1. CASE FolderMoveStart
    BY <1>1 DEF FolderMoveStart
  <1>2. CASE FolderMoveRead
    BY <1>2 DEF FolderMoveRead, Return, ForgetLocals
  <1>3. CASE FolderMoveWrite
    BY <1>3 DEF FolderMoveWrite, Return, ForgetLocals
  <1> QED BY <1>1, <1>2, <1>3 DEF ApplyFolderMove

(* The steps of the world around the code keep leases, fence and program   *)
(* points together.                                                        *)
LEMMA WorldCoordinated ==
  ASSUME DataTypes, PcType, Coordination, World
  PROVE  Coordination'
  <1> USE Tokens DEF portable, runtime, locals, Goto, DbFree, PcType, Coordination,
     NoLeakedLease, FenceMatchesSection, CommitUnderLease, LeasedPoints, FencedPoints,
     SoftSectionsUnleased, SoftPoints
  <1>1. ASSUME NEW p \in Procs, Crash(p)
        PROVE  Coordination'
    BY <1>1, CrashCoordinated
  <1>2. CASE UserTouchesFiles \/ UserRenamesFolder
    BY <1>2 DEF UserTouchesFiles, UserDeletes, UserRestores, UserMoves, FilesBecome,
       UserRenamesFolder, Event
  <1>3. CASE Expire
    <2>1. rt'.owner = rt.owner /\ ~rt'.live
      BY <1>3 DEF Expire, DataTypes, Row
    <2> QED BY <1>3, <2>1 DEF Expire, LeaseActive
  <1> QED BY <1>1, <1>2, <1>3 DEF World

(* Every step keeps leases, fence and program points together.             *)
LEMMA CoordinationStep ==
  ASSUME DataTypes, PcType, Coordination, Next
  PROVE  Coordination'
  <1>1. CASE Sync
    BY <1>1, SyncCoordinated
  <1>2. CASE ApplyFolderMove
    BY <1>2, FolderMoveCoordinated
  <1>3. ASSUME NEW p \in Procs, Reconcile(p)
        PROVE  Coordination'
    BY <1>3, ReconcileCoordinated
  <1>4. ASSUME NEW p \in Clients, ClientStep(p)
        PROVE  Coordination'
    <2>1. p \in Procs
      BY Tokens
    <2> QED BY <1>4, <2>1, RemoveCoordinated, DeregisterCoordinated, FinalizeCoordinated,
            MoveCoordinated, UnleasedCoordinated
            DEF ClientStep
  <1>5. CASE World
    BY <1>5, WorldCoordinated
  <1> QED BY <1>1, <1>2, <1>3, <1>4, <1>5 DEF Next

-----------------------------------------------------------------------------

(* What a step does about the manifest.  It leaves it alone, or takes what *)
(* it will write from a manifest that it finds, or writes what it took; an *)
(* add and a deregistration write without a look.                          *)
Others(p) == \A q \in Procs : q # p => pc'[q] = pc[q] /\ snap'[q] = snap[q]

Ordinary(p) == manifest' = manifest /\ pc'[p] \notin WritePoints /\ Others(p)

Prepares(p) ==
  /\ Registered(manifest)
  /\ manifest' = manifest
  /\ Valid(manifest) => Valid(snap'[p])
  /\ Others(p)

Writes(p) == pc[p] \in WritePoints /\ pc'[p] \notin WritePoints /\ manifest' = snap[p] /\ Others(p)

Registers(p) ==
  /\ p \in Clients /\ pc[p] = "adManifest" /\ pc'[p] = "adPolling"
  /\ manifest' = NewManifest(dest[p])
  /\ Others(p)

Unregisters(p) ==
  /\ pc[p] = "deManifest" /\ pc'[p] = "deRelease"
  /\ manifest' = NoManifest
  /\ Others(p)

Handles(p) == Ordinary(p) \/ Prepares(p) \/ Writes(p) \/ Registers(p) \/ Unregisters(p)

(* Which updates of a manifest keep it one the serializer accepts.         *)
LEMMA ManifestsValid ==
  \A m \in Manifest, a \in Areas \union {NoArea} :
    /\ Valid(NewManifest(a)) /\ Valid(NoManifest)
    /\ Valid(m) /\ Registered(m) => Valid(Rehomed(m, a))
    /\ Valid(m) => Valid(Materialized(m, a))
    /\ Valid(MarkedMissing(m))
  BY DEF Manifest, KnowledgeState, Registered, Valid, NewManifest, NoManifest, Rehomed, Materialized,
     MarkedMissing

(* A process that rewrites the manifest prepares a valid one, or goes      *)
(* where nothing is written.                                               *)
LEMMA RewritesHandle ==
  ASSUME Typed, NEW p \in Procs, NEW from, NEW write, NEW gone, gone \notin WritePoints, NEW m,
         Valid(manifest) /\ Registered(manifest) => Valid(m),
         m \in Manifest,
         Rewrites(p, from, m, write, gone), manifest' = manifest
  PROVE  Handles(p)
  <1>1. Others(p)
    BY DEF Rewrites, Goto, Others, Typed, PcType, DataTypes
  <1>2. CASE Registered(manifest)
    <2>1. snap'[p] = m
      BY <1>2 DEF Rewrites, Typed, DataTypes
    <2> QED BY <1>1, <1>2, <2>1 DEF Handles, Prepares
  <1>3. CASE ~Registered(manifest)
    <2>1. pc'[p] = gone
      BY <1>3 DEF Rewrites, Goto, Typed, PcType
    <2> QED BY <1>1, <2>1 DEF Handles, Ordinary
  <1> QED BY <1>2, <1>3

(* So does a process that follows a file.                                  *)
LEMMA FollowHandles ==
  ASSUME Typed, NEW p \in Procs, NEW from, NEW write, NEW same, NEW raises,
         same \notin WritePoints, raises \notin WritePoints, NEW a,
         FollowFile(p, from, a, write, same, raises), manifest' = manifest
  PROVE  Handles(p)
  <1> DEFINE found == SyncedTo(manifest, a)
  <1>1. Others(p)
    BY DEF FollowFile, Goto, Others, Typed, PcType, DataTypes
  <1>2. CASE MayFollow(a) /\ found # manifest
    <2>1. snap'[p] = found /\ Valid(found) /\ Registered(manifest)
      BY <1>2 DEF FollowFile, MayFollow, Typed, DataTypes
    <2> QED BY <1>1, <2>1 DEF Handles, Prepares
  <1>3. CASE ~(MayFollow(a) /\ found # manifest)
    <2>1. pc'[p] \in {same, raises}
      BY <1>3 DEF FollowFile, Goto, Typed, PcType
    <2> QED BY <1>1, <2>1 DEF Handles, Ordinary
  <1> QED BY <1>2, <1>3

(* A process writes back at a write point, and leaves it.                  *)
LEMMA WriteBackHandles ==
  ASSUME Typed, NEW p \in Procs, NEW from \in WritePoints, NEW to, to \notin WritePoints,
         WriteBack(p, from, to)
  PROVE  Handles(p)
  BY DEF WriteBack, locals, Goto, Typed, PcType, Handles, Writes, Others

(* The steps of a poll, about the manifest.                                *)
LEMMA SyncHandles ==
  ASSUME Typed, Sync
  PROVE  Handles(Daemon)
  <1> USE Tokens DEF portable, WritePoints
  <1>1. CASE SyncManifest(Daemon)
    <2>1. manifest \in Manifest /\ snap[Daemon].path \in Areas \union {NoArea}
      BY DEF Typed, DataTypes, Manifest
    <2>2. /\ Valid(manifest) => Valid(Materialized(manifest, snap[Daemon].path))
          /\ Materialized(manifest, snap[Daemon].path) \in Manifest
      BY <2>1, ManifestsValid, ManifestsTyped
    <2> QED BY <1>1, <2>2, RewritesHandle DEF SyncManifest
  <1>2. CASE ObserveMark(Daemon, "syGoneMark", "syGoneWrite", "syGoneConfirm")
    <2>1. manifest \in Manifest
      BY DEF Typed, DataTypes
    <2>2. Valid(MarkedMissing(manifest)) /\ MarkedMissing(manifest) \in Manifest
      BY <2>1, ManifestsValid, ManifestsTyped
    <2> QED BY <1>2, <2>2, RewritesHandle DEF ObserveMark
  <1>3. CASE \/ WriteBack(Daemon, "syWrite", "sySettle")
             \/ WriteBack(Daemon, "syGoneWrite", "syGoneConfirm")
    BY <1>3, WriteBackHandles
  <1> USE DEF Handles, Ordinary, Others, Goto, Typed, PcType, DataTypes, locals, Return, ForgetLocals
  <1>4. CASE SyncStart \/ Acquire(Daemon, "syAcquire", "syReload") \/ SyncReload(Daemon)
    BY <1>4 DEF SyncStart, Acquire, SyncReload
  <1>5. CASE SyncFetch(Daemon) \/ SyncWrite(Daemon) \/ SyncConflict(Daemon)
    BY <1>5 DEF SyncFetch, SyncWrite, SyncConflict
  <1>6. CASE SyncWriteFails(Daemon) \/ SyncSettle(Daemon) \/ SyncChildren(Daemon) \/ SyncSave(Daemon)
    BY <1>6 DEF SyncWriteFails, SyncSettle, SyncChildren, SyncSave
  <1>7. CASE \/ Release(Daemon, "syRelease", "syChildren")
             \/ Release(Daemon, "syErrorRelease", "sySave")
             \/ Release(Daemon, "syGoneRelease", "syGoneObserve")
    BY <1>7 DEF Release
  <1>8. CASE \/ Observe(Daemon, "syGoneObserve", "syGoneMark", "syGoneConfirm", "syGoneChildren")
             \/ ObserveConfirm(Daemon, "syGoneConfirm", "syGoneChildren")
             \/ SyncGoneChildren(Daemon)
    BY <1>8 DEF Observe, ObserveConfirm, SyncGoneChildren
  <1> QED BY <1>1, <1>2, <1>3, <1>4, <1>5, <1>6, <1>7, <1>8 DEF Sync

(* The steps of a reconcile, about the manifest.                           *)
LEMMA ReconcileHandles ==
  ASSUME Typed, NEW p \in Procs, Reconcile(p)
  PROVE  Handles(p)
  <1> USE DEF portable, WritePoints
  <1>1. CASE ReconcileSync(p)
    BY <1>1, FollowHandles DEF ReconcileSync
  <1>2. CASE ObserveMark(p, "rcMark", "rcMarkWrite", "rcConfirm")
    <2>1. manifest \in Manifest
      BY DEF Typed, DataTypes
    <2>2. Valid(MarkedMissing(manifest)) /\ MarkedMissing(manifest) \in Manifest
      BY <2>1, ManifestsValid, ManifestsTyped
    <2> QED BY <1>2, <2>2, RewritesHandle DEF ObserveMark
  <1>3. CASE WriteBack(p, "rcWrite", "rcCommit") \/ WriteBack(p, "rcMarkWrite", "rcConfirm")
    BY <1>3, WriteBackHandles
  <1> USE DEF Handles, Ordinary, Others, Goto, Typed, PcType, DataTypes, locals, Return, ForgetLocals
  <1>4. CASE ReconcileStart(p) \/ ReconcileRow(p) \/ ReconcileClean(p) \/ ReconcileResolve(p)
    BY <1>4 DEF ReconcileStart, ReconcileRow, ReconcileClean, ReconcileResolve
  <1>5. CASE ReconcileFound(p) \/ ReconcileCommit(p) \/ ReconcileAbort(p) \/ ReconcilePrune(p)
    BY <1>5 DEF ReconcileFound, ReconcileCommit, ReconcileAbort, ReconcilePrune
  <1>6. CASE \/ Observe(p, "rcObserve", "rcMark", "rcConfirm", "rcPrune")
             \/ ObserveConfirm(p, "rcConfirm", "rcPrune")
    BY <1>6 DEF Observe, ObserveConfirm
  <1> QED BY <1>1, <1>2, <1>3, <1>4, <1>5, <1>6 DEF Reconcile

(* The steps of a move, about the manifest.                                *)
LEMMA MoveHandles ==
  ASSUME Typed, NEW p \in Procs, Move(p)
  PROVE  Handles(p)
  <1> USE DEF portable, WritePoints
  <1>1. CASE MoveSync(p)
    <2>1. CASE Rewrites(p, "mvSync", Rehomed(manifest, dest[p]), "mvWrite", "mvRelease")
      <3>1. manifest \in Manifest /\ dest[p] \in Areas \union {NoArea}
        BY DEF Typed, DataTypes
      <3>2. /\ Valid(manifest) /\ Registered(manifest) => Valid(Rehomed(manifest, dest[p]))
            /\ Rehomed(manifest, dest[p]) \in Manifest
        BY <3>1, ManifestsValid, ManifestsTyped
      <3> QED BY <1>1, <2>1, <3>2, RewritesHandle DEF MoveSync
    <2>2. CASE \E a : FollowFile(p, "mvSync", a, "mvWrite", "mvRelease", "mvRollback")
      BY <1>1, <2>2, FollowHandles DEF MoveSync
    <2> QED BY <1>1, <2>1, <2>2 DEF MoveSync
  <1>2. CASE WriteBack(p, "mvWrite", "mvRelease")
    BY <1>2, WriteBackHandles
  <1> USE DEF Handles, Ordinary, Others, Goto, Typed, PcType, DataTypes, locals, Return, ForgetLocals
  <1>3. CASE MoveStart(p) \/ Acquire(p, "mvAcquire", "mvRead") \/ MoveRead(p) \/ MoveFile(p)
    BY <1>3 DEF MoveStart, StartOn, Acquire, MoveRead, MoveFile
  <1>4. CASE MoveRenew(p, "mvRenew", "mvReread") \/ MoveRenew(p, "mvRenewAgain", "mvSync")
    BY <1>4 DEF MoveRenew
  <1>5. CASE MoveReread(p) \/ MoveRollback(p) \/ MoveRelease(p)
    BY <1>5 DEF MoveReread, MoveRollback, MoveRelease
  <1> QED BY <1>1, <1>2, <1>3, <1>4, <1>5 DEF Move

(* The steps of the other commands, about the manifest.                    *)
LEMMA ClientHandles ==
  ASSUME Typed, NEW p \in Clients, ClientStep(p)
  PROVE  Handles(p)
  <1> USE Tokens DEF portable, WritePoints
  <1>1. CASE Move(p)
    BY <1>1, MoveHandles
  <1>2. CASE FinalizeRestore(p)
    BY <1>2, FollowHandles DEF FinalizeRestore
  <1>3. CASE UpdateRead(p)
    <2>1. CASE Rewrites(p, "upRead", manifest, "upWrite", "upSave")
      <3>1. manifest \in Manifest
        BY DEF Typed, DataTypes
      <3> QED BY <1>3, <2>1, <3>1, RewritesHandle DEF UpdateRead
    <2>2. CASE Goto(p, "upRead", "upSave") /\ UNCHANGED snap
      BY <1>3, <2>2 DEF UpdateRead, Goto, Handles, Ordinary, Others, Typed, PcType
    <2> QED BY <1>3, <2>1, <2>2 DEF UpdateRead
  <1>4. CASE WriteBack(p, "fiWrite", "fiRestoreRow") \/ WriteBack(p, "upWrite", "upSave")
    BY <1>4, WriteBackHandles
  <1>5. CASE AddManifest(p)
    BY <1>5 DEF AddManifest, locals, Goto, Typed, PcType, Handles, Registers, Others
  <1>6. CASE DropManifest(p)
    BY <1>6 DEF DropManifest, locals, Goto, Typed, PcType, Handles, Unregisters, Others
  <1> USE DEF Handles, Ordinary, Others, Goto, Typed, PcType, DataTypes, locals, Return, ForgetLocals
  <1>7. CASE Remove(p)
    BY <1>7 DEF Remove, RemoveStart, StartOn, Acquire, RemoveFiles, RemoveFails
  <1>8. CASE DropPolling(p) \/ DropRow(p, "deRow", "deChild") \/ DropChild(p) \/ DeregisterRelease(p)
    BY <1>8 DEF DropPolling, DropRow, DropChild, DeregisterRelease
  <1>9. CASE FinalizeStart(p) \/ Acquire(p, "fiAcquire", "fiCheck") \/ FinalizeCheck(p)
    BY <1>9 DEF FinalizeStart, StartOn, Acquire, FinalizeCheck
  <1>10. CASE \/ FinalizeRecheck(p)
              \/ DropRow(p, "fiRestoreRow", "fiRestorePolling")
              \/ FinalizeRestorePolling(p)
              \/ DropRow(p, "fiDrop", "deRelease")
    BY <1>10 DEF FinalizeRecheck, DropRow, FinalizeRestorePolling
  <1>11. CASE AddStart(p) \/ AddPolling(p) \/ AddChild(p)
    BY <1>11 DEF AddStart, AddPolling, AddChild
  <1>12. CASE UpdateStart(p) \/ UpdateSave(p) \/ RequestStart(p) \/ RequestSave(p)
    BY <1>12 DEF UpdateStart, StartOn, UpdateSave, RequestStart, RequestSave
  <1> QED BY <1>1, <1>2, <1>3, <1>4, <1>5, <1>6, <1>7, <1>8, <1>9, <1>10, <1>11, <1>12
     DEF ClientStep, Deregister, Finalize, Unleased, Add, Update

(* The steps of a folder move, about the manifest.                         *)
LEMMA FolderMoveHandles ==
  ASSUME Typed, ApplyFolderMove
  PROVE  Handles(Daemon)
  <1> USE Tokens DEF portable, WritePoints, Others, Goto, Typed, PcType, DataTypes, Return, ForgetLocals
  <1>1. CASE FolderMoveStart
    BY <1>1 DEF FolderMoveStart, Handles, Ordinary
  <1>2. CASE FolderMoveRead
    <2>1. CASE Under(spot[Daemon]) /\ ~LeaseActive(rt)
      <3>1. snap'[Daemon] = Rehomed(manifest, dest[Daemon]) /\ Others(Daemon) /\ manifest' = manifest
        BY <1>2, <2>1 DEF FolderMoveRead
      <3>2. manifest \in Manifest /\ dest[Daemon] \in Areas \union {NoArea} /\ Registered(manifest)
        BY <2>1 DEF Under
      <3>3. Valid(manifest) => Valid(Rehomed(manifest, dest[Daemon]))
        BY <3>2, ManifestsValid
      <3> QED BY <3>1, <3>2, <3>3 DEF Handles, Prepares
    <2>2. CASE ~Under(spot[Daemon]) \/ LeaseActive(rt)
      BY <1>2, <2>2 DEF FolderMoveRead, Handles, Ordinary
    <2> QED BY <2>1, <2>2
  <1>3. CASE FolderMoveWrite
    BY <1>3 DEF FolderMoveWrite, Handles, Writes
  <1> QED BY <1>1, <1>2, <1>3 DEF ApplyFolderMove

(* Every step handles the manifest in one of these ways, or touches        *)
(* neither it nor a process.                                               *)
LEMMA StepHandles ==
  ASSUME Typed, Next
  PROVE  UNCHANGED <<manifest, pc, snap>> \/ \E p \in Procs : Handles(p)
  <1>1. CASE Sync \/ ApplyFolderMove
    BY <1>1, SyncHandles, FolderMoveHandles, Tokens
  <1>2. ASSUME NEW p \in Procs, Reconcile(p)
        PROVE  Handles(p)
    BY <1>2, ReconcileHandles
  <1>3. ASSUME NEW p \in Clients, ClientStep(p)
        PROVE  p \in Procs /\ Handles(p)
    BY <1>3, ClientHandles, Tokens
  <1>4. ASSUME NEW p \in Procs, Crash(p)
        PROVE  Handles(p)
    BY <1>4 DEF Crash, ForgetLocals, portable, WritePoints, Handles, Ordinary, Others, Typed, PcType,
       DataTypes
  <1>5. CASE UserTouchesFiles \/ UserRenamesFolder \/ Expire
    BY <1>5 DEF UserTouchesFiles, UserRenamesFolder, Expire, portable, locals
  <1> QED BY <1>1, <1>2, <1>3, <1>4, <1>5 DEF Next, World

(* Every step keeps the manifests valid.                                   *)
LEMMA ValidStep ==
  ASSUME Typed, ManifestsStayValid, Next
  PROVE  ManifestsStayValid'
  <1>1. CASE UNCHANGED <<manifest, pc, snap>>
    BY <1>1 DEF ManifestsStayValid, ManifestStaysValid, Valid
  <1>2. ASSUME NEW p \in Procs, Handles(p)
        PROVE  ManifestsStayValid'
    <2> USE DEF ManifestsStayValid, ManifestStaysValid, Others
    <2>1. CASE Ordinary(p) \/ Prepares(p)
      BY <2>1 DEF Ordinary, Prepares, Valid
    <2>2. CASE Writes(p)
      BY <2>2 DEF Writes, Valid
    <2>3. CASE Registers(p)
      BY <2>3 DEF Registers, Valid, NewManifest, WritePoints
    <2>4. CASE Unregisters(p)
      BY <2>4 DEF Unregisters, Valid, NoManifest, WritePoints
    <2> QED BY <1>2, <2>1, <2>2, <2>3, <2>4 DEF Handles
  <1> QED BY <1>1, <1>2, StepHandles

-----------------------------------------------------------------------------

(* A fresh brain, or an attached one, coordinates nothing and is valid.    *)
LEMMA InvInit == Init => IInv
  <1> SUFFICES ASSUME Init
               PROVE  IInv
    OBVIOUS
  <1>1. Typed
    BY TypedInit
  <1>2. Coordination
    BY Tokens DEF Init, Coordination, NoLeakedLease, FenceMatchesSection, CommitUnderLease,
       SoftSectionsUnleased, NoRow, FencedPoints, SoftPoints
  <1>3. ManifestsStayValid
    BY DEF Init, ManifestsStayValid, ManifestStaysValid, Valid, NoManifest, WritePoints
  <1> QED BY <1>1, <1>2, <1>3 DEF IInv

(* The invariant is inductive.                                             *)
LEMMA InvStep == IInv /\ [Next]_vars => IInv'
  <1>1. ASSUME IInv, Next
        PROVE  IInv'
    <2>1. Typed'
      BY <1>1, TypedStep DEF IInv
    <2>2. Coordination'
      BY <1>1, CoordinationStep DEF IInv, Typed
    <2>3. ManifestsStayValid'
      BY <1>1, ValidStep DEF IInv
    <2> QED BY <2>1, <2>2, <2>3 DEF IInv
  <1>2. ASSUME IInv, UNCHANGED vars
        PROVE  IInv'
    <2>1. Typed'
      BY <1>2, TypedStep DEF IInv
    <2>2. Coordination' /\ ManifestsStayValid'
      BY <1>2 DEF IInv, Coordination, NoLeakedLease, FenceMatchesSection, CommitUnderLease,
         SoftSectionsUnleased, LeaseActive, ManifestsStayValid, ManifestStaysValid, Valid, vars,
         portable, runtime, locals
    <2> QED BY <2>1, <2>2 DEF IInv
  <1> QED BY <1>1, <1>2

(* The inductive invariant holds in every reachable state.                 *)
THEOREM Invariant == Spec => []IInv
  BY InvInit, InvStep, PTL DEF Spec

(* Every way out of an operation gives its lease back: only at a leased    *)
(* point does a live process own it.                                       *)
THEOREM LeasesAreReturned == Spec => []NoLeakedLease
  <1>1. IInv => NoLeakedLease
    BY DEF IInv, Coordination
  <1> QED BY <1>1, Invariant, PTL

(* The process inside a commit section, and nobody else, holds the fence:  *)
(* BEGIN IMMEDIATE sections exclude each other on every path.              *)
THEOREM SectionsExclude == Spec => []FenceMatchesSection
  <1>1. IInv => FenceMatchesSection
    BY DEF IInv, Coordination
  <1> QED BY <1>1, Invariant, PTL

(* A poll writes file and manifest only as the owner of the lease,         *)
(* although its lease may expire during the fetch and be taken over.       *)
THEOREM CommitsAreOwned == Spec => []CommitUnderLease
  <1>1. IInv => CommitUnderLease
    BY DEF IInv, Coordination
  <1> QED BY <1>1, Invariant, PTL

(* The manifest on disk is always one that the serializer accepts.         *)
THEOREM ManifestAlwaysValid == Spec => []ManifestStaysValid
  <1>1. IInv => ManifestStaysValid
    BY DEF IInv, ManifestsStayValid
  <1> QED BY <1>1, Invariant, PTL

-----------------------------------------------------------------------------

(* Once a source has no manifest and nobody holds one to write back, only  *)
(* the manifest write of an add registers it again: every other writer     *)
(* reads the manifest first and gives up without it.                       *)
THEOREM RemovedStaysRemoved == Spec => NoResurrection
  <1>1. ASSUME Typed, Next, Gone, ~Gone'
        PROVE  \E p \in Clients : pc[p] = "adManifest"
    <2>1. \A p \in Procs : pc[p] \notin WritePoints
      BY <1>1 DEF Gone
    <2>2. PICK p \in Procs : Handles(p)
      BY <1>1, StepHandles DEF Gone, Registered
    <2>3. ~Prepares(p) /\ ~Writes(p)
      BY <1>1, <2>1 DEF Gone, Prepares, Writes
    <2>4. ~Ordinary(p)
      BY <1>1, <2>1 DEF Gone, Registered, Ordinary, Others
    <2>5. ~Unregisters(p)
      BY <1>1, <2>1 DEF Gone, Registered, NoManifest, Unregisters, Others, WritePoints
    <2> QED BY <2>2, <2>3, <2>4, <2>5 DEF Handles, Registers
  <1>2. Typed /\ [Next]_vars => [Gone /\ ~Gone' => \E p \in Clients : pc[p] = "adManifest"]_vars
    BY <1>1
  <1> QED BY <1>2, TypedInit, TypedStep, PTL DEF Spec, NoResurrection

(* While a lease is active, the manifest is written only by a step of a    *)
(* leased operation, by an add or by an update: the watcher, reconcile and *)
(* remote-missing paths give way, and nobody takes a lease while they are  *)
(* inside the fence.                                                       *)
THEOREM SoftPathsGiveWay == Spec => SoftPathsRespectLease
  <1>1. ASSUME IInv, Next, manifest' # manifest, LeaseActive(rt)
        PROVE  \E p \in Procs : pc[p] \in LeasedPoints \union {"adManifest", "upWrite"} /\ pc'[p] # pc[p]
    <2>1. PICK p \in Procs : Handles(p)
      BY <1>1, StepHandles DEF IInv
    <2>2. CASE Writes(p)
      <3>1. pc[p] \in WritePoints \ SoftPoints
        BY <1>1, <2>2 DEF Writes, IInv, Coordination, SoftSectionsUnleased
      <3> QED BY <2>2, <3>1 DEF Writes, WritePoints, SoftPoints, LeasedPoints
    <2>3. CASE Registers(p) \/ Unregisters(p)
      BY <2>3 DEF Registers, Unregisters, LeasedPoints
    <2> QED BY <1>1, <2>1, <2>2, <2>3 DEF Handles, Ordinary, Prepares
  <1>2. IInv /\ [Next]_vars
          => [manifest' # manifest /\ LeaseActive(rt)
                => \E p \in Procs : /\ pc[p] \in LeasedPoints \union {"adManifest", "upWrite"}
                                    /\ pc'[p] # pc[p]]_vars
    BY <1>1
  <1> QED BY <1>2, InvInit, InvStep, PTL DEF Spec, SoftPathsRespectLease

-----------------------------------------------------------------------------
(* The files before and after.                                             *)

(* One file for another, as a move and its rollback do it.                 *)
Swapped == \E a \in files, b \in Areas \ files : files' = (files \ {a}) \union {b}

(* A step is forgiven for the files it takes.                              *)
Forgiven == eventsLeft' < eventsLeft \/ \E p \in Clients : pc[p] = "rmFiles"

(* An event is counted.                                                    *)
LEMMA EventCounts == ASSUME DataTypes, Event PROVE Forgiven
  BY BoundsAssumption DEF DataTypes, Event, Forgiven

(* A move puts its file where none is, its rollback puts it back where     *)
(* none is by then, and a poll only adds a file: a removal, the user and   *)
(* the faults apart, no other step writes files.                           *)
LEMMA FileWriters ==
  ASSUME Typed, Next
  PROVE  files \subseteq files' \/ Swapped \/ Forgiven
  <1> USE DEF portable
  <1>1. CASE Sync
    <2>1. CASE SyncWriteFails(Daemon)
      BY <2>1, EventCounts DEF SyncWriteFails, Typed
    <2>2. CASE SyncWrite(Daemon)
      BY <2>2 DEF SyncWrite, FilesBecome
    <2>3. CASE ~SyncWriteFails(Daemon) /\ ~SyncWrite(Daemon)
      <3>1. files' = files
        BY <1>1, <2>3 DEF Sync, SyncStart, Acquire, SyncReload, SyncFetch, SyncConflict, SyncManifest,
           SyncSettle, Release, SyncChildren, SyncSave, Observe, ObserveMark, ObserveConfirm,
           SyncGoneChildren, WriteBack
      <3> QED BY <3>1
    <2> QED BY <2>1, <2>2, <2>3
  <1>2. ASSUME NEW p \in Procs, Reconcile(p)
        PROVE  files' = files
    BY <1>2 DEF Reconcile, ReconcileStart, ReconcileRow, ReconcileClean, ReconcileResolve, ReconcileFound,
       ReconcileSync, ReconcileCommit, Observe, ObserveMark, ObserveConfirm, ReconcileAbort, ReconcilePrune,
       WriteBack
  <1>3. ASSUME NEW p \in Clients, ClientStep(p)
        PROVE  files' = files \/ Swapped \/ Forgiven
    <2>1. CASE Remove(p)
      <3>1. CASE RemoveFiles(p)
        BY <3>1 DEF RemoveFiles, Goto, Forgiven
      <3>2. CASE RemoveFails(p)
        BY <3>2, EventCounts DEF RemoveFails, Typed
      <3>3. CASE RemoveStart(p) \/ Acquire(p, "rmAcquire", "rmFiles")
        BY <3>3 DEF RemoveStart, StartOn, Acquire
      <3> QED BY <2>1, <3>1, <3>2, <3>3 DEF Remove
    <2>2. CASE Deregister(p)
      BY <2>2 DEF Deregister, DropPolling, DropRow, DropChild, DropManifest, DeregisterRelease
    <2>3. CASE Finalize(p)
      BY <2>3 DEF Finalize, FinalizeStart, StartOn, Acquire, FinalizeCheck, FinalizeRecheck,
         FinalizeRestore, DropRow, FinalizeRestorePolling, WriteBack
    <2>4. CASE Move(p)
      <3>1. CASE MoveFile(p)
        <4>1. CASE Movable(p)
          <5>1. dest[p] \in Areas
            BY <3>1, <4>1, Tokens DEF MoveFile, Goto, Typed, Placed
          <5>2. files' = (files \ {spot[p]}) \union {dest[p]}
            BY <3>1, <4>1 DEF MoveFile, FilesBecome
          <5> QED BY <4>1, <5>1, <5>2 DEF Movable, Swapped
        <4>2. CASE ~Movable(p)
          BY <3>1, <4>2 DEF MoveFile
        <4> QED BY <4>1, <4>2
      <3>2. CASE MoveRollback(p)
        <4>1. CASE flag[p] /\ dest[p] \in files /\ spot[p] \notin files
          <5>1. spot[p] \in Areas
            BY <3>2, <4>1, Tokens DEF MoveRollback, Goto, Typed, Placed
          <5>2. files' = (files \ {dest[p]}) \union {spot[p]}
            BY <3>2, <4>1 DEF MoveRollback, FilesBecome
          <5> QED BY <4>1, <5>1, <5>2 DEF Swapped
        <4>2. CASE ~(flag[p] /\ dest[p] \in files /\ spot[p] \notin files)
          BY <3>2, <4>2 DEF MoveRollback
        <4> QED BY <4>1, <4>2
      <3>3. CASE ~MoveFile(p) /\ ~MoveRollback(p)
        BY <2>4, <3>3 DEF Move, MoveStart, StartOn, Acquire, MoveRead, MoveRenew, MoveReread, MoveSync,
           MoveRelease, WriteBack
      <3> QED BY <3>1, <3>2, <3>3
    <2>5. CASE Unleased(p)
      BY <2>5 DEF Unleased, Add, AddStart, AddManifest, AddPolling, AddChild, Update, UpdateStart,
         StartOn, UpdateRead, UpdateSave, RequestStart, RequestSave, WriteBack
    <2> QED BY <1>3, <2>1, <2>2, <2>3, <2>4, <2>5 DEF ClientStep
  <1>4. CASE ApplyFolderMove
    BY <1>4 DEF ApplyFolderMove, FolderMoveStart, FolderMoveRead, FolderMoveWrite
  <1>5. CASE World
    <2>1. CASE UserTouchesFiles \/ UserRenamesFolder \/ \E p \in Procs : Crash(p)
      <3>1. Event
        BY <2>1 DEF UserTouchesFiles, UserDeletes, UserRestores, UserMoves, UserRenamesFolder, Crash
      <3> QED BY <3>1, EventCounts DEF Typed
    <2>2. CASE Expire
      BY <2>2 DEF Expire
    <2> QED BY <1>5, <2>1, <2>2 DEF World
  <1> QED BY <1>1, <1>2, <1>3, <1>4, <1>5 DEF Next

(* One file for another is as many files.                                  *)
LEMMA SwappingKeepsCount ==
  ASSUME NEW S, IsFiniteSet(S), NEW a \in S, NEW b, b \notin S
  PROVE  Cardinality((S \ {a}) \union {b}) = Cardinality(S)
  <1>1. IsFiniteSet(S \ {a}) /\ Cardinality(S \ {a}) = Cardinality(S) - 1
    BY FS_RemoveElement
  <1>2. Cardinality((S \ {a}) \union {b}) = Cardinality(S \ {a}) + 1
    BY <1>1, FS_AddElement
  <1>3. Cardinality(S) \in Nat
    BY FS_CardinalityType
  <1> QED BY <1>1, <1>2, <1>3

(* No step loses a copy of the source file, unless the user, a fault or a  *)
(* remove takes it: a move and its rollback never overwrite one file with  *)
(* another, whatever the other processes did in between.                   *)
THEOREM FilesAreKept == Spec => NoFileLost
  <1>1. ASSUME Typed, Next, Cardinality(files') < Cardinality(files)
        PROVE  Forgiven
    <2>1. files \subseteq Areas /\ files' \subseteq Areas
      <3>1. Typed'
        BY <1>1, TypedStep
      <3> QED BY <1>1, <3>1 DEF Typed, DataTypes
    <2>2. IsFiniteSet(files) /\ IsFiniteSet(files')
      BY <2>1, AreasAssumption, FS_Subset
    <2>3. Cardinality(files) \in Nat /\ Cardinality(files') \in Nat
      BY <2>2, FS_CardinalityType
    <2>4. ~ files \subseteq files'
      <3>1. ASSUME files \subseteq files'
            PROVE  Cardinality(files) <= Cardinality(files')
        BY <2>2, <3>1, FS_Subset
      <3> QED BY <1>1, <2>3, <3>1
    <2>5. ~Swapped
      <3>1. ASSUME Swapped
            PROVE  Cardinality(files') = Cardinality(files)
        BY <2>2, <3>1, SwappingKeepsCount DEF Swapped
      <3> QED BY <1>1, <2>3, <3>1
    <2> QED BY <1>1, <2>4, <2>5, FileWriters
  <1>2. Typed /\ [Next]_vars
          => [Cardinality(files') < Cardinality(files)
                => eventsLeft' < eventsLeft \/ \E p \in Clients : pc[p] = "rmFiles"]_vars
    BY <1>1 DEF Forgiven
  <1> QED BY <1>2, TypedInit, TypedStep, PTL DEF Spec, NoFileLost

=============================================================================

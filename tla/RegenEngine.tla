---------------------------- MODULE RegenEngine ----------------------------
(***************************************************************************)
(* The regeneration of one area by several sessions at a time: the daemon, *)
(* and `brain-sync regen` or an MCP client (regen/engine.py,               *)
(* regen/lifecycle.py, application/regen.py, application/doctor.py).       *)
(*                                                                         *)
(* A session evaluates the area, claims its row, asks the model, writes    *)
(* the summary, then the sidecar, then the journal, and gives the row      *)
(* back; each of these is a step, with everybody else in between.  The     *)
(* text of a summary is known by the content of the area it was made from. *)
(* Files change, the model fails, writes fail, sessions die, and work may  *)
(* take longer than the others wait.                                       *)
(***************************************************************************)
EXTENDS RegenRow, Naturals

CONSTANTS
  Kinds,        \* what the sessions may be for
  First,        \* what the area is at first
  Contents,     \* versions of the files of the area and its children's summaries
  Names,        \* versions of the names its structure hash is made from
  Nothing,      \* no content, no names recorded, no summary
  MaxEvents     \* bound: edits, failures, deaths, late work, doctor

ASSUME KindsAssumption == Kinds \subseteq [Sessions -> {"daemon", "path", "all"}]
ASSUME FirstAssumption == First \in [content : Contents, names : Names]
ASSUME EventsAssumption == MaxEvents \in Nat
ASSUME NothingAssumption ==
  /\ Nothing \notin Contents \union Names
  /\ {"missing", "empty"} \intersect (Contents \union {Nothing}) = {}

VARIABLES
  input,        \* the area on disk
  meta,         \* its insight-state.json: the hashes of the area it was written for
  summary,      \* summary.md: the content it speaks for
  excuse,       \* history: why the sidecar was written for another content
  row,          \* the area's row of regen_locks
  ousted,       \* history: sessions whose row was taken away while they worked
  overwritten,  \* history: the row says how the work of somebody else ended
  at,           \* where each session is
  kind,         \* what for: the daemon, one path, or all paths
  mind,         \* its local variables
  eventsLeft

area == <<input, meta, summary, excuse>>
lock == <<row, ousted, overwritten>>
local == <<at, kind, mind>>
vars == <<area, lock, local, eventsLeft>>

Inputs == [content : Contents \union {"missing", "empty"}, names : Names]
Metas == [content : Contents \union {Nothing}, names : Names \union {Nothing}]
NoMeta == [content |-> Nothing, names |-> Nothing]
Texts == Contents \union {"missing", "empty", Nothing}

Claimed == {"evaluate", "cleanup", "clean", "unlock", "plan", "claim"}
Working == {"persist", "release", "mark", "invoke", "summary", "sidecar", "journal"}
Ending == {"terminal", "look", "save", "giveup", "saveLast", "releaseLast"}
Places == {"new", "reclaim", "reset", "idle", "acquire"} \union Claimed \union Working \union Ending
            \union {"bfLoad", "bfWrite", "bfSave", "orphans", "leave", "over", "dead"}

Outcomes == {"none", "missing_path", "no_content", "metadata_backfill", "unchanged",
             "structure_only", "content_changed", "skipped_similarity"}
Excuses == {"none", "commit", "reread", "ousted", "late", "died", "restore", "backfill",
            "removed", "adopted", "unexplained"}

(* outcome: what it found the area to be, or does to it; saw: the area it  *)
(* evaluated; made: the content its prompt was made from; old: the summary *)
(* it compares with, or restores; status: what it is going to say in the   *)
(* row; found: the row it read.                                            *)
Minds == [outcome : Outcomes, saw : Inputs \union {NoMeta}, made : Texts, old : Texts,
          status : {"idle", "failed"}, found : Rows]

Blank == [outcome |-> "none", saw |-> NoMeta, made |-> Nothing, old |-> Nothing,
          status |-> "idle", found |-> NoRow]

(* TypeOK: the records and program points are what they are meant to be.   *)
TypeOK ==
  /\ input \in Inputs
  /\ meta \in Metas
  /\ summary \in Texts
  /\ excuse \in Excuses
  /\ row \in Rows
  /\ ousted \subseteq Sessions
  /\ overwritten \in BOOLEAN
  /\ at \in [Sessions -> Places]
  /\ kind \in [Sessions -> {"daemon", "path", "all"}]
  /\ mind \in [Sessions -> Minds]
  /\ eventsLeft \in 0 .. MaxEvents

(* A fresh area, or one with the sidecar of an earlier format.             *)
Init ==
  /\ input = First
  /\ meta \in {NoMeta, [content |-> input.content, names |-> Nothing]}
  /\ summary = meta.content
  /\ excuse = "none"
  /\ row = NoRow
  /\ ousted = {}
  /\ overwritten = FALSE
  /\ at = [s \in Sessions |-> "new"]
  /\ kind \in Kinds
  /\ mind = [s \in Sessions |-> Blank]
  /\ eventsLeft = MaxEvents

Alive(s) == at[s] \notin {"new", "over", "dead"}

Goto(s, there) == at' = [at EXCEPT ![s] = there] /\ UNCHANGED kind

Keeps(s, thoughts) == mind' = [mind EXCEPT ![s] = thoughts]

SaysFailed(s) == Keeps(s, [Blank EXCEPT !.status = "failed"])

Event == eventsLeft > 0 /\ eventsLeft' = eventsLeft - 1

-----------------------------------------------------------------------------
(* The history of the sidecar.                                             *)

Differs == meta.content # Nothing /\ summary # meta.content

Excused(why) ==
  excuse' = IF ~Differs' THEN "none" ELSE IF Differs /\ excuse # "commit" THEN excuse ELSE why

-----------------------------------------------------------------------------
(* The row.                                                                *)

(* Only an overdue owner can lose the row to another one.                  *)
Claims(s) ==
  /\ row' = Acquired(s)
  /\ ousted' = (ousted \ {s}) \union (IF IsStale(row) THEN {row.owner} \ {s} ELSE {})
  /\ overwritten' = FALSE

(* The row is deleted, or given up, whoever its owner is.                  *)
Vacated(new, s) ==
  /\ row' = new
  /\ ousted' = ousted \union ({row.owner} \ {Nobody, s})
  /\ overwritten' = FALSE

GivesBack(new) == row' = new /\ overwritten' = FALSE /\ UNCHANGED ousted

(* A lifecycle write without an owner, on a row that may by now have one.  *)
SavesUnowned(s) ==
  /\ row' = Saved(row, Row(mind[s].status, Nobody))
  /\ overwritten' = (overwritten \/ row.owner # Nobody)
  /\ UNCHANGED ousted

(* regen_single_folder returns.                                            *)
Finished(s) ==
  /\ Goto(s, CASE kind[s] = "daemon" -> "idle" [] kind[s] = "path" -> "leave" [] OTHER -> "orphans")
  /\ Keeps(s, Blank)

(* It raises: the queue puts the folder back, or gives it up.              *)
Failed(s) ==
  \/ Finished(s)
  \/ kind[s] = "daemon" /\ Goto(s, "giveup") /\ Keeps(s, Blank)

-----------------------------------------------------------------------------
(* A session.                                                              *)

(* One daemon at a time; a path is regenerated without a look at old rows. *)
Start(s) ==
  /\ at[s] = "new"
  /\ kind[s] = "daemon" => ~\E t \in Sessions : kind[t] = "daemon" /\ Alive(t)
  /\ Goto(s, IF kind[s] = "path" THEN "evaluate" ELSE "reclaim")
  /\ UNCHANGED <<area, lock, mind, eventsLeft>>

Begin(s) == IF kind[s] = "daemon" THEN "idle" ELSE "evaluate"

(* It looks for stale rows, and resets those it found.                     *)
Reclaim(s) ==
  /\ at[s] = "reclaim"
  /\ Goto(s, IF IsStale(row) THEN "reset" ELSE Begin(s))
  /\ UNCHANGED <<area, lock, mind, eventsLeft>>

Reset(s) ==
  /\ at[s] = "reset"
  /\ Vacated(Reclaimed(row), s)
  /\ Goto(s, Begin(s))
  /\ UNCHANGED <<area, mind, eventsLeft>>

(* The queue has the area among its ready folders.                         *)
Take(s) ==
  /\ at[s] = "idle"
  /\ Goto(s, "acquire")
  /\ UNCHANGED <<area, lock, mind, eventsLeft>>

(* The queue acquires the row before it lets the engine look at the area.  *)
AcquireFirst(s) ==
  /\ at[s] = "acquire"
  /\ IF MayAcquire(row, s) THEN Claims(s) /\ Goto(s, "evaluate")
     ELSE Goto(s, "idle") /\ UNCHANGED lock
  /\ UNCHANGED <<area, mind, eventsLeft>>

(* evaluate_folder_state.                                                  *)
Evaluation ==
  CASE input.content = "missing" -> "missing_path"
    [] input.content = "empty" -> "no_content"
    [] input.content \in Contents /\ meta.content = Nothing -> "content_changed"
    [] input.content \in Contents /\ meta.content # Nothing /\ meta.names = Nothing
         /\ summary # Nothing -> "metadata_backfill"
    [] OTHER -> IF input.content # meta.content THEN "content_changed"
                ELSE IF input.names # meta.names THEN "structure_only" ELSE "unchanged"

Evaluated == [Blank EXCEPT !.outcome = Evaluation, !.saw = input]

Evaluate(s) ==
  /\ at[s] = "evaluate"
  /\ Goto(s, CASE Evaluation \in {"missing_path", "no_content"} -> "cleanup"
               [] Evaluation = "content_changed" -> "plan"
               [] OTHER -> "claim")
  /\ Keeps(s, Evaluated)
  /\ UNCHANGED <<area, lock, eventsLeft>>

(* Files that cannot be read or removed: the queue's session keeps the row.*)
Raise(s) ==
  /\ at[s] \in {"evaluate", "clean"} /\ Event
  /\ Failed(s)
  /\ UNCHANGED <<area, lock>>

(* There is nothing to regenerate: the sidecar goes, if it can be removed, *)
(* then the summary and a sidecar that is there again, then the row,       *)
(* whoever has it.                                                         *)
Cleanup(s) ==
  /\ at[s] = "cleanup"
  /\ \/ meta' = NoMeta /\ UNCHANGED eventsLeft
     \/ meta' = meta /\ Event
  /\ Goto(s, "clean")
  /\ UNCHANGED <<input, summary, lock, mind>>
  /\ Excused("removed")

Clean(s) ==
  /\ at[s] = "clean"
  /\ summary' = Nothing /\ meta' = NoMeta
  /\ Goto(s, "unlock")
  /\ UNCHANGED <<input, lock, mind, eventsLeft>>
  /\ Excused("removed")

Unlock(s) ==
  /\ at[s] = "unlock"
  /\ Vacated(NoRow, s)
  /\ Finished(s)
  /\ UNCHANGED <<area, eventsLeft>>

(* _claim_regen_ownership_or_raise, with what was evaluated before it.     *)
Claim(s) ==
  /\ at[s] = "claim"
  /\ IF MayAcquire(row, s)
     THEN /\ Claims(s)
          /\ Goto(s, IF mind[s].outcome = "content_changed" THEN "mark" ELSE "persist")
          /\ UNCHANGED mind
     ELSE Failed(s) /\ UNCHANGED lock
  /\ UNCHANGED <<area, eventsLeft>>

(* A write puts a folder back that is gone, without its files.             *)
Revived == IF input.content = "missing" THEN [input EXCEPT !.content = "empty"] ELSE input

(* A session that was ousted may write on, and what it writes gets mixed   *)
(* with what its successor writes.                                         *)
Because(why) == IF ousted # {} THEN "ousted" ELSE why

(* unchanged, structure only, or a sidecar to complete: the sidecar is     *)
(* written for what was evaluated.                                         *)
Persist(s) ==
  /\ at[s] = "persist"
  /\ meta' = mind[s].saw
  /\ input' = Revived
  /\ Goto(s, "release")
  /\ UNCHANGED <<summary, lock, mind, eventsLeft>>
  /\ Excused(IF mind[s].outcome = "metadata_backfill" THEN "backfill" ELSE Because("late"))

Release(s) ==
  /\ at[s] = "release"
  /\ IF MayRelease(row, s) THEN GivesBack(Released("idle")) /\ Finished(s)
     ELSE Goto(s, "terminal") /\ SaysFailed(s) /\ UNCHANGED lock
  /\ UNCHANGED <<area, eventsLeft>>

(* The prompt is made from the files as they are by now.                   *)
Plan(s) ==
  /\ at[s] = "plan" /\ input.content # "missing"
  /\ Goto(s, "claim")
  /\ Keeps(s, [mind[s] EXCEPT !.made = input.content, !.old = summary])
  /\ UNCHANGED <<area, lock, eventsLeft>>

(* Keep the old hashes, so that crashes and failures don't block retries.  *)
Mark(s) ==
  /\ at[s] = "mark"
  /\ IF MaySave(row, s)
     THEN GivesBack(Saved(row, Row("running", s))) /\ Goto(s, "invoke") /\ UNCHANGED mind
     ELSE Failed(s) /\ UNCHANGED lock
  /\ UNCHANGED <<area, eventsLeft>>

(* The answer of the model, all chunks of it: a new summary, or one so     *)
(* similar to the old that it is dropped.                                  *)
Invoke(s) ==
  /\ at[s] = "invoke"
  /\ \/ Goto(s, "summary") /\ UNCHANGED mind
     \/ /\ mind[s].old # Nothing
        /\ Goto(s, "sidecar")
        /\ Keeps(s, [mind[s] EXCEPT !.outcome = "skipped_similarity"])
  /\ UNCHANGED <<area, lock, eventsLeft>>

WriteSummary(s) ==
  /\ at[s] = "summary"
  /\ summary' = mind[s].made
  /\ input' = Revived
  /\ Goto(s, "sidecar")
  /\ Keeps(s, [mind[s] EXCEPT !.old = summary])
  /\ UNCHANGED <<meta, lock, eventsLeft>>
  /\ Excused("commit")

KeepsSummary(s) == mind[s].outcome = "skipped_similarity"

(* A summary that was kept speaks for the new content from now on.         *)
WriteSidecar(s) ==
  /\ at[s] = "sidecar"
  /\ meta' = mind[s].saw
  /\ summary' = IF KeepsSummary(s) /\ summary = mind[s].old THEN mind[s].made ELSE summary
  /\ input' = Revived
  /\ Goto(s, "journal")
  /\ Keeps(s, Blank)
  /\ UNCHANGED <<lock, eventsLeft>>
  /\ Excused(CASE mind[s].made # mind[s].saw.content -> "reread"
               [] summary = Nothing -> "removed"
               [] KeepsSummary(s) /\ summary # mind[s].old -> Because("late")
               [] OTHER -> Because("unexplained"))

(* The previous summary is put back, if that can be written.               *)
SidecarFails(s) ==
  /\ at[s] = "sidecar" /\ Event
  /\ summary' \in {summary} \union (IF KeepsSummary(s) THEN {} ELSE {mind[s].old})
  /\ Goto(s, "terminal")
  /\ SaysFailed(s)
  /\ UNCHANGED <<input, meta, lock>>
  /\ Excused(Because("restore"))

Journal(s) ==
  /\ at[s] = "journal"
  /\ Goto(s, "terminal")
  /\ UNCHANGED <<area, lock, mind, eventsLeft>>

(* Planning, the model, and each of the writes may fail.                   *)
Fail(s) ==
  /\ \/ at[s] \in {"plan", "invoke", "persist", "summary", "journal"} /\ Event
     \/ at[s] = "plan" /\ input.content = "missing" /\ UNCHANGED eventsLeft
  /\ Goto(s, "terminal")
  /\ SaysFailed(s)
  /\ UNCHANGED <<area, lock>>

-----------------------------------------------------------------------------
(* _save_terminal_regen_lock: release the row; if it was not owned, look   *)
(* at it, and write to it without an owner when it has none.               *)

Says(s) == mind[s].status

Over(s) == IF Says(s) = "idle" THEN Finished(s) ELSE Failed(s)

Terminal(s) ==
  /\ at[s] = "terminal"
  /\ IF MayRelease(row, s)
     THEN GivesBack(Released(Says(s))) /\ Over(s)
     ELSE Goto(s, "look") /\ UNCHANGED <<lock, mind>>
  /\ UNCHANGED <<area, eventsLeft>>

(* With another owner it raises: a commit then fails, and says so again.   *)
Look(s) ==
  /\ at[s] = "look"
  /\ IF row.owner = Nobody THEN Goto(s, "save") /\ UNCHANGED mind
     ELSE IF Says(s) = "idle" THEN Goto(s, "terminal") /\ SaysFailed(s)
     ELSE Failed(s)
  /\ UNCHANGED <<area, lock, eventsLeft>>

Save(s) ==
  /\ at[s] = "save"
  /\ SavesUnowned(s)
  /\ Over(s)
  /\ UNCHANGED <<area, eventsLeft>>

(* The queue has no retries left for the folder: it says so in the row.    *)
GiveUp(s) ==
  /\ at[s] = "giveup"
  /\ Goto(s, CASE row.owner = Nobody -> "saveLast" [] row.owner = s -> "releaseLast"
               [] OTHER -> "idle")
  /\ UNCHANGED <<area, lock, mind, eventsLeft>>

SaveLast(s) ==
  /\ at[s] = "saveLast"
  /\ row' = Saved(row, Row("failed", Nobody))
  /\ overwritten' = (overwritten \/ row.owner # Nobody)
  /\ Goto(s, "idle")
  /\ UNCHANGED <<area, ousted, mind, eventsLeft>>

ReleaseLast(s) ==
  /\ at[s] = "releaseLast"
  /\ IF MayRelease(row, s) THEN GivesBack(Released("failed")) ELSE UNCHANGED lock
  /\ Goto(s, "idle")
  /\ UNCHANGED <<area, mind, eventsLeft>>

-----------------------------------------------------------------------------
(* classify_folder_change, of a changed folder in the daemon: it completes *)
(* an old sidecar on its own, and owns nothing.                            *)

Classify(s) ==
  /\ at[s] = "idle" /\ kind[s] = "daemon"
  /\ Evaluation = "metadata_backfill"
  /\ Goto(s, "bfLoad")
  /\ Keeps(s, Evaluated)
  /\ UNCHANGED <<area, lock, eventsLeft>>

BackfillLoad(s) ==
  /\ at[s] = "bfLoad"
  /\ Goto(s, "bfWrite")
  /\ Keeps(s, [mind[s] EXCEPT !.found = row])
  /\ UNCHANGED <<area, lock, eventsLeft>>

BackfillWrite(s) ==
  /\ at[s] = "bfWrite"
  /\ meta' = mind[s].saw
  /\ input' = Revived
  /\ Goto(s, "bfSave")
  /\ UNCHANGED <<summary, lock, mind, eventsLeft>>
  /\ Excused("backfill")

(* It writes the row back as it found it.                                  *)
BackfillSave(s) ==
  /\ at[s] = "bfSave"
  /\ LET found == mind[s].found IN
     IF MaySave(row, found.owner)
     THEN /\ row' = Saved(row, IF found.status = "absent" THEN Row("idle", Nobody) ELSE found)
          /\ overwritten' = (overwritten \/ row # found)
          /\ UNCHANGED ousted
     ELSE UNCHANGED lock
  /\ Goto(s, "idle")
  /\ Keeps(s, Blank)
  /\ UNCHANGED <<area, eventsLeft>>

-----------------------------------------------------------------------------
(* The end of a session.                                                   *)

(* regen_all drops the state of areas that are no more.                    *)
Orphans(s) ==
  /\ at[s] = "orphans"
  /\ IF input.content = "missing" THEN Vacated(NoRow, s) ELSE UNCHANGED lock
  /\ Goto(s, "leave")
  /\ UNCHANGED <<area, mind, eventsLeft>>

(* Stopped or cancelled, where it awaits.                                  *)
Cancel(s) ==
  /\ at[s] \in {"idle", "invoke"} /\ Event
  /\ Goto(s, "leave")
  /\ Keeps(s, Blank)
  /\ UNCHANGED <<area, lock>>

Leave(s) ==
  /\ at[s] = "leave"
  /\ row' = ReleasedOnExit(row, s)
  /\ overwritten' = (overwritten /\ row' = row)
  /\ Goto(s, "over")
  /\ UNCHANGED <<area, ousted, mind, eventsLeft>>

Die(s) ==
  /\ Alive(s) /\ Event
  /\ Goto(s, "dead")
  /\ Keeps(s, Blank)
  /\ excuse' = IF excuse = "commit" /\ at[s] = "sidecar" THEN "died" ELSE excuse
  /\ UNCHANGED <<input, meta, summary, lock>>

-----------------------------------------------------------------------------
(* Everybody else.                                                         *)

(* With a folder go its summary and its sidecar.                           *)
Edit ==
  /\ Event
  /\ input' \in Inputs \ {input}
  /\ IF input'.content = "missing"
     THEN meta' = NoMeta /\ summary' = Nothing /\ excuse' = "none"
     ELSE UNCHANGED <<meta, summary, excuse>>
  /\ UNCHANGED <<lock, local>>

(* A row that nobody works at grows old, and so may a work that takes      *)
(* longer than the others wait for it.                                     *)
GrowOld ==
  /\ row.status = "running" /\ ~row.overdue
  /\ IF Alive(row.owner) /\ at[row.owner] # "idle" THEN Event ELSE UNCHANGED eventsLeft
  /\ row' = [row EXCEPT !.overdue = TRUE]
  /\ UNCHANGED <<area, ousted, overwritten, local>>

(* `doctor --adopt-baseline`: a summary without a sidecar or a row is      *)
(* taken for one of the files as they are.                                 *)
AdoptBaseline ==
  /\ Event
  /\ summary # Nothing
  /\ meta = NoMeta \/ row.status = "absent"
  /\ input.content \in Contents
  /\ meta' = input
  /\ row' = Saved(row, Row("idle", Nobody))
  /\ overwritten' = (overwritten \/ row.owner # Nobody)
  /\ UNCHANGED <<input, summary, ousted, local>>
  /\ Excused("adopted")

(* `doctor --rebuild-db`: a new database, with an idle row for each area   *)
(* that has a row or a sidecar.                                            *)
RebuildDb ==
  /\ Event
  /\ Vacated(IF row.status = "absent" /\ meta = NoMeta THEN NoRow ELSE Row("idle", Nobody), Nobody)
  /\ UNCHANGED <<area, local>>

Step(s) ==
  \/ Reclaim(s) \/ Reset(s) \/ AcquireFirst(s) \/ Evaluate(s) \/ Cleanup(s) \/ Clean(s) \/ Unlock(s) \/ Claim(s)
  \/ Persist(s) \/ Release(s) \/ Plan(s) \/ Mark(s) \/ Invoke(s) \/ WriteSummary(s)
  \/ WriteSidecar(s) \/ Journal(s) \/ Fail(s)
  \/ Terminal(s) \/ Look(s) \/ Save(s) \/ GiveUp(s) \/ SaveLast(s) \/ ReleaseLast(s)
  \/ BackfillLoad(s) \/ BackfillWrite(s) \/ BackfillSave(s) \/ Orphans(s) \/ Leave(s)

Next ==
  \/ \E s \in Sessions : Step(s) \/ Take(s) \/ Classify(s) \/ Start(s)
  \/ \E s \in Sessions : Raise(s) \/ SidecarFails(s) \/ Cancel(s) \/ Die(s)
  \/ Edit \/ GrowOld \/ AdoptBaseline \/ RebuildDb

(* The area's insight state is one that an evaluation has nothing to add   *)
(* to.                                                                     *)
Settled ==
  \/ Evaluation = "unchanged"
  \/ Evaluation \in {"missing_path", "no_content"} /\ meta = NoMeta /\ summary = Nothing

(* The queue asks for a folder as long as it is not settled: DaemonLoop    *)
(* says when it does not.                                                  *)
Fairness ==
  /\ \A s \in Sessions : WF_vars(Step(s)) /\ WF_vars(~Settled /\ Take(s))
  /\ WF_vars(GrowOld)

Spec == Init /\ [][Next]_vars /\ Fairness

-----------------------------------------------------------------------------
(* Properties.                                                             *)

(* One worker at a time: a session that has claimed the row has it until   *)
(* it gives it back, unless it was taken from it: by one that found it     *)
(* overdue, or by a row reset, deleted or rebuilt underneath it.           *)
OneWorker ==
  \A s \in Sessions : at[s] \in Working => row.owner = s \/ s \in ousted

(* The sidecar is written for the content its summary speaks for, except   *)
(* for the few reasons that excuse names: no interleaving of sessions      *)
(* beyond those makes an area look done with a summary of something else.  *)
SidecarTellsOfSummary ==
  /\ Differs => excuse \notin {"none", "unexplained"}
  /\ excuse = "commit" => \E s \in Sessions : at[s] = "sidecar"

(* A session that ends, in order or not, leaves a row behind that others   *)
(* can take: at once, or when it is overdue. The exception is a row that   *)
(* somebody's terminal write without an owner hit after it was claimed.    *)
NothingStaysTaken ==
  \A s \in Sessions :
    at[s] \in {"over", "dead"} /\ row.owner = s =>
      overwritten \/ (at[s] = "dead" /\ row.status = "running")

(* With a daemon, once files are at rest and writes go well, the insight   *)
(* state of the area comes to be of its content and stays so, unless its   *)
(* row is stuck.                                                           *)
AreaSettles ==
  <>[](Settled \/ overwritten \/ ~\E s \in Sessions : kind[s] = "daemon" /\ Alive(s))

=============================================================================

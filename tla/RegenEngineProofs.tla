------------------------- MODULE RegenEngineProofs -------------------------
(***************************************************************************)
(* The safety of RegenEngine, for any number of sessions, contents and     *)
(* events.  OneWorker is inductive next to TypeOK.  NothingStaysTaken      *)
(* rests on OwnedIsRunning, and SidecarTellsOfSummary on CommitIsOfOwn.    *)
(***************************************************************************)
EXTENDS RegenEngine, TLAPS

(* A row with an owner is running, unless it was overwritten.              *)
OwnedIsRunning == row.owner # Nobody /\ row.status # "running" => overwritten

(* The summary between summary and sidecar is the one that was written, or *)
(* it has been removed.                                                    *)
CommitIsOfOwn ==
  \A s \in Sessions : at[s] = "sidecar" /\ ousted = {} /\ ~KeepsSummary(s) =>
                         summary \in {mind[s].made, Nothing}

(* What is written into a sidecar is an area that has content.             *)
Evaluating == {"plan", "claim", "mark", "persist", "invoke", "summary", "sidecar", "bfLoad", "bfWrite"}

HasContent(area_) == area_ \in Inputs /\ area_.content \in Contents

SawContent == \A s \in Sessions : at[s] \in Evaluating => HasContent(mind[s].saw)

AreaOK == input \in Inputs /\ meta \in Metas /\ summary \in Texts /\ excuse \in Excuses
LockOK == row \in Rows /\ ousted \subseteq Sessions /\ overwritten \in BOOLEAN
LocalOK == /\ at \in [Sessions -> Places]
           /\ kind \in [Sessions -> {"daemon", "path", "all"}]
           /\ mind \in [Sessions -> Minds]
EventsOK == eventsLeft \in 0 .. MaxEvents

-----------------------------------------------------------------------------
(* Types of the parts.                                                     *)

LEMMA TypeParts ==
  /\ TypeOK <=> AreaOK /\ LockOK /\ LocalOK /\ EventsOK
  /\ TypeOK' <=> AreaOK' /\ LockOK' /\ LocalOK' /\ EventsOK'
  BY DEF TypeOK, AreaOK, LockOK, LocalOK, EventsOK

LEMMA EventType == EventsOK /\ (Event \/ UNCHANGED eventsLeft) => EventsOK'
  BY EventsAssumption DEF EventsOK, Event

LEMMA GotoType ==
  ASSUME LocalOK, NEW s \in Sessions, NEW there \in Places, Goto(s, there)
  PROVE  /\ at' \in [Sessions -> Places]
         /\ kind' \in [Sessions -> {"daemon", "path", "all"}]
         /\ at'[s] = there
         /\ \A t \in Sessions \ {s} : at'[t] = at[t]
  BY DEF LocalOK, Goto

LEMMA KeepsType ==
  ASSUME LocalOK, NEW s \in Sessions, NEW thoughts \in Minds, Keeps(s, thoughts)
  PROVE  /\ mind' \in [Sessions -> Minds]
         /\ mind'[s] = thoughts
         /\ \A t \in Sessions \ {s} : mind'[t] = mind[t]
  BY DEF LocalOK, Keeps

LEMMA MindType ==
  ASSUME LocalOK, NEW s \in Sessions, NEW there \in Places, NEW thoughts \in Minds,
         Goto(s, there), Keeps(s, thoughts)
  PROVE  LocalOK'
  BY GotoType, KeepsType DEF LocalOK

LEMMA RowType ==
  /\ NoRow \in Rows
  /\ \A status \in {"idle", "failed"} : Row(status, Nobody) \in Rows
  /\ \A s \in Sessions : Row("running", s) \in Rows
  BY NobodyAssumption DEF NoRow, Row, Rows, Statuses

LEMMA BlankType ==
  /\ Blank \in Minds
  /\ [Blank EXCEPT !.status = "failed"] \in Minds
  BY RowType DEF Blank, Minds, Outcomes, Texts

LEMMA FinishedType ==
  ASSUME LocalOK, NEW s \in Sessions, Finished(s)
  PROVE  LocalOK' /\ at'[s] \in {"idle", "leave", "orphans"} /\ \A t \in Sessions \ {s} : at'[t] = at[t] /\ mind'[t] = mind[t]
<1> DEFINE there == CASE kind[s] = "daemon" -> "idle" [] kind[s] = "path" -> "leave" [] OTHER -> "orphans"
<1>1. there \in {"idle", "leave", "orphans"}
  OBVIOUS
<1>2. Goto(s, there) /\ Keeps(s, Blank)
  BY DEF Finished
<1> HIDE DEF there
<1>3. there \in Places
  BY <1>1 DEF Places
<1> QED
  BY <1>1, <1>2, <1>3, GotoType, KeepsType, BlankType DEF LocalOK

LEMMA FailedType ==
  ASSUME LocalOK, NEW s \in Sessions, Failed(s)
  PROVE  /\ LocalOK' /\ at'[s] \in {"idle", "leave", "orphans", "giveup"}
         /\ \A t \in Sessions \ {s} : at'[t] = at[t] /\ mind'[t] = mind[t]
<1>1. CASE Finished(s)
  BY <1>1, FinishedType
<1>2. CASE Goto(s, "giveup") /\ Keeps(s, Blank)
  <2>1. "giveup" \in Places
    BY DEF Places, Ending
  <2> QED
    BY <1>2, <2>1, GotoType, KeepsType, BlankType DEF LocalOK
<1> QED
  BY <1>1, <1>2 DEF Failed

LEMMA ExcusedType ==
  ASSUME AreaOK, NEW why \in Excuses, Excused(why)
  PROVE  excuse' \in Excuses
  BY DEF AreaOK, Excused, Excuses

LEMMA EvaluatedType ==
  ASSUME AreaOK
  PROVE  Evaluated \in Minds /\ Evaluation \in Outcomes
<1>1. Evaluation \in Outcomes
  BY DEF Evaluation, Outcomes
<1> QED
  BY <1>1, BlankType DEF Evaluated, Minds, Blank, AreaOK

LEMMA RevivedType == AreaOK => Revived \in Inputs
  BY DEF AreaOK, Revived, Inputs

LEMMA ClaimsType ==
  ASSUME LockOK, NEW s \in Sessions, Claims(s)
  PROVE  LockOK'
<1>1. row' \in Rows
  BY RowType DEF Claims, Acquired
<1>2. IsStale(row) => row.owner \in Sessions
  BY DEF LockOK, Rows, IsStale
<1> QED
  BY <1>1, <1>2 DEF LockOK, Claims

LEMMA VacatedType ==
  ASSUME LockOK, NEW s, NEW new \in Rows, Vacated(new, s)
  PROVE  LockOK'
<1>1. row.owner \in Sessions \union {Nobody}
  BY DEF LockOK, Rows
<1> QED
  BY <1>1 DEF LockOK, Vacated

LEMMA SavedType ==
  ASSUME LockOK, NEW new \in Rows, new.status # "absent",
         new.status = "running" => row.owner # Nobody
  PROVE  Saved(row, new) \in Rows
  BY DEF LockOK, Rows, Saved

LEMMA ReleasedType ==
  ASSUME NEW status \in {"idle", "failed"}
  PROVE  Released(status) \in Rows
  BY RowType DEF Released

LEMMA SaysType ==
  ASSUME LocalOK, NEW s \in Sessions
  PROVE  Says(s) \in {"idle", "failed"}
  BY DEF LocalOK, Says, Minds

LEMMA SavesUnownedType ==
  ASSUME LockOK, LocalOK, NEW s \in Sessions, SavesUnowned(s)
  PROVE  LockOK'
<1>1. Row(mind[s].status, Nobody) \in Rows /\ Row(mind[s].status, Nobody).status \in {"idle", "failed"}
  BY SaysType, RowType DEF Says, Row
<1>2. Saved(row, Row(mind[s].status, Nobody)) \in Rows
  BY <1>1, SavedType
<1> QED
  BY <1>2 DEF LockOK, SavesUnowned

-----------------------------------------------------------------------------
(* Every step keeps the types.                                             *)

LEMMA SawType ==
  ASSUME SawContent, NEW s \in Sessions, at[s] \in Evaluating
  PROVE  mind[s].saw \in Metas
  BY DEF SawContent, HasContent, Inputs, Metas

LEMMA TypeOfBegin ==
  ASSUME TypeOK, NEW s \in Sessions,
         Reclaim(s) \/ Reset(s) \/ AcquireFirst(s) \/ Start(s) \/ Take(s) \/ Evaluate(s) \/ Claim(s) \/ Raise(s)
  PROVE  TypeOK'
<1> USE TypeParts
<1>0. {"reclaim", "reset", "idle", "evaluate", "acquire", "mark", "persist", "cleanup", "plan", "claim"} \subseteq Places
  BY DEF Places, Claimed, Working
<1>1. CASE Reclaim(s)
  <2>1. Begin(s) \in {"idle", "evaluate"}
    BY DEF Begin
  <2> QED
    BY <1>0, <1>1, <2>1, GotoType DEF Reclaim, AreaOK, area, LockOK, lock, LocalOK, EventsOK
<1>2. CASE Reset(s)
  <2>1. Begin(s) \in {"idle", "evaluate"}
    BY DEF Begin
  <2>2. Reclaimed(row) \in Rows
    BY RowType DEF Reclaimed, LockOK
  <2> QED
    BY <1>0, <1>2, <2>1, <2>2, VacatedType, GotoType DEF Reset, AreaOK, area, LocalOK, EventsOK
<1>3. CASE AcquireFirst(s)
  <2>1. LockOK'
    BY <1>3, ClaimsType DEF AcquireFirst, LockOK, lock
  <2>2. PICK there \in {"evaluate", "idle"} : Goto(s, there)
    BY <1>3 DEF AcquireFirst
  <2> QED
    BY <1>0, <1>3, <2>1, <2>2, GotoType DEF AcquireFirst, AreaOK, area, LocalOK, EventsOK
<1>4. CASE Start(s)
  BY <1>0, <1>4, GotoType DEF Start, AreaOK, area, LockOK, lock, LocalOK, EventsOK
<1>5. CASE Take(s)
  BY <1>0, <1>5, GotoType DEF Take, AreaOK, area, LockOK, lock, LocalOK, EventsOK
<1>6. CASE Evaluate(s)
  <2>1. PICK there \in {"cleanup", "plan", "claim"} : Goto(s, there)
    BY <1>6, Zenon DEF Evaluate
  <2> QED
    BY <1>0, <1>6, <2>1, GotoType, EvaluatedType, KeepsType DEF Evaluate, AreaOK, area, LockOK, lock, LocalOK, EventsOK
<1>7. CASE Claim(s)
  <2>1. LockOK'
    BY <1>7, ClaimsType DEF Claim, LockOK, lock
  <2>2. LocalOK'
    <3>1. CASE Failed(s)
      BY <3>1, FailedType
    <3>2. CASE (Goto(s, "mark") \/ Goto(s, "persist")) /\ UNCHANGED mind
      BY <1>0, <3>2, GotoType DEF LocalOK
    <3> QED
      BY <1>7, <3>1, <3>2 DEF Claim
  <2> QED
    BY <1>7, <2>1, <2>2 DEF Claim, AreaOK, area, EventsOK
<1>8. CASE Raise(s)
  BY <1>8, FailedType, EventType DEF Raise, AreaOK, area, LockOK, lock
<1> QED
  BY <1>1, <1>2, <1>3, <1>4, <1>5, <1>6, <1>7, <1>8

LEMMA TypeOfCleanup ==
  ASSUME TypeOK, NEW s \in Sessions, Cleanup(s) \/ Clean(s) \/ Unlock(s)
  PROVE  TypeOK'
<1> USE TypeParts
<1>0. "clean" \in Places /\ "unlock" \in Places /\ "removed" \in Excuses
  BY DEF Places, Claimed, Excuses
<1>1. NoMeta \in Metas /\ Nothing \in Texts
  BY DEF NoMeta, Metas, Texts
<1>2. CASE Cleanup(s)
  BY <1>0, <1>1, <1>2, GotoType, ExcusedType, EventType DEF Cleanup, AreaOK, LockOK, lock, LocalOK
<1>3. CASE Clean(s)
  BY <1>0, <1>1, <1>3, GotoType, ExcusedType DEF Clean, AreaOK, LockOK, lock, LocalOK, EventsOK
<1>4. CASE Unlock(s)
  BY <1>4, FinishedType, VacatedType, RowType DEF Unlock, AreaOK, area, EventsOK
<1> QED
  BY <1>2, <1>3, <1>4

LEMMA TypeOfWork ==
  ASSUME TypeOK, SawContent, NEW s \in Sessions,
         Persist(s) \/ Release(s) \/ Plan(s) \/ Mark(s) \/ Invoke(s) \/ Journal(s) \/ Fail(s)
  PROVE  TypeOK'
<1> USE TypeParts
<1>0. {"release", "terminal", "claim", "invoke", "summary", "sidecar"} \subseteq Places
  BY DEF Places, Claimed, Working, Ending
<1>1. CASE Persist(s)
  <2>1. mind[s].saw \in Metas
    BY <1>1, SawType DEF Persist, Evaluating
  <2>2. PICK why \in {"backfill", "ousted", "late"} : Excused(why)
    BY <1>1 DEF Persist, Because
  <2> QED
    BY <1>0, <1>1, <2>1, <2>2, GotoType, ExcusedType, RevivedType
       DEF Persist, AreaOK, LockOK, lock, LocalOK, EventsOK, Excuses
<1>2. CASE Release(s)
  <2>1. CASE GivesBack(Released("idle")) /\ Finished(s)
    BY <1>2, <2>1, ReleasedType, FinishedType DEF Release, GivesBack, AreaOK, area, LockOK, EventsOK
  <2>2. CASE Goto(s, "terminal") /\ SaysFailed(s) /\ UNCHANGED lock
    BY <1>0, <1>2, <2>2, GotoType, KeepsType, BlankType
       DEF Release, SaysFailed, AreaOK, area, LockOK, lock, LocalOK, EventsOK
  <2> QED
    BY <1>2, <2>1, <2>2 DEF Release
<1>3. CASE Plan(s)
  <2> DEFINE thoughts == [mind[s] EXCEPT !.made = input.content, !.old = summary]
  <2>1. mind[s] \in Minds /\ input.content \in Texts /\ summary \in Texts
    BY DEF LocalOK, AreaOK, Inputs, Texts
  <2>2. thoughts \in Minds
    BY <2>1 DEF Minds
  <2>3. Goto(s, "claim") /\ Keeps(s, thoughts) /\ UNCHANGED <<area, lock, eventsLeft>>
    BY <1>3 DEF Plan
  <2> HIDE DEF thoughts
  <2>4. LocalOK'
    BY <1>0, <2>2, <2>3, MindType
  <2> QED
    BY <2>3, <2>4 DEF AreaOK, area, LockOK, lock, EventsOK
<1>4. CASE Mark(s)
  <2>1. CASE MaySave(row, s) /\ GivesBack(Saved(row, Row("running", s))) /\ Goto(s, "invoke") /\ UNCHANGED mind
    <3>1. Row("running", s) \in Rows /\ Row("running", s).status = "running" /\ row.owner # Nobody
      BY <2>1, RowType, NobodyAssumption DEF Row, MaySave
    <3>2. row' \in Rows
      BY <2>1, <3>1, SavedType DEF GivesBack
    <3> QED
      BY <1>0, <1>4, <2>1, <3>2, GotoType DEF Mark, GivesBack, AreaOK, area, LockOK, LocalOK, EventsOK
  <2>2. CASE Failed(s) /\ UNCHANGED lock
    BY <1>4, <2>2, FailedType DEF Mark, AreaOK, area, LockOK, lock, EventsOK
  <2> QED
    BY <1>4, <2>1, <2>2 DEF Mark
<1>5. CASE Invoke(s)
  <2>1. [mind[s] EXCEPT !.outcome = "skipped_similarity"] \in Minds
    BY DEF LocalOK, Minds, Outcomes
  <2> QED
    BY <1>0, <1>5, <2>1, GotoType, MindType DEF Invoke, AreaOK, area, LockOK, lock, LocalOK, EventsOK
<1>6. CASE Journal(s)
  BY <1>0, <1>6, GotoType DEF Journal, AreaOK, area, LockOK, lock, LocalOK, EventsOK
<1>7. CASE Fail(s)
  BY <1>0, <1>7, GotoType, KeepsType, BlankType, EventType
     DEF Fail, SaysFailed, AreaOK, area, LockOK, lock, LocalOK
<1> QED
  BY <1>1, <1>2, <1>3, <1>4, <1>5, <1>6, <1>7

LEMMA TypeOfCommit ==
  ASSUME TypeOK, SawContent, NEW s \in Sessions,
         WriteSummary(s) \/ WriteSidecar(s) \/ SidecarFails(s)
  PROVE  TypeOK'
<1> USE TypeParts
<1>0. {"terminal", "sidecar", "journal"} \subseteq Places
  BY DEF Places, Working, Ending
<1>1. mind[s].made \in Texts /\ mind[s].old \in Texts
  BY DEF LocalOK, Minds
<1>2. CASE WriteSummary(s)
  <2>1. [mind[s] EXCEPT !.old = summary] \in Minds
    BY DEF LocalOK, AreaOK, Minds
  <2>2. "commit" \in Excuses
    BY DEF Excuses
  <2> QED
    BY <1>0, <1>1, <1>2, <2>1, <2>2, GotoType, KeepsType, ExcusedType, RevivedType
       DEF WriteSummary, AreaOK, LockOK, lock, LocalOK, EventsOK
<1>3. CASE WriteSidecar(s)
  <2>1. mind[s].saw \in Metas
    BY <1>3, SawType DEF WriteSidecar, Evaluating
  <2>2. PICK why \in {"reread", "removed", "ousted", "late", "unexplained"} : Excused(why)
    BY <1>3, Zenon DEF WriteSidecar, Because
  <2>3. summary' \in Texts
    BY <1>1, <1>3 DEF WriteSidecar, AreaOK
  <2> QED
    BY <1>0, <1>3, <2>1, <2>2, <2>3, GotoType, KeepsType, BlankType, ExcusedType, RevivedType
       DEF WriteSidecar, AreaOK, LockOK, lock, LocalOK, EventsOK, Excuses
<1>4. CASE SidecarFails(s)
  <2>1. PICK why \in {"ousted", "restore"} : Excused(why)
    BY <1>4 DEF SidecarFails, Because
  <2>2. summary' \in Texts
    BY <1>1, <1>4 DEF SidecarFails, AreaOK
  <2> QED
    BY <1>0, <1>4, <2>1, <2>2, GotoType, KeepsType, BlankType, ExcusedType, EventType
       DEF SidecarFails, SaysFailed, AreaOK, LockOK, lock, LocalOK, Excuses
<1> QED
  BY <1>2, <1>3, <1>4

LEMMA TypeOfEnding ==
  ASSUME TypeOK, NEW s \in Sessions,
         Terminal(s) \/ Look(s) \/ Save(s) \/ GiveUp(s) \/ SaveLast(s) \/ ReleaseLast(s)
  PROVE  TypeOK'
<1> USE TypeParts
<1>0. {"look", "save", "terminal", "saveLast", "releaseLast", "idle"} \subseteq Places
  BY DEF Places, Ending
<1>1. Says(s) \in {"idle", "failed"}
  BY SaysType
<1>2. Over(s) => LocalOK'
  BY FinishedType, FailedType DEF Over
<1>3. CASE Terminal(s)
  <2>1. CASE GivesBack(Released(Says(s))) /\ Over(s)
    BY <1>1, <1>2, <1>3, <2>1, ReleasedType DEF Terminal, GivesBack, AreaOK, area, LockOK, EventsOK
  <2>2. CASE Goto(s, "look") /\ UNCHANGED <<lock, mind>>
    BY <1>0, <1>3, <2>2, GotoType DEF Terminal, AreaOK, area, LockOK, lock, LocalOK, EventsOK
  <2> QED
    BY <1>3, <2>1, <2>2 DEF Terminal
<1>4. CASE Look(s)
  <2>1. LocalOK'
    <3>1. CASE Goto(s, "save") /\ UNCHANGED mind
      BY <1>0, <3>1, GotoType DEF LocalOK
    <3>2. CASE Goto(s, "terminal") /\ SaysFailed(s)
      BY <1>0, <3>2, GotoType, KeepsType, BlankType DEF SaysFailed, LocalOK
    <3>3. CASE Failed(s)
      BY <3>3, FailedType
    <3> QED
      BY <1>4, <3>1, <3>2, <3>3 DEF Look
  <2> QED
    BY <1>4, <2>1 DEF Look, AreaOK, area, LockOK, lock, EventsOK
<1>5. CASE Save(s)
  BY <1>2, <1>5, SavesUnownedType DEF Save, AreaOK, area, EventsOK
<1>6. CASE GiveUp(s)
  <2>1. PICK there \in {"saveLast", "releaseLast", "idle"} : Goto(s, there)
    BY <1>6, Zenon DEF GiveUp
  <2> QED
    BY <1>0, <1>6, <2>1, GotoType DEF GiveUp, AreaOK, area, LockOK, lock, LocalOK, EventsOK
<1>7. CASE SaveLast(s)
  <2>1. Row("failed", Nobody) \in Rows /\ Row("failed", Nobody).status = "failed"
    BY RowType DEF Row
  <2>2. row' \in Rows
    BY <1>7, <2>1, SavedType DEF SaveLast
  <2> QED
    BY <1>0, <1>7, <2>2, GotoType DEF SaveLast, AreaOK, area, LockOK, LocalOK, EventsOK
<1>8. CASE ReleaseLast(s)
  <2>1. LockOK'
    BY <1>8, ReleasedType DEF ReleaseLast, GivesBack, LockOK, lock
  <2> QED
    BY <1>0, <1>8, <2>1, GotoType DEF ReleaseLast, AreaOK, area, LocalOK, EventsOK
<1> QED
  BY <1>3, <1>4, <1>5, <1>6, <1>7, <1>8

LEMMA TypeOfBackfill ==
  ASSUME TypeOK, SawContent, NEW s \in Sessions,
         Classify(s) \/ BackfillLoad(s) \/ BackfillWrite(s) \/ BackfillSave(s)
  PROVE  TypeOK'
<1> USE TypeParts
<1>0. {"bfLoad", "bfWrite", "bfSave", "idle"} \subseteq Places
  BY DEF Places
<1>1. CASE Classify(s)
  BY <1>0, <1>1, GotoType, EvaluatedType, KeepsType
     DEF Classify, AreaOK, area, LockOK, lock, LocalOK, EventsOK
<1>2. CASE BackfillLoad(s)
  <2>1. [mind[s] EXCEPT !.found = row] \in Minds
    BY DEF LocalOK, LockOK, Minds
  <2> QED
    BY <1>0, <1>2, <2>1, MindType DEF BackfillLoad, AreaOK, area, LockOK, lock, EventsOK
<1>3. CASE BackfillWrite(s)
  <2>1. mind[s].saw \in Metas /\ "backfill" \in Excuses
    BY <1>3, SawType DEF BackfillWrite, Evaluating, Excuses
  <2> QED
    BY <1>0, <1>3, <2>1, GotoType, ExcusedType, RevivedType
       DEF BackfillWrite, AreaOK, LockOK, lock, LocalOK, EventsOK
<1>4. CASE BackfillSave(s)
  <2> DEFINE found == mind[s].found
             new == IF found.status = "absent" THEN Row("idle", Nobody) ELSE found
  <2>1. found \in Rows
    BY DEF LocalOK, Minds
  <2>2. /\ new \in Rows /\ new.status # "absent"
        /\ new.status = "running" => found.owner # Nobody
    BY <2>1, RowType, Zenon, NobodyAssumption DEF Rows, Row
  <2>3. MaySave(row, found.owner) => Saved(row, new) \in Rows
    <3>1. MaySave(row, found.owner) /\ found.owner # Nobody => row.owner # Nobody
      BY DEF MaySave
    <3> QED
      BY <2>2, <3>1, SavedType
  <2>4. LockOK'
    BY <1>4, <2>3 DEF BackfillSave, LockOK, lock
  <2> QED
    BY <1>0, <1>4, <2>4, GotoType, KeepsType, BlankType DEF BackfillSave, AreaOK, area, LocalOK, EventsOK
<1> QED
  BY <1>1, <1>2, <1>3, <1>4

LEMMA TypeOfExit ==
  ASSUME TypeOK, NEW s \in Sessions, Orphans(s) \/ Cancel(s) \/ Leave(s) \/ Die(s)
  PROVE  TypeOK'
<1> USE TypeParts
<1>0. {"leave", "over", "dead"} \subseteq Places /\ "died" \in Excuses
  BY DEF Places, Excuses
<1>1. CASE Orphans(s)
  <2>1. LockOK'
    BY <1>1, VacatedType, RowType DEF Orphans, LockOK, lock
  <2> QED
    BY <1>0, <1>1, <2>1, GotoType DEF Orphans, AreaOK, area, LocalOK, EventsOK
<1>2. CASE Cancel(s)
  BY <1>0, <1>2, GotoType, KeepsType, BlankType, EventType DEF Cancel, AreaOK, area, LockOK, lock, LocalOK
<1>3. CASE Leave(s)
  <2>1. row' \in Rows
    BY <1>3, RowType DEF Leave, ReleasedOnExit, LockOK
  <2> QED
    BY <1>0, <1>3, <2>1, GotoType DEF Leave, AreaOK, area, LockOK, LocalOK, EventsOK
<1>4. CASE Die(s)
  BY <1>0, <1>4, GotoType, KeepsType, BlankType, EventType DEF Die, AreaOK, LockOK, lock, LocalOK
<1> QED
  BY <1>1, <1>2, <1>3, <1>4

LEMMA TypeOfOthers ==
  ASSUME TypeOK, Edit \/ GrowOld \/ AdoptBaseline \/ RebuildDb
  PROVE  TypeOK'
<1> USE TypeParts
<1>1. CASE Edit
  BY <1>1, EventType DEF Edit, AreaOK, LockOK, lock, LocalOK, local, NoMeta, Metas, Texts, Excuses
<1>2. CASE GrowOld
  <2>1. row' \in Rows
    BY <1>2 DEF GrowOld, LockOK, Rows
  <2>2. EventsOK'
    BY <1>2, EventType DEF GrowOld
  <2> QED
    BY <1>2, <2>1, <2>2 DEF GrowOld, AreaOK, area, LockOK, LocalOK, local
<1>3. CASE AdoptBaseline
  <2>1. input \in Metas /\ "adopted" \in Excuses
    BY <1>3 DEF AdoptBaseline, AreaOK, Inputs, Metas, Excuses
  <2>2. Row("idle", Nobody) \in Rows /\ Row("idle", Nobody).status = "idle"
    BY RowType DEF Row
  <2>3. row' \in Rows
    BY <1>3, <2>2, SavedType DEF AdoptBaseline
  <2> QED
    BY <1>3, <2>1, <2>3, ExcusedType, EventType DEF AdoptBaseline, AreaOK, LockOK, LocalOK, local
<1>4. CASE RebuildDb
  BY <1>4, VacatedType, RowType, EventType DEF RebuildDb, AreaOK, area, LocalOK, local
<1> QED
  BY <1>1, <1>2, <1>3, <1>4

-----------------------------------------------------------------------------
(* What a session does to the others: it leaves their places and minds     *)
(* alone, takes a row only by ousting its owner, and gives none away.      *)

LockFrame(s) ==
  /\ \A t \in Sessions \ {s} :
       /\ row.owner = t \/ t \in ousted => row'.owner = t \/ t \in ousted'
       /\ row'.owner = t => row.owner = t /\ (overwritten => overwritten')
  /\ ousted \subseteq ousted' \/ row'.owner = s

LocalFrame(s) == \A t \in Sessions \ {s} : at'[t] = at[t] /\ mind'[t] = mind[t]

(* What it does to itself.                                                 *)
OwnPart(s) ==
  /\ at'[s] \in Evaluating => HasContent(mind'[s].saw)
  /\ at'[s] \in Working => row'.owner = s \/ s \in ousted'
  /\ at'[s] = "over" /\ row'.owner = s => overwritten'
  /\ at'[s] = "sidecar" => at[s] \in {"invoke", "summary"}

Frame(s) == LockFrame(s) /\ LocalFrame(s) /\ OwnPart(s)

Taken == \A s \in Sessions : at[s] = "over" /\ row.owner = s => overwritten

Strong == OneWorker /\ SawContent /\ OwnedIsRunning /\ Taken

LEMMA FromFrames ==
  ASSUME Strong, NEW s \in Sessions, LockFrame(s), LocalFrame(s), OwnPart(s), OwnedIsRunning'
  PROVE  Strong' /\ Frame(s)
<1>1. OneWorker'
  BY DEF Strong, OneWorker, LockFrame, LocalFrame, OwnPart
<1>2. SawContent'
  BY DEF Strong, SawContent, LocalFrame, OwnPart
<1>3. Taken'
  BY DEF Strong, Taken, LockFrame, LocalFrame, OwnPart
<1> QED
  BY <1>1, <1>2, <1>3 DEF Strong, Frame

LEMMA ClaimsFrame ==
  ASSUME TypeOK, NEW s \in Sessions, MayAcquire(row, s), Claims(s)
  PROVE  LockFrame(s) /\ row'.owner = s /\ OwnedIsRunning'
  BY NobodyAssumption DEF Claims, MayAcquire, IsStale, Acquired, Row, LockFrame, OwnedIsRunning

LEMMA VacatedFrame ==
  ASSUME TypeOK, NEW s, NEW new \in Rows, new.owner = Nobody, Vacated(new, s)
  PROVE  LockFrame(s) /\ row'.owner = Nobody /\ OwnedIsRunning'
  BY NobodyAssumption DEF Vacated, LockFrame, OwnedIsRunning

LEMMA ReleasedFrame ==
  ASSUME TypeOK, NEW s \in Sessions, NEW status, MayRelease(row, s), GivesBack(Released(status))
  PROVE  LockFrame(s) /\ row'.owner = Nobody /\ OwnedIsRunning'
  BY NobodyAssumption DEF MayRelease, GivesBack, Released, Row, LockFrame, OwnedIsRunning

LEMMA SameLockFrame ==
  ASSUME OwnedIsRunning, NEW s, UNCHANGED lock
  PROVE  LockFrame(s) /\ row' = row /\ ousted' = ousted /\ overwritten' = overwritten /\ OwnedIsRunning'
  BY DEF lock, LockFrame, OwnedIsRunning

LEMMA SavesFrame ==
  ASSUME TypeOK, OwnedIsRunning, NEW s \in Sessions, SavesUnowned(s)
  PROVE  LockFrame(s) /\ OwnedIsRunning' /\ (row'.owner = s => overwritten')
<1>1. row'.owner = row.owner
  BY DEF SavesUnowned, Saved, Row
<1> QED
  BY <1>1, NobodyAssumption DEF SavesUnowned, LockFrame, OwnedIsRunning, TypeOK

LEMMA GotoFrame ==
  ASSUME LocalOK, NEW s \in Sessions, NEW there \in Places, Goto(s, there), UNCHANGED mind
  PROVE  LocalFrame(s) /\ at'[s] = there /\ mind'[s] = mind[s]
  BY GotoType DEF LocalFrame

LEMMA MindFrame ==
  ASSUME LocalOK, NEW s \in Sessions, NEW there \in Places, NEW thoughts \in Minds,
         Goto(s, there), Keeps(s, thoughts)
  PROVE  LocalFrame(s) /\ at'[s] = there /\ mind'[s] = thoughts
  BY GotoType, KeepsType DEF LocalFrame

(* Where nothing is at stake for the session itself.                       *)
Aside == {"reclaim", "reset", "idle", "evaluate", "acquire", "cleanup", "clean", "unlock",
          "leave", "orphans", "giveup", "terminal", "look", "save", "saveLast", "releaseLast",
          "bfSave", "dead"}

LEMMA AsidePart ==
  ASSUME NEW s, at'[s] \in Aside
  PROVE  OwnPart(s)
  BY DEF Aside, OwnPart, Evaluating, Working

LEMMA FinishedFrame ==
  ASSUME LocalOK, NEW s \in Sessions, Finished(s) \/ Failed(s)
  PROVE  LocalFrame(s) /\ OwnPart(s)
<1>1. LocalFrame(s) /\ at'[s] \in {"idle", "leave", "orphans", "giveup"}
  BY FinishedType, FailedType DEF LocalFrame
<1> QED
  BY <1>1, AsidePart DEF Aside

LEMMA PlacesAside ==
  /\ Aside \subseteq Places
  /\ {"mark", "persist", "plan", "claim", "invoke", "summary", "sidecar", "release", "journal",
      "bfLoad", "bfWrite", "over"} \subseteq Places
  BY DEF Aside, Places, Claimed, Working, Ending

LEMMA StrongOfBegin ==
  ASSUME TypeOK, Strong, NEW s \in Sessions,
         Reclaim(s) \/ Reset(s) \/ AcquireFirst(s) \/ Start(s) \/ Take(s) \/ Evaluate(s) \/ Claim(s) \/ Raise(s)
  PROVE  Strong' /\ Frame(s)
<1>0. LocalOK /\ LockOK /\ AreaOK /\ OwnedIsRunning
  BY TypeParts DEF Strong
<1> USE PlacesAside
<1>1. CASE Reclaim(s)
  <2>1. PICK there \in Aside : Goto(s, there) /\ UNCHANGED mind /\ UNCHANGED lock
    BY <1>1 DEF Reclaim, Begin, Aside
  <2> QED
    BY <1>0, <2>1, GotoFrame, SameLockFrame, AsidePart, FromFrames
<1>2. CASE Reset(s)
  <2>1. PICK there \in Aside : Goto(s, there) /\ UNCHANGED mind
    BY <1>2 DEF Reset, Begin, Aside
  <2>2. Reclaimed(row) \in Rows /\ Reclaimed(row).owner = Nobody
    BY <1>0, RowType DEF Reclaimed, LockOK, Rows, Row
  <2>3. Vacated(Reclaimed(row), s)
    BY <1>2 DEF Reset
  <2> QED
    BY <1>0, <2>1, <2>2, <2>3, GotoFrame, VacatedFrame, AsidePart, FromFrames
<1>3. CASE AcquireFirst(s)
  <2>1. PICK there \in {"evaluate", "idle"} : Goto(s, there) /\ UNCHANGED mind
    BY <1>3 DEF AcquireFirst
  <2>2. LockFrame(s) /\ OwnedIsRunning'
    BY <1>0, <1>3, ClaimsFrame, SameLockFrame DEF AcquireFirst
  <2> QED
    BY <1>0, <2>1, <2>2, GotoFrame, AsidePart, FromFrames DEF Aside
<1>4. CASE Start(s) \/ Take(s)
  <2>1. PICK there \in Aside : Goto(s, there) /\ UNCHANGED mind /\ UNCHANGED lock
    BY <1>4 DEF Start, Take, Aside
  <2> QED
    BY <1>0, <2>1, GotoFrame, SameLockFrame, AsidePart, FromFrames
<1>5. CASE Evaluate(s)
  <2>1. PICK there \in {"cleanup", "plan", "claim"} :
          Goto(s, there) /\ (there # "cleanup" => Evaluation \notin {"missing_path", "no_content"})
    BY <1>5, Zenon DEF Evaluate
  <2>2. Keeps(s, Evaluated) /\ Evaluated \in Minds /\ UNCHANGED lock
    BY <1>0, <1>5, EvaluatedType DEF Evaluate
  <2>3. LocalFrame(s) /\ at'[s] = there /\ mind'[s] = Evaluated
    BY <1>0, <2>1, <2>2, MindFrame DEF Aside
  <2>4. Evaluated.saw = input
    BY DEF Evaluated, Blank
  <2>5. there # "cleanup" => HasContent(input)
    BY <1>0, <2>1 DEF Evaluation, HasContent, AreaOK, Inputs
  <2>6. OwnPart(s)
    BY <2>1, <2>3, <2>4, <2>5 DEF OwnPart, Evaluating, Working
  <2> QED
    BY <1>0, <2>2, <2>3, <2>6, SameLockFrame, FromFrames
<1>6. CASE Claim(s)
  <2>1. CASE Failed(s) /\ UNCHANGED lock
    BY <1>0, <2>1, FinishedFrame, SameLockFrame, FromFrames
  <2>2. CASE MayAcquire(row, s) /\ Claims(s) /\ UNCHANGED mind
    <3>1. PICK there \in {"mark", "persist"} : Goto(s, there)
      BY <1>6, <2>2 DEF Claim
    <3>2. LocalFrame(s) /\ at'[s] = there /\ mind'[s] = mind[s]
      BY <1>0, <2>2, <3>1, GotoFrame
    <3>3. HasContent(mind[s].saw)
      BY <1>6 DEF Claim, Strong, SawContent, Evaluating
    <3>4. LockFrame(s) /\ row'.owner = s /\ OwnedIsRunning'
      BY <2>2, ClaimsFrame
    <3> QED
      BY <3>1, <3>2, <3>3, <3>4, FromFrames DEF OwnPart
  <2> QED
    BY <1>6, <2>1, <2>2 DEF Claim
<1>7. CASE Raise(s)
  BY <1>0, <1>7, FinishedFrame, SameLockFrame, FromFrames DEF Raise
<1> QED
  BY <1>1, <1>2, <1>3, <1>4, <1>5, <1>6, <1>7

LEMMA StrongOfCleanup ==
  ASSUME TypeOK, Strong, NEW s \in Sessions, Cleanup(s) \/ Clean(s) \/ Unlock(s)
  PROVE  Strong' /\ Frame(s)
<1>0. LocalOK /\ OwnedIsRunning
  BY TypeParts DEF Strong
<1>1. CASE Cleanup(s) \/ Clean(s)
  <2>1. PICK there \in {"clean", "unlock"} : Goto(s, there) /\ UNCHANGED mind /\ UNCHANGED lock
    BY <1>1 DEF Cleanup, Clean
  <2> QED
    BY <1>0, <2>1, PlacesAside, GotoFrame, SameLockFrame, AsidePart, FromFrames DEF Aside
<1>2. CASE Unlock(s)
  BY <1>0, <1>2, RowType, VacatedFrame, FinishedFrame, FromFrames DEF Unlock, NoRow, Row
<1> QED
  BY <1>1, <1>2

LEMMA StrongOfWork ==
  ASSUME TypeOK, Strong, NEW s \in Sessions,
         Persist(s) \/ Release(s) \/ Plan(s) \/ Mark(s) \/ Invoke(s) \/ WriteSummary(s)
           \/ WriteSidecar(s) \/ SidecarFails(s) \/ Journal(s) \/ Fail(s)
  PROVE  Strong' /\ Frame(s)
<1>0. LocalOK /\ AreaOK /\ OwnedIsRunning
  BY TypeParts DEF Strong
<1> USE PlacesAside
<1>w. at[s] \in Working => row.owner = s \/ s \in ousted
  BY DEF Strong, OneWorker
<1>c. at[s] \in Evaluating => HasContent(mind[s].saw)
  BY DEF Strong, SawContent
<1>m. mind[s] \in Minds /\ mind[s].made \in Texts
  BY <1>0 DEF LocalOK, Minds
<1>1. CASE Persist(s)
  <2>1. Goto(s, "release") /\ UNCHANGED mind /\ UNCHANGED lock /\ at[s] \in Working
    BY <1>1 DEF Persist, Working
  <2>2. LocalFrame(s) /\ at'[s] = "release" /\ LockFrame(s) /\ row' = row /\ ousted' = ousted /\ OwnedIsRunning'
    BY <1>0, <2>1, GotoFrame, SameLockFrame
  <2> QED
    BY <1>w, <2>1, <2>2, FromFrames DEF OwnPart, Evaluating
<1>2. CASE Release(s)
  <2>1. CASE MayRelease(row, s) /\ GivesBack(Released("idle")) /\ Finished(s)
    BY <1>0, <2>1, ReleasedFrame, FinishedFrame, FromFrames
  <2>2. CASE Goto(s, "terminal") /\ SaysFailed(s) /\ UNCHANGED lock
    <3>1. LocalFrame(s) /\ at'[s] = "terminal"
      BY <1>0, <2>2, BlankType, MindFrame DEF SaysFailed, Aside
    <3> QED
      BY <1>0, <2>2, <3>1, SameLockFrame, AsidePart, FromFrames DEF Aside
  <2> QED
    BY <1>2, <2>1, <2>2 DEF Release
<1>3. CASE Plan(s)
  <2> DEFINE thoughts == [mind[s] EXCEPT !.made = input.content, !.old = summary]
  <2>1. thoughts \in Minds /\ thoughts.saw = mind[s].saw
    BY <1>0, <1>m DEF AreaOK, Minds, Inputs, Texts
  <2>2. Goto(s, "claim") /\ Keeps(s, thoughts) /\ UNCHANGED lock /\ at[s] = "plan"
    BY <1>3 DEF Plan
  <2> HIDE DEF thoughts
  <2>3. LocalFrame(s) /\ at'[s] = "claim" /\ mind'[s] = thoughts
    BY <1>0, <2>1, <2>2, MindFrame
  <2>4. OwnPart(s)
    BY <1>c, <2>1, <2>2, <2>3 DEF OwnPart, Evaluating, Working
  <2> QED
    BY <1>0, <2>2, <2>3, <2>4, SameLockFrame, FromFrames
<1>4. CASE Mark(s)
  <2>1. CASE MaySave(row, s) /\ GivesBack(Saved(row, Row("running", s))) /\ Goto(s, "invoke") /\ UNCHANGED mind
    <3>1. row.owner = s /\ row'.owner = s /\ row'.status = "running"
      BY <2>1, NobodyAssumption DEF MaySave, GivesBack, Saved, Row
    <3>2. LockFrame(s) /\ OwnedIsRunning'
      BY <2>1, <3>1 DEF GivesBack, LockFrame, OwnedIsRunning
    <3>3. LocalFrame(s) /\ at'[s] = "invoke" /\ mind'[s] = mind[s] /\ at[s] = "mark"
      BY <1>0, <1>4, <2>1, GotoFrame DEF Mark
    <3> QED
      BY <1>c, <3>1, <3>2, <3>3, FromFrames DEF OwnPart, Evaluating
  <2>2. CASE Failed(s) /\ UNCHANGED lock
    BY <1>0, <2>2, FinishedFrame, SameLockFrame, FromFrames
  <2> QED
    BY <1>4, <2>1, <2>2 DEF Mark
<1>5. CASE Invoke(s) \/ WriteSummary(s)
  <2>1. PICK there \in {"summary", "sidecar"}, thoughts \in Minds :
          /\ Goto(s, there) /\ Keeps(s, thoughts) /\ UNCHANGED lock
          /\ thoughts.saw = mind[s].saw
    <3>1. CASE Goto(s, "summary") /\ UNCHANGED mind /\ UNCHANGED lock
      BY <1>0, <1>m, <3>1 DEF Keeps, LocalOK
    <3>2. CASE /\ Goto(s, "sidecar") /\ UNCHANGED lock
               /\ Keeps(s, [mind[s] EXCEPT !.outcome = "skipped_similarity"])
      <4>1. [mind[s] EXCEPT !.outcome = "skipped_similarity"] \in Minds
        BY <1>m DEF Minds, Outcomes
      <4>2. [mind[s] EXCEPT !.outcome = "skipped_similarity"].saw = mind[s].saw
        BY <1>m DEF Minds
      <4> QED
        BY <3>2, <4>1, <4>2
    <3>3. CASE WriteSummary(s)
      <4>1. [mind[s] EXCEPT !.old = summary] \in Minds
        BY <1>0, <1>m DEF Minds, AreaOK
      <4>2. [mind[s] EXCEPT !.old = summary].saw = mind[s].saw
        BY <1>m DEF Minds
      <4> QED
        BY <3>3, <4>1, <4>2 DEF WriteSummary
    <3> QED
      BY <1>5, <3>1, <3>2, <3>3 DEF Invoke
  <2>2. LocalFrame(s) /\ at'[s] = there /\ mind'[s] = thoughts
    BY <1>0, <2>1, MindFrame
  <2>3. LockFrame(s) /\ row' = row /\ ousted' = ousted /\ OwnedIsRunning'
    BY <1>0, <2>1, SameLockFrame
  <2>4. at[s] \in Working /\ at[s] \in Evaluating /\ at[s] \in {"invoke", "summary"}
    BY <1>5 DEF Invoke, WriteSummary, Working, Evaluating
  <2> QED
    BY <1>c, <1>w, <2>1, <2>2, <2>3, <2>4, FromFrames DEF OwnPart
<1>6. CASE WriteSidecar(s)
  <2>1. Goto(s, "journal") /\ Keeps(s, Blank) /\ UNCHANGED lock /\ at[s] \in Working
    BY <1>6 DEF WriteSidecar, Working
  <2>2. LocalFrame(s) /\ at'[s] = "journal" /\ LockFrame(s) /\ row' = row /\ ousted' = ousted /\ OwnedIsRunning'
    BY <1>0, <2>1, BlankType, MindFrame, SameLockFrame
  <2> QED
    BY <1>w, <2>1, <2>2, FromFrames DEF OwnPart, Evaluating
<1>7. CASE SidecarFails(s) \/ Fail(s)
  <2>1. Goto(s, "terminal") /\ SaysFailed(s) /\ UNCHANGED lock
    BY <1>7 DEF SidecarFails, Fail
  <2>2. LocalFrame(s) /\ at'[s] = "terminal"
    BY <1>0, <2>1, BlankType, MindFrame DEF SaysFailed, Aside
  <2> QED
    BY <1>0, <2>1, <2>2, SameLockFrame, AsidePart, FromFrames DEF Aside
<1>8. CASE Journal(s)
  BY <1>0, <1>8, GotoFrame, SameLockFrame, AsidePart, FromFrames DEF Journal, Aside
<1> QED
  BY <1>1, <1>2, <1>3, <1>4, <1>5, <1>6, <1>7, <1>8

LEMMA StrongOfEnding ==
  ASSUME TypeOK, Strong, NEW s \in Sessions,
         Terminal(s) \/ Look(s) \/ Save(s) \/ GiveUp(s) \/ SaveLast(s) \/ ReleaseLast(s)
  PROVE  Strong' /\ Frame(s)
<1>0. LocalOK /\ LockOK /\ OwnedIsRunning
  BY TypeParts DEF Strong
<1> USE PlacesAside
<1>1. CASE Terminal(s)
  <2>1. CASE MayRelease(row, s) /\ GivesBack(Released(Says(s))) /\ Over(s)
    BY <1>0, <2>1, ReleasedFrame, FinishedFrame, FromFrames DEF Over
  <2>2. CASE Goto(s, "look") /\ UNCHANGED <<lock, mind>>
    BY <1>0, <2>2, GotoFrame, SameLockFrame, AsidePart, FromFrames DEF Aside
  <2> QED
    BY <1>1, <2>1, <2>2 DEF Terminal
<1>2. CASE Look(s)
  <2>0. UNCHANGED lock
    BY <1>2 DEF Look
  <2>1. LocalFrame(s) /\ OwnPart(s)
    <3>1. CASE Goto(s, "save") /\ UNCHANGED mind
      BY <1>0, <3>1, GotoFrame, AsidePart DEF Aside
    <3>2. CASE Goto(s, "terminal") /\ SaysFailed(s)
      <4>1. LocalFrame(s) /\ at'[s] = "terminal"
        BY <1>0, <3>2, BlankType, MindFrame DEF SaysFailed, Aside
      <4> QED
        BY <4>1, AsidePart DEF Aside
    <3>3. CASE Failed(s)
      BY <1>0, <3>3, FinishedFrame
    <3> QED
      BY <1>2, <3>1, <3>2, <3>3 DEF Look
  <2> QED
    BY <1>0, <2>0, <2>1, SameLockFrame, FromFrames
<1>3. CASE Save(s)
  BY <1>0, <1>3, SavesFrame, FinishedFrame, FromFrames DEF Save, Over
<1>4. CASE GiveUp(s)
  <2>1. PICK there \in Aside : Goto(s, there)
    BY <1>4, Zenon DEF GiveUp, Aside
  <2> QED
    BY <1>0, <1>4, <2>1, GotoFrame, SameLockFrame, AsidePart, FromFrames DEF GiveUp
<1>5. CASE SaveLast(s)
  <2>1. row'.owner = row.owner /\ ousted' = ousted /\ overwritten' = (overwritten \/ row.owner # Nobody)
    BY <1>5 DEF SaveLast, Saved, Row
  <2>2. LockFrame(s) /\ OwnedIsRunning'
    BY <1>0, <2>1, NobodyAssumption DEF LockFrame, LockOK, OwnedIsRunning
  <2> QED
    BY <1>0, <1>5, <2>2, GotoFrame, AsidePart, FromFrames DEF SaveLast, Aside
<1>6. CASE ReleaseLast(s)
  <2>1. LockFrame(s) /\ OwnedIsRunning'
    BY <1>0, <1>6, ReleasedFrame, SameLockFrame DEF ReleaseLast
  <2> QED
    BY <1>0, <1>6, <2>1, GotoFrame, AsidePart, FromFrames DEF ReleaseLast, Aside
<1> QED
  BY <1>1, <1>2, <1>3, <1>4, <1>5, <1>6

LEMMA StrongOfBackfill ==
  ASSUME TypeOK, Strong, NEW s \in Sessions,
         Classify(s) \/ BackfillLoad(s) \/ BackfillWrite(s) \/ BackfillSave(s)
  PROVE  Strong' /\ Frame(s)
<1>0. LocalOK /\ LockOK /\ AreaOK /\ OwnedIsRunning
  BY TypeParts DEF Strong
<1> USE PlacesAside
<1>c. at[s] \in Evaluating => HasContent(mind[s].saw)
  BY DEF Strong, SawContent
<1>1. CASE Classify(s)
  <2>1. Goto(s, "bfLoad") /\ Keeps(s, Evaluated) /\ Evaluated \in Minds /\ UNCHANGED lock
    BY <1>0, <1>1, EvaluatedType DEF Classify
  <2>2. LocalFrame(s) /\ at'[s] = "bfLoad" /\ mind'[s] = Evaluated
    BY <1>0, <2>1, MindFrame
  <2>3. HasContent(Evaluated.saw)
    <3>1. Evaluated.saw = input
      BY DEF Evaluated, Blank
    <3> QED
      BY <1>0, <1>1, <3>1 DEF Classify, Evaluation, HasContent, AreaOK, Inputs
  <2> QED
    BY <1>0, <2>1, <2>2, <2>3, SameLockFrame, FromFrames DEF OwnPart, Working
<1>2. CASE BackfillLoad(s)
  <2> DEFINE thoughts == [mind[s] EXCEPT !.found = row]
  <2>1. thoughts \in Minds /\ thoughts.saw = mind[s].saw
    BY <1>0 DEF LocalOK, LockOK, Minds
  <2>2. Goto(s, "bfWrite") /\ Keeps(s, thoughts) /\ UNCHANGED lock /\ at[s] = "bfLoad"
    BY <1>2 DEF BackfillLoad
  <2> HIDE DEF thoughts
  <2>3. LocalFrame(s) /\ at'[s] = "bfWrite" /\ mind'[s] = thoughts
    BY <1>0, <2>1, <2>2, MindFrame
  <2>4. OwnPart(s)
    BY <1>c, <2>1, <2>2, <2>3 DEF OwnPart, Evaluating, Working
  <2> QED
    BY <1>0, <2>2, <2>3, <2>4, SameLockFrame, FromFrames
<1>3. CASE BackfillWrite(s)
  BY <1>0, <1>3, GotoFrame, SameLockFrame, AsidePart, FromFrames DEF BackfillWrite, Aside
<1>4. CASE BackfillSave(s)
  <2>1. LocalFrame(s) /\ OwnPart(s)
    <3>1. LocalFrame(s) /\ at'[s] = "idle"
      BY <1>0, <1>4, BlankType, MindFrame DEF BackfillSave, Aside
    <3> QED
      BY <3>1, AsidePart DEF Aside
  <2>2. CASE UNCHANGED lock
    BY <1>0, <2>1, <2>2, SameLockFrame, FromFrames
  <2>3. CASE ~UNCHANGED lock
    <3> DEFINE found == mind[s].found
               new == IF found.status = "absent" THEN Row("idle", Nobody) ELSE found
    <3>1. row' = Saved(row, new) /\ overwritten' = (overwritten \/ row # found) /\ UNCHANGED ousted
      BY <1>4, <2>3 DEF BackfillSave
    <3>2. found \in Rows /\ row \in Rows
      BY <1>0 DEF LocalOK, LockOK, Minds
    <3>3. new \in Rows
      BY <3>2, RowType
    <3>4. row' = [new EXCEPT !.owner = row.owner]
      BY <3>1 DEF Saved
    <3>5. row'.owner = row.owner /\ row'.status = new.status
      BY <3>3, <3>4 DEF Rows
    <3>6. row = found /\ row.owner # Nobody => row'.status = row.status
      BY <3>2, <3>5 DEF Rows
    <3>7. LockFrame(s)
      BY <1>0, <3>1, <3>5 DEF LockFrame, LockOK
    <3>8. OwnedIsRunning'
      BY <1>0, <3>1, <3>5, <3>6 DEF OwnedIsRunning, LockOK
    <3> QED
      BY <2>1, <3>7, <3>8, FromFrames
  <2> QED
    BY <2>2, <2>3
<1> QED
  BY <1>1, <1>2, <1>3, <1>4

LEMMA StrongOfExit ==
  ASSUME TypeOK, Strong, NEW s \in Sessions, Orphans(s) \/ Cancel(s) \/ Leave(s) \/ Die(s)
  PROVE  Strong' /\ Frame(s)
<1>0. LocalOK /\ LockOK /\ OwnedIsRunning
  BY TypeParts DEF Strong
<1> USE PlacesAside
<1>1. CASE Orphans(s)
  <2>1. LockFrame(s) /\ OwnedIsRunning'
    BY <1>0, <1>1, RowType, VacatedFrame, SameLockFrame DEF Orphans, NoRow, Row
  <2> QED
    BY <1>0, <1>1, <2>1, GotoFrame, AsidePart, FromFrames DEF Orphans, Aside
<1>2. CASE Cancel(s) \/ Die(s)
  <2>1. PICK there \in {"leave", "dead"} : Goto(s, there) /\ Keeps(s, Blank) /\ UNCHANGED lock
    BY <1>2 DEF Cancel, Die
  <2>2. LocalFrame(s) /\ at'[s] = there
    BY <1>0, <2>1, BlankType, MindFrame DEF Aside
  <2> QED
    BY <1>0, <2>1, <2>2, SameLockFrame, AsidePart, FromFrames DEF Aside
<1>3. CASE Leave(s)
  <2>1. LocalFrame(s) /\ at'[s] = "over"
    BY <1>0, <1>3, GotoFrame DEF Leave
  <2>2. CASE row.status = "running" /\ row.owner = s
    <3>1. row'.owner = Nobody /\ UNCHANGED ousted
      BY <1>3, <2>2 DEF Leave, ReleasedOnExit, Row
    <3>2. LockFrame(s) /\ OwnedIsRunning' /\ OwnPart(s)
      BY <2>1, <2>2, <3>1, NobodyAssumption DEF LockFrame, OwnedIsRunning, OwnPart, Evaluating, Working
    <3> QED
      BY <2>1, <3>2, FromFrames
  <2>3. CASE ~(row.status = "running" /\ row.owner = s)
    <3>1. row' = row /\ overwritten' = overwritten /\ UNCHANGED ousted
      BY <1>0, <1>3, <2>3 DEF Leave, ReleasedOnExit, LockOK
    <3>2. LockFrame(s) /\ OwnedIsRunning'
      BY <1>0, <3>1 DEF LockFrame, OwnedIsRunning
    <3>3. OwnPart(s)
      BY <1>0, <2>1, <2>3, <3>1, NobodyAssumption DEF OwnedIsRunning, OwnPart, Evaluating, Working
    <3> QED
      BY <2>1, <3>2, <3>3, FromFrames
  <2> QED
    BY <2>2, <2>3
<1> QED
  BY <1>1, <1>2, <1>3

LEMMA StrongOfOthers ==
  ASSUME TypeOK, Strong, Edit \/ GrowOld \/ AdoptBaseline \/ RebuildDb
  PROVE  Strong'
<1>0. LockOK /\ OwnedIsRunning
  BY TypeParts DEF Strong
<1>1. UNCHANGED <<at, mind>>
  BY DEF Edit, GrowOld, AdoptBaseline, RebuildDb, local
<1>2. CASE Edit
  BY <1>1, <1>2 DEF Edit, lock, Strong, OneWorker, SawContent, OwnedIsRunning, Taken
<1>3. CASE GrowOld \/ AdoptBaseline
  <2>1. /\ row'.owner = row.owner /\ ousted' = ousted
        /\ overwritten => overwritten'
        /\ row'.status # "running" /\ row.owner # Nobody => overwritten'
    <3>1. CASE GrowOld
      BY <1>0, <3>1 DEF GrowOld, LockOK, Rows
    <3>2. CASE AdoptBaseline
      BY <3>2 DEF AdoptBaseline, Saved, Row
    <3> QED
      BY <1>3, <3>1, <3>2
  <2> QED
    BY <1>0, <1>1, <2>1 DEF Strong, OneWorker, SawContent, OwnedIsRunning, Taken
<1>4. CASE RebuildDb
  <2>1. row'.owner = Nobody /\ ousted' = ousted \union ({row.owner} \ {Nobody})
    BY <1>4 DEF RebuildDb, Vacated, NoRow, Row
  <2>2. OneWorker'
    BY <1>1, <2>1, NobodyAssumption DEF Strong, OneWorker
  <2>3. SawContent' /\ OwnedIsRunning' /\ Taken'
    BY <1>1, <2>1, NobodyAssumption DEF Strong, SawContent, OwnedIsRunning, Taken
  <2> QED
    BY <2>2, <2>3 DEF Strong
<1> QED
  BY <1>2, <1>3, <1>4

-----------------------------------------------------------------------------
LEMMA InitStrong == Init => TypeOK /\ Strong
<1> SUFFICES ASSUME Init PROVE TypeOK /\ Strong
  OBVIOUS
<1>1. TypeOK
  <2>1. AreaOK
    BY FirstAssumption DEF Init, AreaOK, Inputs, Metas, NoMeta, Texts, Excuses
  <2>2. LockOK
    BY RowType DEF Init, LockOK
  <2>3. LocalOK
    BY BlankType, KindsAssumption DEF Init, LocalOK, Places
  <2>4. EventsOK
    BY EventsAssumption DEF Init, EventsOK
  <2> QED
    BY <2>1, <2>2, <2>3, <2>4, TypeParts
<1>2. Strong
  BY NobodyAssumption DEF Init, Strong, OneWorker, SawContent, OwnedIsRunning, Taken, NoRow, Row, Working, Evaluating
<1> QED
  BY <1>1, <1>2

LEMMA NextStrong == TypeOK /\ Strong /\ [Next]_vars => TypeOK' /\ Strong'
<1> SUFFICES ASSUME TypeOK, Strong, [Next]_vars PROVE TypeOK' /\ Strong'
  OBVIOUS
<1>0. SawContent
  BY DEF Strong
<1>1. CASE UNCHANGED vars
  BY <1>1 DEF vars, area, lock, local, TypeOK, Strong, OneWorker, SawContent, OwnedIsRunning, Taken
<1>2. CASE Next
  <2>1. CASE Edit \/ GrowOld \/ AdoptBaseline \/ RebuildDb
    BY <2>1, TypeOfOthers, StrongOfOthers
  <2>2. CASE \E s \in Sessions : Step(s) \/ Take(s) \/ Classify(s) \/ Start(s)
                                   \/ Raise(s) \/ SidecarFails(s) \/ Cancel(s) \/ Die(s)
    <3>1. PICK s \in Sessions : Step(s) \/ Take(s) \/ Classify(s) \/ Start(s)
                                  \/ Raise(s) \/ SidecarFails(s) \/ Cancel(s) \/ Die(s)
      BY <2>2
    <3>2. CASE Reclaim(s) \/ Reset(s) \/ AcquireFirst(s) \/ Start(s) \/ Take(s) \/ Evaluate(s) \/ Claim(s) \/ Raise(s)
      BY <3>2, TypeOfBegin, StrongOfBegin
    <3>3. CASE Cleanup(s) \/ Clean(s) \/ Unlock(s)
      BY <3>3, TypeOfCleanup, StrongOfCleanup
    <3>4. CASE Persist(s) \/ Release(s) \/ Plan(s) \/ Mark(s) \/ Invoke(s) \/ Journal(s) \/ Fail(s)
      BY <1>0, <3>4, TypeOfWork, StrongOfWork
    <3>5. CASE WriteSummary(s) \/ WriteSidecar(s) \/ SidecarFails(s)
      BY <1>0, <3>5, TypeOfCommit, StrongOfWork
    <3>6. CASE Terminal(s) \/ Look(s) \/ Save(s) \/ GiveUp(s) \/ SaveLast(s) \/ ReleaseLast(s)
      BY <3>6, TypeOfEnding, StrongOfEnding
    <3>7. CASE Classify(s) \/ BackfillLoad(s) \/ BackfillWrite(s) \/ BackfillSave(s)
      BY <1>0, <3>7, TypeOfBackfill, StrongOfBackfill
    <3>8. CASE Orphans(s) \/ Cancel(s) \/ Leave(s) \/ Die(s)
      BY <3>8, TypeOfExit, StrongOfExit
    <3> QED
      BY <3>1, <3>2, <3>3, <3>4, <3>5, <3>6, <3>7, <3>8 DEF Step
  <2> QED
    BY <1>2, <2>1, <2>2 DEF Next
<1> QED
  BY <1>1, <1>2

LEMMA SpecStrong == Spec => [](TypeOK /\ Strong)
<1>1. Init => TypeOK /\ Strong
  BY InitStrong
<1>2. (TypeOK /\ Strong) /\ [Next]_vars => (TypeOK /\ Strong)'
  BY NextStrong
<1> QED
  BY <1>1, <1>2, PTL DEF Spec

(* Every variable keeps its type: for any sessions, contents and events.   *)
THEOREM EngineTyped == Spec => []TypeOK
  BY SpecStrong, PTL

(* A session at work has the row, unless it was ousted (engine.py:244,     *)
(* runtime/repository.py:2520).                                            *)
THEOREM EngineHasOneWorker == Spec => []OneWorker
<1>1. Strong => OneWorker
  BY DEF Strong
<1> QED
  BY <1>1, SpecStrong, PTL

(* So two sessions work at an area only if one of them was ousted.         *)
THEOREM TwoWorkersMeansOusted ==
  Spec => [](\A s, t \in Sessions :
               s # t /\ at[s] \in Working /\ at[t] \in Working => s \in ousted \/ t \in ousted)
<1>1. OneWorker => \A s, t \in Sessions :
               s # t /\ at[s] \in Working /\ at[t] \in Working => s \in ousted \/ t \in ousted
  BY DEF OneWorker
<1> QED
  BY <1>1, EngineHasOneWorker, PTL

(* A session that is over, or dead, leaves a row that others may take now  *)
(* or once it is overdue, or one that was overwritten                      *)
(* (runtime/repository.py:2604).                                           *)
THEOREM EngineLeavesNothingTaken == Spec => []NothingStaysTaken
<1>1. Strong => NothingStaysTaken
  BY NobodyAssumption DEF Strong, Taken, OwnedIsRunning, NothingStaysTaken
<1> QED
  BY <1>1, SpecStrong, PTL

-----------------------------------------------------------------------------
(* The summary and its sidecar.                                            *)

SessionStep(s) ==
  Step(s) \/ Take(s) \/ Classify(s) \/ Start(s) \/ Raise(s) \/ SidecarFails(s) \/ Cancel(s) \/ Die(s)

LEMMA EveryFrame ==
  ASSUME TypeOK, Strong, NEW s \in Sessions, SessionStep(s)
  PROVE  Strong' /\ Frame(s)
<1>1. CASE Reclaim(s) \/ Reset(s) \/ AcquireFirst(s) \/ Start(s) \/ Take(s) \/ Evaluate(s) \/ Claim(s) \/ Raise(s)
  BY <1>1, StrongOfBegin
<1>2. CASE Cleanup(s) \/ Clean(s) \/ Unlock(s)
  BY <1>2, StrongOfCleanup
<1>3. CASE Persist(s) \/ Release(s) \/ Plan(s) \/ Mark(s) \/ Invoke(s) \/ WriteSummary(s)
             \/ WriteSidecar(s) \/ SidecarFails(s) \/ Journal(s) \/ Fail(s)
  BY <1>3, StrongOfWork
<1>4. CASE Terminal(s) \/ Look(s) \/ Save(s) \/ GiveUp(s) \/ SaveLast(s) \/ ReleaseLast(s)
  BY <1>4, StrongOfEnding
<1>5. CASE Classify(s) \/ BackfillLoad(s) \/ BackfillWrite(s) \/ BackfillSave(s)
  BY <1>5, StrongOfBackfill
<1>6. CASE Orphans(s) \/ Cancel(s) \/ Leave(s) \/ Die(s)
  BY <1>6, StrongOfExit
<1> QED
  BY <1>1, <1>2, <1>3, <1>4, <1>5, <1>6 DEF SessionStep, Step

(* Only Clean empties the summary; only a worker writes another one.       *)
LEMMA SummaryFrame ==
  ASSUME NEW s \in Sessions, SessionStep(s)
  PROVE  summary' \in {summary, Nothing} \/ (at[s] \in Working /\ UNCHANGED lock)
<1>1. CASE WriteSummary(s) \/ WriteSidecar(s) \/ SidecarFails(s)
  BY <1>1 DEF WriteSummary, WriteSidecar, SidecarFails, Working
<1>2. CASE Clean(s)
  BY <1>2 DEF Clean
<1>3. CASE Cleanup(s) \/ Persist(s) \/ BackfillWrite(s) \/ Die(s)
  BY <1>3 DEF Cleanup, Persist, BackfillWrite, Die
<1>4. CASE UNCHANGED area
  BY <1>4 DEF area
<1> QED
  BY <1>1, <1>2, <1>3, <1>4
     DEF SessionStep, Step, Take, Classify, Start, Raise, Cancel, Reclaim, Reset, AcquireFirst, Evaluate,
         Unlock, Claim, Release, Plan, Mark, Invoke, Journal, Fail, Terminal, Look, Save, GiveUp, SaveLast,
         ReleaseLast, BackfillLoad, BackfillSave, Orphans, Leave

LEMMA CommitOfStep ==
  ASSUME TypeOK, Strong, CommitIsOfOwn, NEW s \in Sessions, SessionStep(s)
  PROVE  CommitIsOfOwn'
<1> SUFFICES ASSUME NEW t \in Sessions, at'[t] = "sidecar", ousted' = {}, (~KeepsSummary(t))'
             PROVE  summary' \in {mind'[t].made, Nothing}
  BY DEF CommitIsOfOwn
<1>0. Strong' /\ Frame(s)
  BY EveryFrame
<1>1. row'.owner = t
  BY <1>0 DEF Strong, OneWorker, Working
<1>2. CASE t # s
  <2>1. at[t] = "sidecar" /\ mind'[t] = mind[t] /\ ousted = {} /\ row.owner = t
    BY <1>0, <1>1, <1>2 DEF Frame, LocalFrame, LockFrame
  <2>2. summary \in {mind[t].made, Nothing}
    BY <2>1 DEF CommitIsOfOwn, KeepsSummary
  <2>3. ~(at[s] \in Working)
    BY <1>2, <2>1 DEF Strong, OneWorker
  <2> QED
    BY <2>1, <2>2, <2>3, SummaryFrame
<1>3. CASE t = s
  <2>1. at[s] \in {"invoke", "summary"}
    BY <1>0, <1>3 DEF Frame, OwnPart
  <2>2. mind \in [Sessions -> Minds] /\ at \in [Sessions -> Places]
    BY DEF TypeOK
  <2>3. CASE WriteSummary(s)
    <3>1. mind'[s].made = mind[s].made
      BY <2>2, <2>3 DEF WriteSummary, Keeps, Minds
    <3> QED
      BY <1>3, <2>3, <3>1 DEF WriteSummary
  <2>4. CASE Invoke(s)
    <3>1. CASE Goto(s, "summary")
      BY <1>3, <2>2, <3>1 DEF Goto
    <3>2. CASE Keeps(s, [mind[s] EXCEPT !.outcome = "skipped_similarity"])
      <4>1. mind'[s].outcome = "skipped_similarity"
        BY <2>2, <3>2 DEF Keeps, Minds
      <4> QED
        BY <1>3, <4>1 DEF KeepsSummary
    <3> QED
      BY <2>4, <3>1, <3>2 DEF Invoke
  <2>5. ~Fail(s) /\ ~Cancel(s) /\ ~Die(s)
    <3>1. Goto(s, "terminal") \/ Goto(s, "leave") \/ Goto(s, "dead") => at'[s] # "sidecar"
      BY <2>2 DEF Goto
    <3> QED
      BY <1>3, <3>1 DEF Fail, Cancel, Die
  <2> QED
    BY <2>1, <2>3, <2>4, <2>5
       DEF SessionStep, Step, Take, Classify, Start, Raise, SidecarFails, Reclaim, Reset, AcquireFirst, Evaluate,
           Cleanup, Clean, Unlock, Claim, Persist, Release, Plan, Mark, WriteSidecar, Journal, Terminal, Look,
           Save, GiveUp, SaveLast, ReleaseLast, BackfillLoad, BackfillWrite, BackfillSave, Orphans, Leave
<1> QED
  BY <1>2, <1>3

(* A reason that is one keeps the property.                                *)
LEMMA ExcusedTells ==
  ASSUME SidecarTellsOfSummary, NEW why, why \notin {"none", "unexplained", "commit"}, Excused(why)
  PROVE  SidecarTellsOfSummary'
<1>1. Differs' => excuse' \notin {"none", "unexplained"}
  BY DEF Excused, SidecarTellsOfSummary
<1>2. excuse' # "commit"
  BY DEF Excused
<1> QED
  BY <1>1, <1>2 DEF SidecarTellsOfSummary

(* So does a step that is not of a session between summary and sidecar.    *)
LEMMA ElsewhereTells ==
  ASSUME SidecarTellsOfSummary, NEW s \in Sessions, LocalFrame(s), at[s] # "sidecar", UNCHANGED area
  PROVE  SidecarTellsOfSummary'
<1>1. Differs' <=> Differs
  BY DEF area, Differs
<1> QED
  BY <1>1 DEF area, SidecarTellsOfSummary, LocalFrame

LEMMA TellsOfStep ==
  ASSUME TypeOK, Strong, CommitIsOfOwn, SidecarTellsOfSummary, NEW s \in Sessions, SessionStep(s)
  PROVE  SidecarTellsOfSummary'
<1>0. LocalFrame(s)
  BY EveryFrame DEF Frame
<1>1. CASE Cleanup(s) \/ Clean(s) \/ BackfillWrite(s)
  <2>1. PICK why \in {"removed", "backfill"} : Excused(why)
    BY <1>1 DEF Cleanup, Clean, BackfillWrite
  <2> QED
    BY <2>1, ExcusedTells
<1>2. CASE Persist(s) \/ SidecarFails(s)
  <2>1. PICK why \in {"backfill", "ousted", "late", "restore"} : Excused(why)
    BY <1>2 DEF Persist, SidecarFails, Because
  <2> QED
    BY <2>1, ExcusedTells
<1>3. CASE WriteSummary(s)
  <2>1. at'[s] = "sidecar"
    BY <1>3 DEF WriteSummary, Goto, TypeOK
  <2>2. Differs' => excuse' \notin {"none", "unexplained"}
    BY <1>3 DEF WriteSummary, Excused, SidecarTellsOfSummary
  <2> QED
    BY <2>1, <2>2 DEF SidecarTellsOfSummary
<1>4. CASE WriteSidecar(s)
  <2>1. PICK why \in {"reread", "removed", "ousted", "late", "unexplained"} :
          /\ Excused(why)
          /\ why = "unexplained" =>
               /\ mind[s].made = mind[s].saw.content /\ summary # Nothing /\ ousted = {}
               /\ KeepsSummary(s) => summary = mind[s].old
    BY <1>4, Zenon DEF WriteSidecar, Because
  <2>2. CASE why # "unexplained"
    BY <2>1, <2>2, ExcusedTells
  <2>3. CASE why = "unexplained"
    <3>1. summary' = mind[s].made
      <4>1. CASE KeepsSummary(s)
        BY <1>4, <2>1, <2>3, <4>1 DEF WriteSidecar
      <4>2. CASE ~KeepsSummary(s)
        <5>1. summary \in {mind[s].made, Nothing}
          BY <1>4, <2>1, <2>3, <4>2 DEF WriteSidecar, CommitIsOfOwn
        <5> QED
          BY <1>4, <2>1, <2>3, <4>2, <5>1 DEF WriteSidecar
      <4> QED
        BY <4>1, <4>2
    <3>2. ~Differs'
      BY <1>4, <2>1, <2>3, <3>1 DEF WriteSidecar, Differs
    <3>3. excuse' = "none"
      BY <2>1, <3>2 DEF Excused
    <3> QED
      BY <3>2, <3>3 DEF SidecarTellsOfSummary
  <2> QED
    BY <2>2, <2>3
<1>5. CASE Die(s)
  <2>1. Differs' <=> Differs
    BY <1>5 DEF Die, Differs
  <2>2. excuse' = IF excuse = "commit" /\ at[s] = "sidecar" THEN "died" ELSE excuse
    BY <1>5 DEF Die
  <2> QED
    BY <1>0, <2>1, <2>2 DEF SidecarTellsOfSummary, LocalFrame
<1>6. CASE ~(Cleanup(s) \/ Clean(s) \/ BackfillWrite(s) \/ Persist(s) \/ SidecarFails(s)
               \/ WriteSummary(s) \/ WriteSidecar(s) \/ Die(s))
  <2>1. UNCHANGED area /\ at[s] # "sidecar"
    BY <1>6
       DEF SessionStep, Step, Take, Classify, Start, Raise, Cancel, Reclaim, Reset, AcquireFirst, Evaluate,
           Unlock, Claim, Release, Plan, Mark, Invoke, Journal, Fail, Terminal, Look, Save, GiveUp, SaveLast,
           ReleaseLast, BackfillLoad, BackfillSave, Orphans, Leave
  <2> QED
    BY <1>0, <2>1, ElsewhereTells
<1> QED
  BY <1>1, <1>2, <1>3, <1>4, <1>5, <1>6

LEMMA TellsOfOthers ==
  ASSUME TypeOK, SidecarTellsOfSummary, CommitIsOfOwn, Edit \/ GrowOld \/ AdoptBaseline \/ RebuildDb
  PROVE  SidecarTellsOfSummary' /\ CommitIsOfOwn'
<1>1. at' = at /\ mind' = mind
  BY DEF Edit, GrowOld, AdoptBaseline, RebuildDb, local
<1>2. ousted \subseteq ousted' /\ summary' \in {summary, Nothing}
  BY DEF Edit, GrowOld, AdoptBaseline, RebuildDb, lock, area, Vacated
<1>3. CommitIsOfOwn'
  BY <1>1, <1>2 DEF CommitIsOfOwn, KeepsSummary
<1>4. CASE Edit /\ input'.content = "missing"
  BY <1>3, <1>4 DEF Edit, SidecarTellsOfSummary, Differs, NoMeta
<1>5. CASE UNCHANGED <<meta, summary, excuse>>
  BY <1>1, <1>3, <1>5 DEF SidecarTellsOfSummary, Differs
<1>6. CASE AdoptBaseline
  BY <1>3, <1>6, ExcusedTells DEF AdoptBaseline
<1> QED
  BY <1>4, <1>5, <1>6 DEF Edit, GrowOld, RebuildDb, area

(* The sidecar speaks of the summary beside it, or one of the excuses      *)
(* holds: for any sessions, contents and events (brain/repository.py:941). *)
THEOREM EngineSidecarTellsOfSummary == Spec => []SidecarTellsOfSummary
<1> DEFINE IInv == TypeOK /\ Strong /\ CommitIsOfOwn /\ SidecarTellsOfSummary
<1>1. Init => IInv
  <2> SUFFICES ASSUME Init PROVE CommitIsOfOwn /\ SidecarTellsOfSummary
    BY InitStrong
  <2> QED
    BY DEF Init, CommitIsOfOwn, SidecarTellsOfSummary, Differs
<1>2. IInv /\ [Next]_vars => IInv'
  <2> SUFFICES ASSUME IInv, [Next]_vars PROVE CommitIsOfOwn' /\ SidecarTellsOfSummary'
    BY NextStrong
  <2>1. CASE UNCHANGED vars
    BY <2>1 DEF vars, area, lock, local, CommitIsOfOwn, SidecarTellsOfSummary, KeepsSummary, Differs
  <2>2. CASE Edit \/ GrowOld \/ AdoptBaseline \/ RebuildDb
    BY <2>2, TellsOfOthers
  <2>3. CASE \E s \in Sessions : SessionStep(s)
    BY <2>3, CommitOfStep, TellsOfStep
  <2> QED
    BY <2>1, <2>2, <2>3 DEF Next, SessionStep
<1> QED
  BY <1>1, <1>2, PTL DEF Spec

=============================================================================

--------------------------- MODULE PreparedCommit ---------------------------
(***************************************************************************)
(* Committing a fetched source to its area: process_prepared_source        *)
(* (sync/lifecycle.py) with the writes of brain/repository.py it calls.    *)
(* Attachments of the layouts before brain.json are moved to the managed   *)
(* directory, the downloaded ones are written beside them, the text and    *)
(* the manifest follow, and what raises on the way undoes what came before.*)
(* A content is named for where it lay at first, or "new".                 *)
(***************************************************************************)
EXTENDS Integers, Sequences, FiniteSets, SequencesExt

CONSTANTS Names,      \* names of attachments
          Areas0,     \* areas a commit may find
          MaxPolls,   \* bound on the polls
          MaxFaults   \* bound on the calls that raise and the deaths

Stores == {"managed", "context", "bare"}
Absent == "absent"

\* What a store holds under a name, and an area.
Stored == Stores \cup {Absent, "new"}
Area == [files : [Stores -> [Names -> Stored]], managedDir : BOOLEAN, others : BOOLEAN,
         nested : BOOLEAN, confluence : BOOLEAN, double : BOOLEAN, refers : BOOLEAN,
         text : {Absent, "old", "new"}, manifest : {"none", "stale", "materialized"}]

(* Finitely many attachments, whose contents are named for where they lay. *)
ASSUME CommitAssumption == IsFiniteSet(Names) /\ Areas0 \subseteq Area

VARIABLES area,   \* the source's files there, its manifest, and what else lies beside them
          commit, \* how far the commit has come, and what it would undo
          polls,  \* polls so far
          faults  \* faults so far

commitVars == <<area, commit, polls, faults>>

\* No commit is under way.
NoCommit == [at |-> "idle", before |-> <<>>, staged |-> <<>>, moved |-> <<>>, written |-> <<>>,
             replaced |-> FALSE, halfMoved |-> FALSE, denied |-> FALSE, stuck |-> FALSE, wanted |-> {},
             named |-> FALSE]

CommitInit == /\ area \in Areas0
              /\ commit = NoCommit
              /\ polls = 0
              /\ faults = 0

In(store) == {n \in Names : area.files[store][n] # Absent}
Goes(from, to) == commit.at = from /\ commit' = [commit EXCEPT !.at = to]

-----------------------------------------------------------------------------
\* prepare_source_sync asks the source again unless it is unchanged and its file and its state
\* are in order; the directory of the attachments is missed only when there is none at all.
ContextMissing == area.refers /\ ~ area.managedDir
FileThere == area.text # Absent \/ area.double
Skips(unchanged) == /\ unchanged
                    /\ IF FileThere THEN ~ ContextMissing /\ area.manifest = "materialized"
                       ELSE area.manifest # "stale"

Skip == /\ commit.at \in {"idle", "done", "raised"} /\ polls < MaxPolls
        /\ Skips(TRUE)
        /\ polls' = polls + 1
        /\ commit' = NoCommit
        /\ UNCHANGED <<area, faults>>

\* Every attachment is downloaded; one that fails is left out.
Downloads == SetToAllKPermutations(Names)

\* The text names what was asked for, whether or not it came.
Prepare == /\ commit.at \in {"idle", "done", "raised"} /\ polls < MaxPolls
           /\ polls' = polls + 1
           /\ \E staged \in Downloads :
                \E named \in BOOLEAN :
                /\ staged # <<>> => named
                /\ commit' = [NoCommit EXCEPT !.at = CASE staged = <<>> -> "text"
                                                      [] staged # <<>> /\ area.confluence -> "context"
                                                      [] OTHER -> "attach",
                                              !.before = area, !.staged = staged,
                                              !.wanted = ToSet(staged), !.named = named]
           /\ UNCHANGED <<area, faults>>

-----------------------------------------------------------------------------
\* shutil.move replaces a file of that name in the managed directory.
WithMoved(store, n) == [area EXCEPT !.files[store][n] = Absent,
                                    !.files["managed"][n] = area.files[store][n],
                                    !.managedDir = TRUE]

MoveLegacy == /\ commit.at \in {"context", "bare"}
              /\ \E n \in In(commit.at) :
                   /\ area' = WithMoved(commit.at, n)
                   /\ commit' = [commit EXCEPT !.moved = Append(@, [from |-> commit.at, name |-> n]),
                                               !.replaced = @ \/ n \in In("managed")]
              /\ UNCHANGED <<polls, faults>>

\* The directory is removed with whatever else is in it.
RemoveContext == /\ Goes("context", "bare") /\ In("context") = {}
                 /\ area' = [area EXCEPT !.others = FALSE, !.managedDir = TRUE]
                 /\ UNCHANGED <<polls, faults>>

\* Only the migration knows what it moved until it returns.
RemoveBare == /\ commit.at = "bare" /\ In("bare") = {}
              /\ commit' = IF area.nested
                             THEN [commit EXCEPT !.at = "raised", !.halfMoved = @ \/ commit.moved # <<>>]
                             ELSE [commit EXCEPT !.at = "attach"]
              /\ UNCHANGED <<area, polls, faults>>

MigrationRaises == /\ commit.at \in {"context", "bare"}
                   /\ faults < MaxFaults /\ faults' = faults + 1
                   /\ commit' = [commit EXCEPT !.at = "raised", !.halfMoved = @ \/ commit.moved # <<>>]
                   /\ UNCHANGED <<area, polls>>

WithAttachment(n) == [area EXCEPT !.files["managed"][n] = "new", !.managedDir = TRUE]

\* write_attachment_bytes_with_rollback keeps what it replaces.
WriteAttachment ==
    /\ commit.at = "attach" /\ commit.staged # <<>>
    /\ LET n == Head(commit.staged)
       IN  /\ area' = WithAttachment(n)
           /\ commit' = [commit EXCEPT !.staged = Tail(@),
                                       !.written = Append(@, [name |-> n, was |-> area.files["managed"][n]])]
    /\ UNCHANGED <<polls, faults>>

Attached == Goes("attach", "text") /\ commit.staged = <<>> /\ UNCHANGED <<area, polls, faults>>

\* materialize_markdown: the text, then other files of the source in the area, then the manifest.
WriteText == /\ Goes("text", "double")
             /\ area' = [area EXCEPT !.text = "new", !.refers = commit.named]
             /\ UNCHANGED <<polls, faults>>

\* A file another program holds open stays.
RemoveDouble == /\ Goes("double", "manifest")
                /\ area' \in {area, [area EXCEPT !.double = FALSE]}
                /\ UNCHANGED <<polls, faults>>

WriteManifest == /\ Goes("manifest", "done")
                 /\ area' = [area EXCEPT !.manifest = IF @ = "none" THEN @ ELSE "materialized"]
                 /\ UNCHANGED <<polls, faults>>

-----------------------------------------------------------------------------
\* What materialize_markdown restores before it raises; a refused permission is raised at once.
TextRestored == [area EXCEPT !.text = commit.before.text, !.refers = commit.before.refers,
                             !.double = commit.before.double]

WriteRaises ==
    /\ commit.at \in {"attach", "text", "double", "manifest"}
    /\ faults < MaxFaults /\ faults' = faults + 1
    /\ \E denied \in IF commit.at = "attach" THEN {FALSE} ELSE BOOLEAN :
         /\ area' = IF denied THEN area ELSE TextRestored
         /\ commit' = [commit EXCEPT !.at = "undo", !.denied = denied]
    /\ UNCHANGED polls

\* A mutated form: the moves are taken back first.
UndoOrderSwapped == IF commit.moved # <<>> THEN "move" ELSE IF commit.written # <<>> THEN "write" ELSE "none"

\* The written files first, then the moved ones, each the last first.
UndoOrder == IF commit.written # <<>> THEN "write" ELSE IF commit.moved # <<>> THEN "move" ELSE "none"

UndoWrite == /\ commit.at = "undo" /\ UndoOrder = "write"
             /\ LET last == Last(commit.written)
                IN  area' = [area EXCEPT !.files["managed"][last.name] = last.was]
             /\ commit' = [commit EXCEPT !.written = Front(@)]
             /\ UNCHANGED <<polls, faults>>

UndoMove ==
    /\ commit.at = "undo" /\ UndoOrder = "move"
    /\ LET last == Last(commit.moved)
       IN  area' = IF last.name \notin In("managed") THEN area
                   ELSE [area EXCEPT !.files["managed"][last.name] = Absent,
                                     !.files[last.from][last.name] = area.files["managed"][last.name]]
    /\ commit' = [commit EXCEPT !.moved = Front(@)]
    /\ UNCHANGED <<polls, faults>>

Undone == Goes("undo", "raised") /\ UndoOrder = "none" /\ UNCHANGED <<area, polls, faults>>

\* An undo that raises leaves the rest.
UndoRaises == /\ commit.at = "undo" /\ UndoOrder # "none"
              /\ faults < MaxFaults /\ faults' = faults + 1
              /\ commit' = [commit EXCEPT !.at = "raised", !.stuck = TRUE]
              /\ UNCHANGED <<area, polls>>

\* The process ends: nothing is undone, and the next poll starts from there.
CommitDies == /\ commit.at \notin {"idle", "done", "raised"}
              /\ faults < MaxFaults /\ faults' = faults + 1
              /\ commit' = NoCommit
              /\ UNCHANGED <<area, polls>>

CommitNext == \/ Skip \/ Prepare \/ MoveLegacy \/ RemoveContext \/ RemoveBare \/ MigrationRaises
              \/ WriteAttachment \/ Attached \/ WriteText \/ RemoveDouble \/ WriteManifest
              \/ WriteRaises \/ UndoWrite \/ UndoMove \/ Undone \/ UndoRaises \/ CommitDies

-----------------------------------------------------------------------------
\* A commit that ends has every attachment it downloaded, and one that raises has changed no file,
\* except for what the code cannot take back: a migration that raised itself, the other files of
\* _sync-context, a file that a moved one replaced, a text it was refused to restore, an undo that raised.
CommitIsAllOrNothing ==
    /\ commit.at = "done" => \A n \in commit.wanted : area.files["managed"][n] = "new"
    /\ commit.at = "raised" /\ ~ commit.halfMoved /\ ~ commit.stuck =>
         /\ ~ commit.replaced => area.files = commit.before.files
         /\ ~ commit.denied => <<area.text, area.double, area.manifest>>
                                 = <<commit.before.text, commit.before.double, commit.before.manifest>>

=============================================================================

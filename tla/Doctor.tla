------------------------------- MODULE Doctor -------------------------------
(***************************************************************************)
(* doctor --fix (application/doctor.py): one scan makes a list of findings *)
(* and the fixes are applied in its order, each with the manifests and the *)
(* identity index the scan read, though the fixes before it have changed   *)
(* both.  A fix that raises is passed over; the doctor may die and be      *)
(* called again.  Of reconcile_sources only what the findings depend on is *)
(* kept; findings that no fix takes up are left out.                       *)
(***************************************************************************)
EXTENDS Integers, Sequences, FiniteSets, SequencesExt

CONSTANTS Places,    \* paths of files, numbered as a walk of the tree meets them
          PrefixOf,  \* the source whose prefix the name of a file has
          Worlds,    \* brains a doctor may be called for
          MaxRounds, \* bound on the calls
          MaxHitches \* bound on the fixes that raise and the deaths

NoPlace == 0
NoFile == -1
Anonymous == 0
GoneRow == 1  \* a regen_locks row of an area that is gone
BadRow == 2   \* and one with a path that leaves the tree
Sources == 1 .. 2

\* A manifest, and a brain with the rows: whose identity each file has, if there is a file.
DoctorManifest == [st : {"none", "awaiting", "materialized", "stale", "missing"},
                   path : Places \cup {NoPlace}, hash : BOOLEAN]
Brain == [json : BOOLEAN, man : [Sources -> DoctorManifest], id : [Places -> Sources \cup {NoFile, Anonymous}],
          polled : SUBSET Sources, leased : SUBSET Sources, dirs : SUBSET Sources, journal : BOOLEAN,
          rows : SUBSET {GoneRow, BadRow}]

(* A walk of the tree meets finitely many files, and numbers them.         *)
ASSUME DoctorAssumption ==
    IsFiniteSet(Places) /\ Places = 1 .. Cardinality(Places) /\ Worlds \subseteq Brain

VARIABLES world,   \* the brain and its runtime rows, as far as the doctor looks
          visit,   \* what the doctor read, the findings left, and those it marked as fixed
          rounds,  \* calls so far
          hitches  \* fixes that raised and deaths so far

doctorVars == <<world, visit, rounds, hitches>>

NoVisit == [at |-> "away", man |-> <<>>, index |-> <<>>, findings |-> <<>>, fixed |-> {}]

DoctorInit == world \in Worlds /\ visit = NoVisit /\ rounds = 0 /\ hitches = 0

Lowest(S) == CHOOSE p \in S : \A q \in S : p <= q
Highest(S) == CHOOSE p \in S : \A q \in S : p >= q

Registered(w) == {s \in Sources : w.man[s].st # "none"}
FilesOf(w, s) == {p \in Places : w.id[p] = s}

\* _build_identity_index: of two files with one identity the last stays.
IdentityIndex(w) == [s \in Sources |-> IF FilesOf(w, s) = {} THEN NoPlace ELSE Highest(FilesOf(w, s))]
NoIndex == [s \in Sources |-> NoPlace]

IsFile(w, p) == p \in Places /\ w.id[p] # NoFile
Named(w, s) == {p \in Places : IsFile(w, p) /\ PrefixOf[p] = s}

\* BrainRepository.resolve_source_file: any file at the manifest's path will do.
PlaceOf(w, m, s, index) ==
    CASE IsFile(w, m.path) -> m.path
      [] ~ IsFile(w, m.path) /\ IsFile(w, index[s]) -> index[s]
      [] ~ IsFile(w, m.path) /\ ~ IsFile(w, index[s]) /\ FilesOf(w, s) # {} -> Lowest(FilesOf(w, s))
      [] ~ IsFile(w, m.path) /\ ~ IsFile(w, index[s]) /\ FilesOf(w, s) = {} /\ Named(w, s) # {} ->
           Lowest(Named(w, s))
      [] OTHER -> NoPlace

-----------------------------------------------------------------------------
\* The checks that have a fix, in their order.
Moved(w) == {s \in Registered(w) : /\ w.man[s].st # "missing"
                                   /\ PlaceOf(w, w.man[s], s, IdentityIndex(w)) \notin {NoPlace, w.man[s].path}}
Misnamed(w) == {s \in Registered(w) : LET p == PlaceOf(w, w.man[s], s, IdentityIndex(w))
                                      IN  /\ w.man[s].st \in {"materialized", "stale"}
                                          /\ p # NoPlace /\ w.id[p] # s}

OrphanDirs(w) == w.dirs \ Registered(w)
OrphanPolls(w) == w.polled \ Registered(w)
OldJournals(w) == IF w.journal THEN {1} ELSE {}
RowsOfNoArea(w) == w.rows
RowsOfBadPath(w) == w.rows \cap {BadRow}
BadManifest(w) == IF w.json THEN {} ELSE {1}

ListedIf(check, n, found) == IF n \in found THEN <<[check |-> check, of |-> n]>> ELSE <<>>
Listed(check, found) == ListedIf(check, 1, found) \o ListedIf(check, 2, found)

Findings(w) == Listed("brain_manifest", BadManifest(w))
                 \o Listed("manifest_file_match", Moved(w))
                 \o Listed("identity_headers", Misnamed(w))
                 \o Listed("orphan_attachments", OrphanDirs(w))
                 \o Listed("db_source_consistency", OrphanPolls(w))
                 \o Listed("legacy_journal_layout", OldJournals(w))
                 \o Listed("orphan_insight_state_rows", RowsOfNoArea(w))
                 \o Listed("db_path_normalization", RowsOfBadPath(w))

-----------------------------------------------------------------------------
\* reconcile_sources, as far as the findings see it.

\* A mutated form: only a missing source gets the path where its file is.
SyncedMissingOnly(m, p) == IF m.st = "missing" THEN [m EXCEPT !.path = p, !.st = "stale"] ELSE m

Synced(m, p) == [m EXCEPT !.path = p,
                          !.st = IF m.st = "missing" \/ (m.path # p /\ m.st # "awaiting") THEN "stale" ELSE @]

NotDone(w) == [world |-> w, updated |-> {}, notFound |-> {}, raised |-> FALSE]

\* One source: a leased one is passed over, and a source that never had content cannot come back.
ReconciledOne(done, s) ==
    LET w == done.world
        m == w.man[s]
        p == PlaceOf(w, m, s, NoIndex)
    IN  CASE done.raised \/ s \notin Registered(w) \/ s \in w.leased
               \/ (p = NoPlace /\ m.st = "awaiting") -> done
          [] OTHER ->
               IF p = NoPlace
                 THEN [done EXCEPT !.world.man[s].st = "missing", !.world.polled = @ \ {s},
                                   !.notFound = @ \cup {s}]
               ELSE IF m.st = "missing" /\ ~ m.hash THEN [done EXCEPT !.raised = TRUE]
               ELSE [done EXCEPT !.world.man[s] = Synced(m, p),
                                 !.world.polled = @ \cup (IF m.st = "missing" THEN {s} ELSE {}),
                                 !.updated = @ \cup (IF m.st # "missing" /\ p # m.path THEN {s} ELSE {})]

Reconciled(w) ==
    LET done == ReconciledOne(ReconciledOne(NotDone(w), 1), 2)
    IN  IF done.raised THEN done ELSE [done EXCEPT !.world.polled = @ \cap Registered(done.world)]

-----------------------------------------------------------------------------
\* What a fix leaves, and whether it is marked as applied.
Outcome(w, applied) == [world |-> w, applied |-> applied]

\* The header goes over whatever the file has.
IdentityRewritten(p, s) == IF p = NoPlace THEN Outcome(world, FALSE) ELSE Outcome([world EXCEPT !.id[p] = s], TRUE)

DirRemoved(s) == Outcome([world EXCEPT !.dirs = @ \ {s}], s \in world.dirs)

PollingDropped(s) == Outcome([world EXCEPT !.polled = @ \ {s}], TRUE)

JournalHealed == Outcome([world EXCEPT !.journal = FALSE], world.journal)

\* The repository refuses a path that leaves the tree.
RowDeleted(row) == IF row = BadRow THEN Outcome(world, FALSE) ELSE Outcome([world EXCEPT !.rows = @ \ {row}], TRUE)

\* A rewrite under the normalized path, which is the same.
PathNormalized == Outcome(world, TRUE)

Repaired(s) == LET r == Reconciled(world)
               IN  Outcome(r.world, ~ r.raised /\ (s \in r.updated \/ s \notin r.notFound))

Fixed(f) ==
    CASE f.check = "brain_manifest" -> Outcome([world EXCEPT !.json = TRUE], TRUE)
      [] f.check = "manifest_file_match" -> Repaired(f.of)
      [] f.check = "identity_headers" -> IdentityRewritten(PlaceOf(world, visit.man[f.of], f.of, visit.index), f.of)
      [] f.check = "orphan_attachments" -> DirRemoved(f.of)
      [] f.check = "db_source_consistency" -> PollingDropped(f.of)
      [] f.check = "legacy_journal_layout" -> JournalHealed
      [] f.check = "orphan_insight_state_rows" -> RowDeleted(f.of)
      [] f.check = "db_path_normalization" -> PathNormalized

Scan == /\ visit.at = "away" /\ rounds < MaxRounds
        /\ rounds' = rounds + 1
        /\ visit' = [at |-> "fixing", man |-> world.man, index |-> IdentityIndex(world),
                     findings |-> Findings(world), fixed |-> {}]
        /\ UNCHANGED <<world, hitches>>

Fix == /\ visit.at = "fixing" /\ visit.findings # <<>>
       /\ LET f == Head(visit.findings)
              left == Fixed(f)
          IN  /\ world' = left.world
              /\ visit' = [visit EXCEPT !.findings = Tail(@),
                                        !.fixed = @ \cup (IF left.applied THEN {f} ELSE {})]
       /\ UNCHANGED <<rounds, hitches>>

\* A fix raises; a reconcile may have come past the first source by then.
FixRaises == /\ visit.at = "fixing" /\ visit.findings # <<>>
             /\ hitches < MaxHitches /\ hitches' = hitches + 1
             /\ visit' = [visit EXCEPT !.findings = Tail(@)]
             /\ \/ UNCHANGED world
                \/ /\ Head(visit.findings).check = "manifest_file_match"
                   /\ world' = ReconciledOne(NotDone(world), 1).world
             /\ UNCHANGED rounds

Leaves == /\ visit.at = "fixing" /\ visit.findings = <<>>
          /\ visit' = [visit EXCEPT !.at = "away"]
          /\ UNCHANGED <<world, rounds, hitches>>

DoctorDies == /\ visit.at = "fixing" /\ visit.findings # <<>>
              /\ hitches < MaxHitches /\ hitches' = hitches + 1
              /\ visit' = [visit EXCEPT !.at = "away"]
              /\ UNCHANGED <<world, rounds>>

DoctorNext == Scan \/ Fix \/ FixRaises \/ Leaves \/ DoctorDies

-----------------------------------------------------------------------------
\* Two registered sources take one file for theirs: each rewrite takes it from the other.
Contested(f) == /\ f.check = "identity_headers"
                /\ \E s \in Registered(world) \ {f.of} :
                     PlaceOf(world, world.man[s], s, NoIndex) = PlaceOf(world, world.man[f.of], f.of, NoIndex)

\* A reconcile that passes a leased source over counts as a fix of it.
PassedOver(f) == f.check = "manifest_file_match" /\ f.of \in world.leased

\* What was marked as fixed, by fixes that work from what the scan read, the next scan does not
\* find again; a bad path of a row is the exception that is only ever marked.
FixedStaysFixed ==
    [][Scan => \A f \in visit.fixed \cap ToSet(Findings(world)) :
                  Contested(f) \/ PassedOver(f) \/ f.check = "db_path_normalization"]_doctorVars

=============================================================================

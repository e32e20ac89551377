---------------------------- MODULE RuntimeSchema ----------------------------
(***************************************************************************)
(* Opening the runtime database: _connect, _initialize_runtime_db,         *)
(* _migrate_runtime_db and _reset_runtime_db of runtime/repository.py.     *)
(* Every process that opens the database finds out what it is and creates, *)
(* upgrades or throws away what it finds.  sqlite commits each DDL script  *)
(* at once; an INSERT opens a transaction that the step's commit ends.     *)
(* A file is a member of Files; the one at the path is `file`, and a       *)
(* process keeps the file it opened even after another unlinked it.        *)
(***************************************************************************)
EXTENDS Integers, Sequences, FiniteSets

CONSTANTS Openers,       \* processes that open the database
          MaxOpens,      \* bound on the opens of all processes
          MaxDeaths,     \* bound on the processes that die on the way
          FirstVersions, \* versions a database may have at the start
          NoVersion      \* meta without a schema_version

(* Finitely many processes; a schema version is a number, its absence none. *)
ASSUME SchemaAssumption ==
    IsFiniteSet(Openers) /\ FirstVersions \subseteq Nat /\ NoVersion \notin Nat

VARIABLES file,       \* the database file at the path, 0 if none
          disk,       \* what each file holds
          doing,      \* where each process is in _connect
          opened,     \* the file each process opened
          seen,       \* the table names it read
          at,         \* the version it migrates from, or its place in the creation
          opens,      \* opens so far
          deaths,     \* deaths so far
          overlapped  \* a file was upgraded while another process was opening or using it

schemaVars == <<file, disk, doing, opened, seen, at, opens, deaths, overlapped>>

SCHEMA_VERSION == 30
Allowed == {"meta", "sync_polling", "source_lifecycle_runtime", "regen_locks",
            "token_events", "child_discovery_requests", "operational_events"}
Legacy == "source_lifecycle_runtime_v28_legacy"
Files == 1 .. Cardinality(Openers) + 1
Empty == [version |-> NoVersion, tables |-> {}, remote |-> FALSE, polled |-> FALSE, rows |-> FALSE]

\* The tables of a database of each schema version, read from the upgrades back.
TablesOf(v) ==
    {"meta", "regen_locks", "token_events"}
      \cup (IF v < 26 THEN {"sync_cache"} ELSE {"sync_polling"})
      \cup (IF v > 23 THEN {"child_discovery_requests"} ELSE {})
      \cup (IF v > 24 THEN {"operational_events"} ELSE {})
      \cup (IF v > 26 THEN {"source_lifecycle_runtime"} ELSE {})

\* A database with rows, as a released version left it, and the polling rows of before v30.
Left(v) == [version |-> v, tables |-> TablesOf(v), remote |-> v > 29, polled |-> v < 30, rows |-> v \in 23 .. 30]

FirstFiles == {Left(v) : v \in FirstVersions}
                \cup {[Left(25) EXCEPT !.tables = @ \cup {"path_observations"}, !.rows = FALSE],
                      [Left(30) EXCEPT !.tables = @ \cup {"path_observations"}, !.rows = FALSE],
                      [Left(30) EXCEPT !.version = NoVersion, !.rows = FALSE]}

SchemaInit == /\ \/ file = 0 /\ disk = [f \in Files |-> Empty]
                 \/ file = 1 /\ \E d \in FirstFiles : disk = [[f \in Files |-> Empty] EXCEPT ![1] = d]
              /\ doing = [p \in Openers |-> "away"]
              /\ opened = [p \in Openers |-> 0]
              /\ seen = [p \in Openers |-> {}]
              /\ at = [p \in Openers |-> 0]
              /\ opens = 0
              /\ deaths = 0
              /\ overlapped = FALSE

\* CREATE TABLE IF NOT EXISTS; sync_polling is created with its last column.
Created(d, t) == [d EXCEPT !.tables = @ \cup {t},
                           !.remote = @ \/ (t = "sync_polling" /\ t \notin d.tables)]

\* The scripts of these tables create their indexes without IF NOT EXISTS and raise the second time.
Raises(d, t) == t \in {"token_events", "operational_events"} /\ t \in d.tables

Creation == <<"meta", "sync_polling", "source_lifecycle_runtime", "regen_locks",
              "token_events", "child_discovery_requests", "operational_events">>

Script == [v \in {23, 24, 25, 26} |->
             CASE v = 23 -> "child_discovery_requests" [] v = 24 -> "operational_events"
               [] v = 25 -> "sync_polling" [] v = 26 -> "source_lifecycle_runtime"]

-----------------------------------------------------------------------------
Here(p) == disk[opened[p]]
Step(p, from, to) == doing[p] = from /\ doing' = [doing EXCEPT ![p] = to]
Held == {file} \cup {opened[p] : p \in Openers}

\* sqlite3.connect makes the file when there is none.
Open(p) == /\ \/ Step(p, "away", "tables") /\ opens < MaxOpens /\ opens' = opens + 1
              \/ Step(p, "again", "tables") /\ opens' = opens
           /\ IF file # 0
                THEN opened' = [opened EXCEPT ![p] = file] /\ UNCHANGED <<file, disk>>
                ELSE LET f == CHOOSE g \in Files : g \notin Held
                     IN  /\ file' = f
                         /\ opened' = [opened EXCEPT ![p] = f]
                         /\ disk' = [disk EXCEPT ![f] = Empty]
           /\ UNCHANGED <<seen, at, deaths, overlapped>>

LookAtTables(p) ==
    /\ Step(p, "tables", IF "meta" \in Here(p).tables THEN "version" ELSE "create")
    /\ seen' = [seen EXCEPT ![p] = Here(p).tables]
    /\ at' = [at EXCEPT ![p] = 1]
    /\ UNCHANGED <<file, disk, opened, opens, deaths, overlapped>>

\* A mutated form: the table of before v26 is as unexpected in a database of before v26.
ExpectedOfNow(v) == Allowed

\* The table names were read before the version: another process may have moved both on since.
Expected(v) == Allowed \cup (IF v \in {23, 24, 25} THEN {"sync_cache"} ELSE {})
Verdict(v, tables) ==
    IF v = NoVersion \/ ~ tables \subseteq Expected(v) THEN "reset"
    ELSE IF v = SCHEMA_VERSION THEN "open"
    ELSE IF v \in 23 .. 29 THEN "script" ELSE "reset"

LookAtVersion(p) ==
    /\ Step(p, "version", Verdict(Here(p).version, seen[p]))
    /\ at' = [at EXCEPT ![p] = Here(p).version]
    /\ UNCHANGED <<file, disk, opened, seen, opens, deaths, overlapped>>

\* The database is unlinked with its -wal and -shm: whichever is at the path by now.
Reset(p) == /\ Step(p, "reset", "again")
            /\ file' = 0
            /\ opened' = [opened EXCEPT ![p] = 0]
            /\ UNCHANGED <<disk, seen, at, opens, deaths, overlapped>>

\* An exception leaves _connect.
Fails(p) == /\ doing' = [doing EXCEPT ![p] = "away"]
            /\ opened' = [opened EXCEPT ![p] = 0]
            /\ UNCHANGED <<file, disk, seen, opens, deaths, overlapped>>

\* One statement on the open file; upgrading it under another process is remembered.
Writes(p, d, to) ==
    /\ disk' = [disk EXCEPT ![opened[p]] = d]
    /\ doing' = [doing EXCEPT ![p] = to]
    /\ overlapped' = (overlapped \/ (doing[p] # "create"
                        /\ \E q \in Openers \ {p} : opened[q] = opened[p]))
    /\ UNCHANGED <<file, opened, seen, opens, deaths>>

\* A mutated form: one script is forgotten.
CreationStepsButOne == 1 .. Len(Creation) - 1

\* _initialize_runtime_db writes the version when every table is there.
CreationSteps == 1 .. Len(Creation)
Create(p) ==
    /\ doing[p] = "create"
    /\ IF at[p] \in CreationSteps
         THEN LET t == Creation[at[p]]
              IN  IF Raises(Here(p), t) THEN Fails(p) /\ UNCHANGED at
                  ELSE Writes(p, Created(Here(p), t), "create") /\ at' = [at EXCEPT ![p] = @ + 1]
         ELSE Writes(p, [Here(p) EXCEPT !.version = SCHEMA_VERSION], "open") /\ UNCHANGED at

Stamped(d, v) == [d EXCEPT !.version = v]

\* Up to v26 a script adds a table; v25's sync_cache becomes sync_polling as the version is written.
AddTable(p) ==
    /\ doing[p] = "script" /\ at[p] \in DOMAIN Script /\ UNCHANGED at
    /\ IF Raises(Here(p), Script[at[p]]) THEN Fails(p)
         ELSE Writes(p, Created(Here(p), Script[at[p]]), "stamp")

\* _migrate_source_lifecycle_runtime_to_v29 sets the old table aside, and fills a new one from it.
SetAside(p) ==
    /\ doing[p] = "script" /\ at[p] \in {27, 28} /\ UNCHANGED at
    /\ LET d == Here(p)
       IN  IF "source_lifecycle_runtime" \notin d.tables
             THEN Writes(p, Created(d, "source_lifecycle_runtime"), "stamp")
           ELSE IF Legacy \in d.tables THEN Fails(p)
           ELSE Writes(p, [d EXCEPT !.tables = (@ \ {"source_lifecycle_runtime"}) \cup {Legacy}], "recreate")

Recreate(p) == /\ doing[p] = "recreate" /\ UNCHANGED at
               /\ Writes(p, Created(Here(p), "source_lifecycle_runtime"), "copy")

CopyBack(p) ==
    /\ doing[p] = "copy"
    /\ IF Legacy \in Here(p).tables
         THEN /\ Writes(p, [Stamped(Here(p), 29) EXCEPT !.tables = @ \ {Legacy}], "script")
              /\ at' = [at EXCEPT ![p] = 29]
         ELSE Fails(p) /\ UNCHANGED at

AddColumn(p) == /\ doing[p] = "script" /\ at[p] = 29 /\ UNCHANGED at
                /\ Writes(p, [Here(p) EXCEPT !.remote = TRUE], "stamp")

\* The last statement of an upgrade and its version, in one transaction.
Next30 == [v \in 23 .. 29 |-> IF v \in {27, 28} THEN 29 ELSE v + 1]
Stamp(p) ==
    /\ doing[p] = "stamp"
    /\ LET to == Next30[at[p]]
           d == Stamped(Here(p), to)
       IN  /\ Writes(p, [d EXCEPT !.tables = IF to = 26 THEN @ \ {"sync_cache"} ELSE @,
                                  !.polled = @ /\ to < SCHEMA_VERSION],
                     IF to = SCHEMA_VERSION THEN "open" ELSE "script")
           /\ at' = [at EXCEPT ![p] = to]

Close(p) == /\ Step(p, "open", "away")
            /\ opened' = [opened EXCEPT ![p] = 0]
            /\ UNCHANGED <<file, disk, seen, at, opens, deaths, overlapped>>

\* A process ends between two statements.
Dies(p) == /\ doing[p] \notin {"away", "open"}
           /\ deaths < MaxDeaths
           /\ deaths' = deaths + 1
           /\ doing' = [doing EXCEPT ![p] = "away"]
           /\ opened' = [opened EXCEPT ![p] = 0]
           /\ UNCHANGED <<file, disk, seen, at, opens, overlapped>>

Connects(p) == \/ doing[p] = "again" /\ Open(p)
               \/ LookAtTables(p) \/ LookAtVersion(p) \/ Reset(p) \/ Create(p)
               \/ AddTable(p) \/ SetAside(p) \/ Recreate(p) \/ CopyBack(p) \/ AddColumn(p) \/ Stamp(p)

SchemaNext == \E p \in Openers : \/ doing[p] = "away" /\ Open(p)
                                 \/ Connects(p) \/ Close(p) \/ Dies(p)

-----------------------------------------------------------------------------
\* What a process may use has every table and column the code asks for, and no polling row of
\* before v30, whoever died half-way through making or upgrading it, and whoever unlinked it.
HandedOutServes ==
    overlapped \/ \A p \in Openers : doing[p] = "open" =>
                      Allowed \subseteq Here(p).tables /\ Here(p).remote /\ ~ Here(p).polled

\* A database of a supported version is upgraded where it is, its rows with it, whatever dies on
\* the way and whoever takes it up: only a process that met the table set aside, or read the table
\* names before and the version after another one's upgrade, throws it away.
MetSetAside(p) == Legacy \in seen[p]
ReadAcrossUpgrade(p) == "sync_cache" \in seen[p] /\ at[p] >= 26
MigratesInPlace ==
    [][\A p \in Openers : Reset(p) /\ file # 0 /\ disk[file].rows
                             => MetSetAside(p) \/ ReadAcrossUpgrade(p)]_schemaVars

=============================================================================

------------------------------- MODULE Caches -------------------------------
(***************************************************************************)
(* The two caches a process keeps of the brain: the area index that search *)
(* and placement use (query/area_index.py, application/query_index.py) and *)
(* the global context of the prompts (collect_global_context,              *)
(* regen/prompt_planner.py).  The index takes the key of what it read when *)
(* it has read it, the context takes the key first; others change the      *)
(* files at any moment.  A key is the content it was computed from.        *)
(***************************************************************************)
EXTENDS Integers, FiniteSets, Sequences

CONSTANTS AreaCount,   \* areas, numbered as a walk meets them
          Contents,    \* what an area or _core may hold
          Unread,      \* what is kept of a file that could not be read
          MaxLoads,    \* bound on the calls
          MaxChanges,  \* bound on the changes by others
          MaxMisreads  \* bound on the reads that fail

(* What is kept of an unreadable file is no content, and the areas are     *)
(* counted.                                                                *)
ASSUME CachesAssumption == Unread \notin Contents /\ AreaCount \in Nat

VARIABLES held,     \* what every part of the brain holds
          index,    \* the area index the process keeps
          context,  \* the global context it keeps
          load,     \* the call under way
          loads, changes, misreads,
          saw       \* what every part held since the call began

cacheVars == <<held, index, context, load, loads, changes, misreads, saw>>

IndexAreas == 1 .. AreaCount
\* What collect_global_context inlines, for _core itself and for the other areas.
CoreRaw == -1
CoreSummary == 0
Modes == {CoreRaw, CoreSummary}
Parts == IndexAreas \cup Modes

\* Nothing is cached yet; "hurt" are the parts that changed or were misread while it was made.
NoAreaIndex == [made |-> FALSE, entries |-> <<>>, snapshot |-> <<>>, hurt |-> {}]
NoContext == [made |-> FALSE, mode |-> CoreRaw, key |-> Unread, text |-> Unread, hurt |-> FALSE]
NoLoad == [at |-> "idle", mode |-> CoreRaw, next |-> 0, key |-> <<>>, entries |-> <<>>, hurt |-> {}]

CachesInit == /\ held \in [Parts -> Contents]
              /\ \A p, q \in Parts : held[p] = held[q]
              /\ index = NoAreaIndex /\ context = NoContext /\ load = NoLoad
              /\ loads = 0 /\ changes = 0 /\ misreads = 0
              /\ saw = [p \in Parts |-> {}]

Began(with) == /\ load.at \in {"idle", "served", "told"} /\ loads < MaxLoads
               /\ loads' = loads + 1
               /\ load' = with
               /\ saw' = [p \in Parts |-> {held[p]}]

\* What a read of a part gives, and whether it failed.
ReadsOf(p) == {[text |-> held[p], failed |-> FALSE]}
               \cup (IF misreads < MaxMisreads THEN {[text |-> Unread, failed |-> TRUE]} ELSE {})

Counted(read) == misreads' = misreads + (IF read.failed THEN 1 ELSE 0)

-----------------------------------------------------------------------------
\* load_area_index

\* A mutated form: an index is good until it is marked.
StaleWhenMarked(key) == FALSE

IsStaleIndex(key) == key # index.snapshot

LoadIndex == /\ Began([NoLoad EXCEPT !.at = IF index.made THEN "check" ELSE "walk", !.next = 1])
             /\ UNCHANGED <<held, index, context, changes, misreads>>

\* capture_snapshot, one area after the other; what cannot be read is "<unreadable>".
Capture == /\ load.at \in {"check", "snapshot"} /\ load.next \in IndexAreas
           /\ \E r \in ReadsOf(load.next) :
                /\ Counted(r)
                /\ load' = [load EXCEPT !.next = @ + 1, !.key = Append(@, r.text),
                                        !.hurt = @ \cup (IF r.failed THEN {load.next} ELSE {})]
           /\ UNCHANGED <<held, index, context, loads, changes, saw>>

Checked == /\ load.at = "check" /\ load.next \notin IndexAreas
           /\ load' = IF IsStaleIndex(load.key) THEN [NoLoad EXCEPT !.at = "walk", !.next = 1]
                      ELSE [load EXCEPT !.at = "served"]
           /\ UNCHANGED <<held, index, context, loads, changes, misreads, saw>>

\* AreaIndex.build: the walk of the areas, and the snapshot after it.
Walk == /\ load.at = "walk" /\ load.next \in IndexAreas
        /\ \E r \in ReadsOf(load.next) :
             /\ Counted(r)
             /\ load' = [load EXCEPT !.next = @ + 1, !.entries = Append(@, r.text),
                                     !.hurt = @ \cup (IF r.failed THEN {load.next} ELSE {})]
        /\ UNCHANGED <<held, index, context, loads, changes, saw>>

Walked == /\ load.at = "walk" /\ load.next \notin IndexAreas
          /\ load' = [load EXCEPT !.at = "snapshot", !.next = 1]
          /\ UNCHANGED <<held, index, context, loads, changes, misreads, saw>>

Built == /\ load.at = "snapshot" /\ load.next \notin IndexAreas
         /\ index' = [made |-> TRUE, entries |-> load.entries, snapshot |-> load.key, hurt |-> load.hurt]
         /\ load' = [load EXCEPT !.at = "served"]
         /\ UNCHANGED <<held, context, loads, changes, misreads, saw>>

-----------------------------------------------------------------------------
\* collect_global_context

Hit(mode, key) == context.made /\ context.mode = mode /\ context.key = key

CollectContext ==
    /\ \E mode \in Modes :
         Began([NoLoad EXCEPT !.at = IF Hit(mode, held[mode]) THEN "told" ELSE "read",
                              !.mode = mode, !.key = held[mode]])
    /\ UNCHANGED <<held, index, context, changes, misreads>>

\* A file that cannot be read is left out.
ReadCore == /\ load.at = "read"
            /\ \E r \in ReadsOf(load.mode) :
                 /\ Counted(r)
                 /\ context' = [made |-> TRUE, mode |-> load.mode, key |-> load.key, text |-> r.text,
                                hurt |-> r.failed \/ load.mode \in load.hurt]
            /\ load' = [load EXCEPT !.at = "told"]
            /\ UNCHANGED <<held, index, loads, changes, saw>>

\* Of what is being cached only one of text and key has been read.
BetweenItsReads(p) == \/ load.at = "walk" /\ p \in IndexAreas /\ p < load.next
                      \/ load.at = "snapshot" /\ p \in IndexAreas /\ p >= load.next
                      \/ load.at = "read" /\ p = load.mode

\* A regeneration, a user or another machine.
OthersChange == /\ changes < MaxChanges /\ changes' = changes + 1
                /\ \E p \in Parts, c \in Contents :
                     /\ held' = [held EXCEPT ![p] = c] /\ c # held[p]
                     /\ saw' = [saw EXCEPT ![p] = @ \cup {c}]
                     /\ load' = IF BetweenItsReads(p) THEN [load EXCEPT !.hurt = @ \cup {p}] ELSE load
                /\ UNCHANGED <<index, context, loads, misreads>>

CachesNext == \/ LoadIndex \/ Capture \/ Checked \/ Walk \/ Walked \/ Built
              \/ CollectContext \/ ReadCore \/ OthersChange

-----------------------------------------------------------------------------
\* What a caller is given, every part of it held at some moment of the call, except for a part
\* that changed between the reading of its text and of its key, or was misread, when the cache was
\* made: that one is served until it changes again.
CachesTellTheTruth ==
    /\ load.at = "served" => \A a \in IndexAreas \ index.hurt : index.entries[a] \in saw[a]
    /\ load.at = "told" /\ ~ context.hurt => context.text \in saw[load.mode]

=============================================================================

----------------------------- MODULE RoutinesMC -----------------------------
(* The databases, prompts, brains and areas the routines are run on.       *)
EXTENDS Routines

\* From a version too old to a version not known yet.
MCFirstVersions == 23 .. 31

\* A unit is about 250 characters; a budget takes a third as many tokens.
MCGlue == [filesHead |-> 4, fence |-> 1, chunkNote |-> 3, mergeNote |-> 3, omitted |-> 2,
           binaryHead |-> 2, binaryLine |-> 2, binaryNote |-> 2,
           kidsHead |-> 2, kidsSomeHead |-> 3, kidsFoot |-> 3,
           legacy |-> 14, override |-> 14, standard |-> 17, extended |-> 20]

P(n) == [level |-> 0, size |-> n]
H(l, n) == [level |-> l, size |-> n]
MCFiles == {<<P(2)>>, <<P(5), H(2, 4), P(3), H(2, 3)>>, <<P(14)>>,
            <<H(1, 6), H(2, 5), P(4), H(2, 7), P(2)>>,
            <<H(3, 4), P(5), P(4), H(1, 3), H(2, 5), P(9)>>}
MCThree == {<<P(2)>>, <<P(5), H(2, 4), P(3), H(2, 3)>>, <<P(14)>>}

MCPromptInputs ==
    [base : 20 .. 22, files : UNION {[1 .. n -> MCFiles] : n \in 0 .. 2} \cup [1 .. 3 -> MCThree],
     kids : {<<>>, <<3, 7>>, <<8, 2, 5>>}, binaries : {0, 2},
     backend : {[class |-> "none", max |-> 0], [class |-> "extended", max |-> 30],
                [class |-> "small", max |-> 8]}]

MCSummaryLengths == {4, 9}

\* Two files and two sources, each file named for one of them.
MCPlaces == 1 .. 2
MCPrefixOf == <<1, 2>>

MCManifests == {[st |-> "none", path |-> NoPlace, hash |-> FALSE],
                [st |-> "missing", path |-> 1, hash |-> FALSE]}
                 \cup [st : {"materialized", "missing"}, path : MCPlaces, hash : {TRUE}]
                 \cup [st : {"awaiting"}, path : MCPlaces, hash : {FALSE}]

MCWorlds == [json : {FALSE}, man : [Sources -> MCManifests], id : [MCPlaces -> NoFile .. 2],
             polled : {{1}}, leased : {{}, {1}}, dirs : {{2}}, journal : {TRUE},
             rows : {{GoneRow, BadRow}}]

\* One attachment may be in every store at once, another in the old context only.
MCNames == {"a", "b"}

MCStored == {f \in [Stores -> [MCNames -> Stores \cup {Absent, "new"}]] :
               /\ \A s \in Stores : f[s]["a"] \in {Absent, s} \/ (s = "managed" /\ f[s]["a"] = "new")
               /\ \A s \in Stores : f[s]["b"] \in {Absent} \cup ({"context"} \cap {s})}

MCAreas0 == {[files |-> f, managedDir |-> f["managed"]["a"] # Absent, others |-> TRUE, nested |-> n,
              confluence |-> c, text |-> t, double |-> t = Absent, manifest |-> m,
              refers |-> TRUE] :
                f \in MCStored, n \in BOOLEAN, c \in BOOLEAN,
                t \in {Absent, "old"}, m \in {"none", "stale", "materialized"}}

=============================================================================

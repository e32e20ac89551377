-------------------------- MODULE DaemonLoopProofs --------------------------
(***************************************************************************)
(* The daemon's loop loses no change but in the named ways, and overshoots *)
(* the hourly limit by one batch at most: for any tree, sources, limits    *)
(* and numbers of events.                                                  *)
(***************************************************************************)
EXTENDS DaemonLoop, FiniteSetTheorems, TLAPS

(* What a batch under way relies on: it began with something, and a walk   *)
(* has one folder at a time to work on.                                    *)
BatchShape ==
  /\ mode = "none" => todo = {}
  /\ mode # "none" => seeds # {}
  /\ mode = "single_path_walk_up" => \A p, q \in Pending : p = q

(* The folders that nobody moves are there, and past its start the daemon  *)
(* watches.                                                                *)
Grounded == Paths \ {MoveSrc, MoveDst} \subseteq exists
Watched == Running => watching

(* As ChangesAreCarried, from the startup reconcile on.                    *)
Caught == pc # "down" => \A p \in stale : Carried(p) \/ adrift[p] # "none"

LoopInv == TypeOK /\ BatchShape /\ Grounded /\ Watched /\ Caught /\ OvershootsByOneBatch

-----------------------------------------------------------------------------
(* A path is its own ancestor, its parent is one, and only the root is its *)
(* own parent.                                                             *)
LEMMA PathFacts ==
  ASSUME NEW p \in Paths
  PROVE  /\ p \in Ancestors(p)
         /\ SubSeq(p, 1, Len(p)) = p
         /\ ParentPath(p) \in Paths
         /\ p # Root => ParentPath(p) # p
<1> DEFINE S == {p[i] : i \in DOMAIN p}
<1>1. p \in Seq(S) /\ Ancestors(p) \subseteq Paths /\ Root \in Paths
  BY PathsAssumption
<1> HIDE DEF S
<1>2. Len(p) \in Nat /\ SubSeq(p, 1, Len(p)) = p
  BY <1>1
<1>3. p \in Ancestors(p)
  <2>1. Len(p) \in 0 .. Len(p)
    BY <1>2
  <2> QED BY <1>2, <2>1 DEF Ancestors
<1>4. p # Root => Len(p) - 1 \in 0 .. Len(p)
  BY <1>1 DEF Root
<1>5. p # Root => ParentPath(p) \in Ancestors(p)
  BY <1>4 DEF ParentPath, Ancestors
<1>6. p # Root => Len(ParentPath(p)) = Len(p) - 1
  BY <1>1, <1>2, <1>4 DEF ParentPath
<1>7. p = Root => ParentPath(p) = Root
  BY DEF ParentPath
<1>8. ParentPath(p) \in Paths
  BY <1>1, <1>5, <1>7
<1>9. p # Root => ParentPath(p) # p
  BY <1>2, <1>6
<1> QED BY <1>2, <1>3, <1>8, <1>9

(* The scheduled paths are folders of the tree, what is ready among them.  *)
LEMMA ScheduledFacts ==
  ASSUME NEW ready, ready \subseteq Paths, ready # {}
  PROVE  ready \subseteq ScheduledPaths(ready, MaxDepth) /\ ScheduledPaths(ready, MaxDepth) \subseteq Paths
<1>1. CASE Strategy(ready) = "wave_batch"
  <2>1. ready \subseteq WithAncestors(ready)
    BY PathFacts DEF WithAncestors
  <2>2. WithAncestors(ready) \subseteq Paths
    BY PathsAssumption DEF WithAncestors
  <2> QED BY <1>1, <2>1, <2>2 DEF ScheduledPaths
<1>2. CASE Strategy(ready) # "wave_batch"
  <2>1. PICK p \in Paths : ready = {p}
    BY <1>2 DEF Strategy
  <2> DEFINE chain == WalkUpChain(p, MaxDepth)
  <2>2. ScheduledPaths(ready, MaxDepth) = {chain[i] : i \in DOMAIN chain}
    BY <1>2, <2>1 DEF ScheduledPaths
  <2>3. Len(p) \in Nat /\ MaxDepth \in Nat \ {0}
    BY PathsAssumption, LimitsAssumption
  <2> DEFINE n == IF Len(p) + 1 < MaxDepth THEN Len(p) + 1 ELSE MaxDepth
  <2>4. n \in 1 .. Len(p) + 1
    BY <2>3
  <2>5. chain = [i \in 1 .. n |-> SubSeq(p, 1, Len(p) + 1 - i)]
    BY DEF WalkUpChain
  <2> HIDE DEF chain, n
  <2>6. \A i \in 1 .. n : Len(p) + 1 - i \in 0 .. Len(p)
    BY <2>3, <2>4
  <2>7. \A i \in DOMAIN chain : chain[i] \in Ancestors(p)
    BY <2>5, <2>6 DEF Ancestors
  <2>8. 1 \in DOMAIN chain /\ chain[1] = SubSeq(p, 1, Len(p) + 1 - 1)
    BY <2>4, <2>5, <2>3
  <2>9. chain[1] = p
    BY <2>3, <2>8, PathFacts
  <2> QED BY <2>1, <2>2, <2>7, <2>8, <2>9, PathsAssumption
<1> QED BY <1>1, <1>2

(* The parents of the folder that moves stay where they are.               *)
LEMMA MoveFacts ==
  /\ MoveSrc # Root /\ MoveDst # Root
  /\ ParentPath(MoveSrc) \in Paths \ {MoveSrc, MoveDst}
  /\ ParentPath(MoveDst) \in Paths \ {MoveSrc, MoveDst}
<1>1. ParentPath(Root) = Root /\ Root \in Paths
  BY PathsAssumption DEF ParentPath
<1> QED BY <1>1, PathFacts, MoveAssumption

(* Nothing runs yet.                                                       *)
LEMMA LoopInvInit == Init => LoopInv
<1> SUFFICES ASSUME Init PROVE LoopInv
  OBVIOUS
<1>1. TypeOK
  <2>1. stale \subseteq exists /\ exists \subseteq Paths /\ tracked \subseteq Paths
    BY DEF Init
  <2>2. adrift \in [Paths -> Reasons]
    BY DEF Init, Reasons
  <2>3. retry \in [Paths -> 0 .. MaxRetries]
    BY LimitsAssumption DEF Init, QueueInit, EmptyQueue
  <2>4. active \subseteq Sources /\ eventsLeft \in 0 .. MaxEvents
    BY EventsAssumption DEF Init
  <2> QED BY <2>1, <2>2, <2>3, <2>4 DEF Init, TypeOK, QueueTypeOK, QueueInit, EmptyQueue, NoBatch
<1>2. BatchShape /\ Grounded /\ Watched /\ Caught /\ OvershootsByOneBatch
  BY DEF Init, QueueInit, NoBatch, BatchShape, Grounded, Watched, Running, Caught, OvershootsByOneBatch
<1> QED BY <1>1, <1>2 DEF LoopInv


-----------------------------------------------------------------------------
(* Only what is lost, and still stale, gets a new reason.                  *)
LEMMA LostFacts ==
  ASSUME NEW S, NEW why \in Reasons, adrift \in [Paths -> Reasons], stale' \subseteq Paths,
         adrift' = Lost(S, why)
  PROVE  /\ adrift' \in [Paths -> Reasons]
         /\ \A q \in stale' : adrift'[q] = IF q \in S THEN why ELSE adrift[q]
  BY DEF Lost, Reasons

(* What is found is adrift no longer.                                      *)
LEMMA FoundFacts ==
  ASSUME NEW S, adrift \in [Paths -> Reasons], adrift' = Found(S)
  PROVE  /\ adrift' \in [Paths -> Reasons]
         /\ \A q \in Paths \ S : adrift'[q] = adrift[q]
  BY DEF Found, Reasons

(* Enqueued folders are pending, the others keep their retries.            *)
LEMMA EnqueueFacts ==
  ASSUME NEW S \in SUBSET Paths, QueueTypeOK, Enqueue(S)
  PROVE  pend' = pend \union S /\ pend' \subseteq Paths /\ retry' \in [Paths -> 0 .. MaxRetries]
<1>1. 0 \in 0 .. MaxRetries
  BY LimitsAssumption
<1> QED BY <1>1 DEF Enqueue, QueueTypeOK

(* A batch goes on with what is given to it, or it is over.                *)
LEMMA ContinueFacts ==
  ASSUME NEW rest, NEW dirty, Continue(rest, dirty), QueueTypeOK,
         rest \subseteq Paths, dirty \subseteq Paths
  PROVE  /\ Pending' = rest \intersect dirty
         /\ mode' \in {"none", mode}
         /\ seeds' \subseteq Paths /\ todo' \subseteq Paths /\ hot' \subseteq Paths
         /\ mode' # "none" => seeds' = seeds /\ todo' = rest /\ hot' = dirty
         /\ rest \intersect dirty = {} => mode' = "none"
  BY DEF Continue, Pending, QueueTypeOK

(* A seed that is worked off is one seed less that is scheduled.           *)
LEMMA SeedsLeft ==
  ASSUME QueueTypeOK, NEW p, NEW rest, rest \subseteq todo, p \notin rest
  PROVE  /\ Cardinality(seeds) \in Nat
         /\ Cardinality(seeds \intersect todo) \in Nat
         /\ Cardinality(seeds \intersect rest) \in Nat
         /\ Cardinality(seeds \intersect rest) <= Cardinality(seeds \intersect todo)
         /\ p \in seeds \intersect todo => Cardinality(seeds \intersect rest) < Cardinality(seeds \intersect todo)
<1>1. IsFiniteSet(seeds)
  BY PathsAssumption, FS_Subset DEF QueueTypeOK
<1>2. IsFiniteSet(seeds \intersect todo)
  BY <1>1, FS_Subset
<1>3. seeds \intersect rest \subseteq seeds \intersect todo
  OBVIOUS
<1>4. IsFiniteSet(seeds \intersect rest) /\ Cardinality(seeds \intersect rest) <= Cardinality(seeds \intersect todo)
  BY <1>2, <1>3, FS_Subset
<1>5. p \in seeds \intersect todo => Cardinality(seeds \intersect rest) < Cardinality(seeds \intersect todo)
  <2> SUFFICES ASSUME p \in seeds \intersect todo
               PROVE  Cardinality(seeds \intersect rest) < Cardinality(seeds \intersect todo)
    OBVIOUS
  <2>1. seeds \intersect rest # seeds \intersect todo
    OBVIOUS
  <2>2. Cardinality(seeds \intersect todo) # Cardinality(seeds \intersect rest)
    BY <1>2, <1>3, <2>1, FS_Subset
  <2>3. Cardinality(seeds \intersect todo) \in Nat /\ Cardinality(seeds \intersect rest) \in Nat
    BY <1>2, <1>4, FS_CardinalityType
  <2> QED BY <1>4, <2>2, <2>3
<1> QED BY <1>1, <1>2, <1>4, <1>5, FS_CardinalityType

-----------------------------------------------------------------------------
(* A batch is taken: what was pending is in it.                            *)
LEMMA StartStep ==
  ASSUME LoopInv, NEW ready \in SUBSET Paths, StartRegen(ready)
  PROVE  LoopInv'
<1> USE DEF LoopInv, TypeOK, QueueTypeOK, Caught, BatchShape, OvershootsByOneBatch
<1>1. CASE ready = {}
  BY <1>1 DEF StartRegen, Grounded, Watched, Running, Carried, Pending, tree, queue, batch, files,
              watcher, poller
<1>2. CASE ready # {}
  <2>1. PopReady(ready) /\ pc = "poll" /\ pc' = "regen" /\ UNCHANGED <<eventsLeft, watcher, poller, tree, retry, cool, window>>
    BY <1>2 DEF StartRegen, PopReady
  <2>2. ready \subseteq todo' /\ todo' \subseteq Paths /\ hot' = ready /\ seeds' = ready /\ pend' = pend \ ready
    BY <1>2, <2>1, ScheduledFacts DEF PopReady, StillPending
  <2>3. Pending' = ready
    BY <2>2 DEF Pending
  <2>4. mode' = Strategy(ready) /\ mode' \in {"single_path_walk_up", "wave_batch"}
    BY <2>1 DEF PopReady, Strategy
  <2>5. TypeOK'
    BY <2>1, <2>2, <2>4 DEF tree, watcher, poller
  <2>6. BatchShape'
    BY <1>2, <2>2, <2>3, <2>4 DEF Strategy
  <2>7. Grounded' /\ Watched'
    BY <2>1 DEF Grounded, Watched, Running, tree, watcher
  <2>8. Caught'
    <3> SUFFICES ASSUME NEW q \in stale PROVE Carried(q)' \/ adrift'[q] # "none"
      BY <2>1 DEF tree
    <3>1. Carried(q) \/ adrift[q] # "none"
      BY <2>1
    <3>2. Pending = {} /\ UNCHANGED <<seen, deb, moves, adrift>>
      BY <2>1 DEF PopReady, Pending, tree, watcher
    <3> HIDE DEF Caught, LoopInv
    <3> QED BY <2>2, <2>3, <3>1, <3>2 DEF Carried
  <2>9. OvershootsByOneBatch'
    <3>1. window < MaxRegensPerHour
      BY <1>2, <2>1, LimitsAssumption DEF PopReady, MayBeReady, RateLimited
    <3>2. seeds' \intersect todo' = ready /\ seeds' = ready /\ window' = window
      BY <2>1, <2>2
    <3>3. IsFiniteSet(ready)
      BY PathsAssumption, FS_Subset
    <3>4. Cardinality(ready) \in Nat
      BY <3>3, FS_CardinalityType
    <3> HIDE DEF OvershootsByOneBatch, LoopInv, TypeOK, QueueTypeOK, Caught, BatchShape
    <3>5. window \in Nat /\ MaxRegensPerHour \in Nat
      BY LimitsAssumption DEF LoopInv, TypeOK, QueueTypeOK
    <3>6. window + Cardinality(ready) < MaxRegensPerHour + Cardinality(ready)
      BY <3>1, <3>4, <3>5
    <3>7. window' + Cardinality(seeds' \intersect todo') < MaxRegensPerHour + Cardinality(seeds')
      BY <3>2, <3>6
    <3> QED BY <3>7 DEF OvershootsByOneBatch
  <2> QED BY <2>5, <2>6, <2>7, <2>8, <2>9
<1> QED BY <1>1, <1>2


(* What is true of every step of a batch that works at p: what is left of  *)
(* the batch, the books of the queue, and who keeps a stale folder in mind *)
(* afterwards.                                                             *)
Leftover(p, rest, dirty) ==
  /\ Continue(rest, dirty)
  /\ rest \subseteq todo \ {p}
  /\ dirty \subseteq Paths
  /\ mode = "single_path_walk_up" => \A q, r \in rest \intersect dirty : q = r

Books(p) ==
  /\ pend' \subseteq Paths /\ cool' \subseteq Paths
  /\ retry' \in [Paths -> 0 .. MaxRetries]
  /\ window' = window \/ (window' = window + 1 /\ (mode' = "none" \/ p \in seeds))

KeptInMind(rest, dirty) ==
  \A q \in stale' : \/ q \in pend' \/ q \in rest \intersect dirty \/ adrift'[q] # "none"
                    \/ q \in seen \union deb
                    \/ \E m \in moves : q \in {m.dst, ParentPath(m.src), ParentPath(m.dst)}

Trees ==
  exists' = exists /\ stale' \subseteq exists /\ tracked' \subseteq Paths /\ adrift' \in [Paths -> Reasons]

LoopGoesOn ==
  /\ pc = "regen" /\ pc' \in {"gather", "regen"}
  /\ UNCHANGED <<watcher, poller>>
  /\ eventsLeft' \in 0 .. MaxEvents

(* The step of a batch that works at p, whatever comes of it.              *)
LEMMA BatchStep ==
  ASSUME LoopInv, NEW p \in Pending, NEW rest, NEW dirty, Leftover(p, rest, dirty), Books(p),
         KeptInMind(rest, dirty), Trees, LoopGoesOn
  PROVE  LoopInv'
<1> USE DEF Leftover, Books, KeptInMind, Trees, LoopGoesOn
<1> USE DEF LoopInv
<1>1. QueueTypeOK /\ rest \subseteq Paths
  BY DEF TypeOK, QueueTypeOK
<1>2. /\ Pending' = rest \intersect dirty
      /\ mode' \in {"none", mode}
      /\ seeds' \subseteq Paths /\ todo' \subseteq Paths /\ hot' \subseteq Paths
      /\ mode' # "none" => seeds' = seeds /\ todo' = rest /\ hot' = dirty
  BY <1>1, ContinueFacts
<1>3. TypeOK'
  BY <1>1, <1>2 DEF TypeOK, QueueTypeOK, watcher, poller
<1>4. mode # "none" /\ (mode' = "none" => todo' = {})
  BY DEF BatchShape, Pending, Continue
<1>5. BatchShape'
  BY <1>2, <1>4 DEF BatchShape
<1>6. Grounded' /\ Watched'
  BY DEF Grounded, Watched, Running, watcher
<1>7. Caught'
  BY <1>2 DEF Caught, Carried, watcher
<1>8. OvershootsByOneBatch'
  <2> SUFFICES ASSUME mode' # "none"
               PROVE  window' + Cardinality(seeds' \intersect todo') < MaxRegensPerHour + Cardinality(seeds')
    BY DEF OvershootsByOneBatch
  <2>1. seeds' = seeds /\ todo' = rest
    BY <1>2
  <2>2. window + Cardinality(seeds \intersect todo) < MaxRegensPerHour + Cardinality(seeds)
    BY <1>4 DEF OvershootsByOneBatch
  <2>3. /\ Cardinality(seeds) \in Nat
        /\ Cardinality(seeds \intersect todo) \in Nat
        /\ Cardinality(seeds \intersect rest) \in Nat
        /\ Cardinality(seeds \intersect rest) <= Cardinality(seeds \intersect todo)
        /\ p \in seeds \intersect todo => Cardinality(seeds \intersect rest) < Cardinality(seeds \intersect todo)
    BY <1>1, SeedsLeft
  <2>4. p \in todo
    BY DEF Pending
  <2>5. window \in Nat /\ MaxRegensPerHour \in Nat
    BY <1>1, LimitsAssumption DEF QueueTypeOK
  <2>6. CASE window' = window
    BY <2>1, <2>2, <2>3, <2>5, <2>6
  <2>7. CASE window' = window + 1 /\ p \in seeds
    BY <2>1, <2>2, <2>3, <2>4, <2>5, <2>7
  <2> QED BY <2>6, <2>7
<1> QED BY <1>3, <1>5, <1>6, <1>7, <1>8

(* A walk that stops has nothing else to work on; a wave goes on.          *)
LEMMA RestFacts ==
  ASSUME LoopInv, NEW p \in Pending
  PROVE  /\ RestAfterRefusal(p) \subseteq todo \ {p}
         /\ Pending \ {p} = RestAfterRefusal(p) \intersect hot
         /\ p \in Paths /\ hot \subseteq Paths
         /\ mode = "single_path_walk_up" => \A q, r \in RestAfterRefusal(p) \intersect hot : q = r
         /\ mode \in {"single_path_walk_up", "wave_batch"}
         /\ SeedOf(p) \in Paths
<1>1. p \in todo /\ p \in hot /\ todo \subseteq Paths /\ hot \subseteq Paths /\ seeds \subseteq Paths
  BY DEF Pending, LoopInv, TypeOK, QueueTypeOK
<1>2. mode \in {"single_path_walk_up", "wave_batch"} /\ seeds # {}
  BY <1>1 DEF LoopInv, BatchShape, TypeOK, QueueTypeOK
<1>3. mode = "single_path_walk_up" => Pending = {p}
  BY DEF LoopInv, BatchShape
<1>4. Pending \ {p} = RestAfterRefusal(p) \intersect hot
  BY <1>2, <1>3 DEF RestAfterRefusal, Pending
<1>5. SeedOf(p) \in Paths
  BY <1>1, <1>2 DEF SeedOf
<1>6. mode = "single_path_walk_up" => RestAfterRefusal(p) = {}
  BY DEF RestAfterRefusal
<1> QED BY <1>1, <1>2, <1>4, <1>5, <1>6 DEF RestAfterRefusal

(* Another session works on the path.                                      *)
LEMMA RefusedStep ==
  ASSUME LoopInv, NEW p \in Paths, Refused(p), LoopGoesOn
  PROVE  LoopInv'
<1>1. p \in Pending
  BY DEF Refused, DeepestWave
<1> DEFINE rest == RestAfterRefusal(p)
<1>2. /\ Continue(rest, hot) /\ UNCHANGED <<exists, stale, tracked, pend>>
      /\ adrift' = Lost({p}, "refused")
  BY DEF Refused, queue, Done
<1>3. QueueTypeOK /\ stale \subseteq Paths
  BY DEF LoopInv, TypeOK, QueueTypeOK
<1>4. /\ adrift' \in [Paths -> Reasons]
      /\ \A q \in stale' : adrift'[q] = IF q \in {p} THEN "refused" ELSE adrift[q]
  <2>1. "refused" \in Reasons /\ adrift \in [Paths -> Reasons] /\ stale' \subseteq Paths
    BY <1>2, <1>3 DEF QueueTypeOK, Reasons
  <2> QED BY <1>2, <2>1, LostFacts
<1>5. /\ rest \subseteq todo \ {p} /\ Pending \ {p} = rest \intersect hot /\ hot \subseteq Paths
      /\ mode = "single_path_walk_up" => \A q, r \in rest \intersect hot : q = r
      /\ mode \in {"single_path_walk_up", "wave_batch"} /\ SeedOf(p) \in Paths
  BY <1>1, RestFacts
<1>6. mode = "single_path_walk_up" => mode' = "none"
  BY <1>2 DEF RestAfterRefusal, Continue
<1>7. Books(p)
  BY <1>2, <1>3, <1>5, <1>6, LimitsAssumption DEF Refused, queue, Done, QueueTypeOK, Books
<1>8. KeptInMind(rest, hot)
  BY <1>2, <1>4, <1>5, <1>3 DEF LoopInv, Caught, Carried, LoopGoesOn, KeptInMind
<1>9. Trees
  BY <1>2, <1>3, <1>4 DEF QueueTypeOK, Trees
<1>10. Leftover(p, rest, hot)
  BY <1>2, <1>5 DEF Leftover
<1> HIDE DEF rest
<1> QED BY <1>1, <1>7, <1>8, <1>9, <1>10, BatchStep

(* The folder fails after its ownership was acquired.                      *)
LEMMA FailedStep ==
  ASSUME LoopInv, NEW p \in Paths, Failed(p), LoopGoesOn
  PROVE  LoopInv'
<1>1. p \in Pending
  BY DEF Failed, DeepestWave
<1> DEFINE rest == RestAfterRefusal(p)
           why == IF p \in seeds THEN "exhausted" ELSE "ancestor"
<1>2. /\ Continue(rest, hot) /\ UNCHANGED <<exists, stale, cool, window>>
      /\ tracked' = tracked \union {p}
      /\ adrift' = Lost({p} \ pend', why)
  BY DEF Failed
<1>3. QueueTypeOK /\ stale \subseteq Paths
  BY DEF LoopInv, TypeOK, QueueTypeOK
<1>4. /\ adrift' \in [Paths -> Reasons]
      /\ \A q \in stale' : adrift'[q] = IF q \in {p} \ pend' THEN why ELSE adrift[q]
  <2>1. why \in Reasons /\ adrift \in [Paths -> Reasons] /\ stale' \subseteq Paths
    BY <1>2, <1>3 DEF QueueTypeOK, Reasons
  <2> HIDE DEF why
  <2> QED BY <1>2, <2>1, LostFacts
<1>5. /\ rest \subseteq todo \ {p} /\ Pending \ {p} = rest \intersect hot /\ hot \subseteq Paths
      /\ mode = "single_path_walk_up" => \A q, r \in rest \intersect hot : q = r
      /\ SeedOf(p) \in Paths
  BY <1>1, RestFacts
<1>6. pend \subseteq pend' /\ pend' \subseteq Paths /\ retry' \in [Paths -> 0 .. MaxRetries]
  <2>1. CASE SeedOf(p) \in seeds /\ ~Exhausted(SeedOf(p))
    <3>1. pend' = pend \union {SeedOf(p)} /\ retry' = [retry EXCEPT ![SeedOf(p)] = @ + 1]
      BY <2>1 DEF Failed, HandleFailure
    <3>2. retry[SeedOf(p)] + 1 \in 0 .. MaxRetries
      BY <1>3, <1>5, <2>1, LimitsAssumption DEF QueueTypeOK, Exhausted
    <3> QED BY <1>3, <1>5, <3>1, <3>2 DEF QueueTypeOK
  <2>2. CASE ~(SeedOf(p) \in seeds /\ ~Exhausted(SeedOf(p)))
    BY <1>3, <2>2 DEF Failed, HandleFailure, QueueTypeOK
  <2> QED BY <2>1, <2>2
<1>7. Books(p)
  BY <1>2, <1>3, <1>6 DEF QueueTypeOK, Books
<1>8. KeptInMind(rest, hot)
  <2>1. why # "none"
    OBVIOUS
  <2> HIDE DEF why, rest
  <2> QED BY <1>2, <1>4, <1>5, <1>3, <1>6, <2>1 DEF LoopInv, Caught, Carried, LoopGoesOn, KeptInMind
<1>9. Trees
  BY <1>2, <1>3, <1>4 DEF QueueTypeOK, Trees
<1>10. Leftover(p, rest, hot)
  BY <1>2, <1>5 DEF Leftover
<1> HIDE DEF rest
<1> QED BY <1>1, <1>7, <1>8, <1>9, <1>10, BatchStep

(* What is left of a batch is thrown away.                                 *)
LEMMA RaisedStep ==
  ASSUME LoopInv, Raised, LoopGoesOn
  PROVE  LoopInv'
<1>1. PICK p \in Pending : TRUE
  BY DEF Raised
<1>2. /\ Continue({}, {}) /\ UNCHANGED <<exists, stale, tracked, pend, retry, cool, window>>
      /\ adrift' = Lost(Pending \ pend, "raised")
  BY DEF Raised, queue
<1>3. QueueTypeOK /\ stale \subseteq Paths
  BY DEF LoopInv, TypeOK, QueueTypeOK
<1>4. /\ adrift' \in [Paths -> Reasons]
      /\ \A q \in stale' : adrift'[q] = IF q \in Pending \ pend THEN "raised" ELSE adrift[q]
  <2>1. "raised" \in Reasons /\ adrift \in [Paths -> Reasons] /\ stale' \subseteq Paths
    BY <1>2, <1>3 DEF QueueTypeOK, Reasons
  <2> QED BY <1>2, <2>1, LostFacts
<1>5. Books(p)
  BY <1>2, <1>3 DEF QueueTypeOK, Books
<1>6. KeptInMind({}, {})
  BY <1>2, <1>4, <1>3 DEF LoopInv, Caught, Carried, LoopGoesOn, KeptInMind
<1>7. Trees
  BY <1>2, <1>3, <1>4 DEF QueueTypeOK, Trees
<1>8. Leftover(p, {}, {})
  BY <1>2 DEF Leftover
<1> QED BY <1>5, <1>6, <1>7, <1>8, BatchStep

(* What Processed says of one outcome.                                     *)
ProcessedWith(p, action) ==
  LET rest == RestAfter(p, action)
      dirty == HotAfter(p, action)
      beyond == {ParentPath(p)} \ (rest \union {p})
  IN
  /\ Continue(rest, dirty)
  /\ stale' = StaleAfter(p, action)
  /\ tracked' = IF action = "cleaned_up" THEN tracked \ {p} ELSE tracked \union {p}
  /\ IF mode = "wave_batch"
     THEN IF p \in seeds THEN Done(p) ELSE UNCHANGED <<cool, window, retry>>
     ELSE IF rest \intersect dirty = {} THEN Done(SeedOf(p)) ELSE UNCHANGED <<cool, window, retry>>
  /\ adrift' = Lost((beyond \intersect (stale' \ stale)) \ pend, "bound")

(* What is left after a folder was worked on.                              *)
LEMMA ProcessedRest ==
  ASSUME LoopInv, NEW p \in Pending, NEW action
  PROVE  /\ RestAfter(p, action) \subseteq todo \ {p}
         /\ HotAfter(p, action) \subseteq Paths
         /\ hot \subseteq HotAfter(p, action)
         /\ mode = "single_path_walk_up" =>
              \A q, r \in RestAfter(p, action) \intersect HotAfter(p, action) : q = r
         /\ Pending \ {p} \subseteq RestAfter(p, action) \intersect HotAfter(p, action)
<1>1. p \in Paths /\ hot \subseteq Paths /\ ParentPath(p) \in Paths
  BY PathFacts DEF Pending, LoopInv, TypeOK, QueueTypeOK
<1>2. RestAfter(p, action) \subseteq todo \ {p}
  BY DEF RestAfter
<1>3. hot \subseteq HotAfter(p, action) /\ HotAfter(p, action) \subseteq hot \union {ParentPath(p)}
  BY DEF HotAfter
<1>4. mode = "single_path_walk_up" => Pending = {p}
  BY DEF LoopInv, BatchShape
<1>5. mode = "single_path_walk_up" =>
        RestAfter(p, action) \intersect HotAfter(p, action) \subseteq {ParentPath(p)}
  BY <1>2, <1>3, <1>4 DEF Pending
<1>6. mode # "single_path_walk_up" => RestAfter(p, action) = todo \ {p}
  BY DEF RestAfter
<1>7. Pending \ {p} \subseteq RestAfter(p, action) \intersect HotAfter(p, action)
  BY <1>3, <1>4, <1>6 DEF Pending
<1> QED BY <1>1, <1>2, <1>3, <1>5, <1>7

(* A folder that was worked on is up to date, and a parent that is not any *)
(* more is worked on next, pending, or beyond the bound.                   *)
LEMMA ProcessedStep ==
  ASSUME LoopInv, NEW p \in Paths, Processed(p), LoopGoesOn
  PROVE  LoopInv'
<1>1. p \in Pending
  BY DEF Processed, DeepestWave
<1>2. PICK action : ProcessedWith(p, action)
  BY DEF Processed, ProcessedWith
<1>3. UNCHANGED <<exists, pend>>
  BY DEF Processed
<1> DEFINE rest == RestAfter(p, action)
           dirty == HotAfter(p, action)
           above == (({ParentPath(p)} \ (rest \union {p})) \intersect (stale' \ stale)) \ pend
<1>4. QueueTypeOK /\ stale \subseteq exists /\ ParentPath(p) \in Paths /\ SeedOf(p) \in Paths
  BY <1>1, PathFacts, RestFacts DEF LoopInv, TypeOK, QueueTypeOK
<1>5. /\ rest \subseteq todo \ {p} /\ dirty \subseteq Paths
      /\ mode = "single_path_walk_up" => \A q, r \in rest \intersect dirty : q = r
      /\ Pending \ {p} \subseteq rest \intersect dirty
  BY <1>1, ProcessedRest
<1>6. Continue(rest, dirty) /\ stale' = StaleAfter(p, action) /\ adrift' = Lost(above, "bound")
  BY <1>2 DEF ProcessedWith
<1>7. stale' \subseteq exists /\ stale' \subseteq Paths
  BY <1>4, <1>6 DEF StaleAfter, QueueTypeOK
<1>8. /\ adrift' \in [Paths -> Reasons]
      /\ \A q \in stale' : adrift'[q] = IF q \in above THEN "bound" ELSE adrift[q]
  <2>1. "bound" \in Reasons /\ adrift \in [Paths -> Reasons]
    BY <1>4 DEF QueueTypeOK, Reasons
  <2> HIDE DEF above
  <2> QED BY <1>6, <1>7, <2>1, LostFacts
<1>9. Trees
  <2>1. tracked' \subseteq Paths
    BY <1>2, <1>4 DEF ProcessedWith, QueueTypeOK
  <2> QED BY <1>3, <1>7, <1>8, <2>1 DEF Trees
<1>10. Leftover(p, rest, dirty)
  BY <1>5, <1>6 DEF Leftover
<1>11. Books(p)
  <2>1. CASE UNCHANGED <<cool, window, retry>>
    BY <1>3, <1>4, <2>1 DEF QueueTypeOK, Books
  <2>2. CASE Done(p) /\ p \in seeds
    BY <1>3, <1>4, <2>2, LimitsAssumption DEF QueueTypeOK, Books, Done
  <2>3. CASE Done(SeedOf(p)) /\ rest \intersect dirty = {}
    <3>1. mode' = "none"
      BY <1>6, <2>3 DEF Continue
    <3> HIDE DEF rest, dirty
    <3> QED BY <1>3, <1>4, <2>3, <3>1, LimitsAssumption DEF QueueTypeOK, Books, Done
  <2> QED BY <1>2, <2>1, <2>2, <2>3 DEF ProcessedWith
<1>12. KeptInMind(rest, dirty)
  <2> SUFFICES ASSUME NEW q \in stale'
               PROVE  \/ q \in pend' \/ q \in rest \intersect dirty \/ adrift'[q] # "none"
                      \/ q \in seen \union deb
                      \/ \E m \in moves : q \in {m.dst, ParentPath(m.src), ParentPath(m.dst)}
    BY DEF KeptInMind
  <2>1. CASE q \in stale /\ q # p
    <3>1. Carried(q) \/ adrift[q] # "none"
      BY <2>1 DEF LoopInv, Caught, LoopGoesOn
    <3>2. adrift[q] # "none" => adrift'[q] # "none"
      BY <1>8
    <3>3. q \in Pending => q \in rest \intersect dirty
      BY <1>5, <2>1
    <3> HIDE DEF rest, dirty, above
    <3> QED BY <1>3, <3>1, <3>2, <3>3 DEF Carried
  <2>2. CASE ~(q \in stale /\ q # p)
    <3>1. action = "regenerated" /\ p # Root /\ q = ParentPath(p)
      BY <1>6, <2>2 DEF StaleAfter
    <3>2. q # p /\ q \notin stale
      BY <2>2, <3>1, PathFacts
    <3>3. q \in dirty
      BY <3>1 DEF HotAfter, PropagatesUp
    <3>4. CASE q \in rest
      BY <3>3, <3>4
    <3>5. CASE q \notin rest
      <4>1. q \in above \/ q \in pend
        BY <3>1, <3>2, <3>5
      <4> HIDE DEF above, rest, dirty
      <4> QED BY <1>3, <1>8, <4>1
    <3> QED BY <3>4, <3>5
  <2> QED BY <2>1, <2>2
<1> HIDE DEF rest, dirty
<1> QED BY <1>1, <1>9, <1>10, <1>11, <1>12, BatchStep

-----------------------------------------------------------------------------
(* Outside of a batch's own steps nothing happens to it.                   *)
LEMMA OutsideBatch ==
  ASSUME LoopInv, UNCHANGED batch, window' \in Nat, window' <= window
  PROVE  BatchShape' /\ OvershootsByOneBatch' /\ Pending' = Pending
<1>1. Pending' = Pending /\ UNCHANGED <<mode, seeds, todo, hot>>
  BY DEF batch, Pending
<1>2. BatchShape'
  BY <1>1 DEF LoopInv, BatchShape
<1>3. OvershootsByOneBatch'
  <2> SUFFICES ASSUME mode # "none"
               PROVE  window' + Cardinality(seeds \intersect todo) < MaxRegensPerHour + Cardinality(seeds)
    BY <1>1 DEF OvershootsByOneBatch
  <2>1. window + Cardinality(seeds \intersect todo) < MaxRegensPerHour + Cardinality(seeds)
    BY DEF LoopInv, OvershootsByOneBatch
  <2>2. Cardinality(seeds) \in Nat /\ Cardinality(seeds \intersect todo) \in Nat
    <3>1. QueueTypeOK
      BY DEF LoopInv, TypeOK
    <3> QED BY <3>1, SeedsLeft
  <2>3. window \in Nat /\ MaxRegensPerHour \in Nat
    BY LimitsAssumption DEF LoopInv, TypeOK, QueueTypeOK
  <2> QED BY <2>1, <2>2, <2>3
<1> QED BY <1>1, <1>2, <1>3

(* The moves the watcher reports are of folders of the tree.               *)
LEMMA MovedFacts ==
  ASSUME NEW ms, ms \subseteq Move
  PROVE  MovedFolders(ms) \subseteq Paths /\ RowsMoved(ms) \subseteq Paths
<1>1. \A m \in ms : m.src = MoveSrc /\ m.dst = MoveDst
  BY DEF Move
<1>2. MovedFolders(ms) \subseteq Paths
  BY <1>1, MoveFacts, MoveAssumption DEF MovedFolders
<1> QED BY <1>2 DEF RowsMoved

(* The tree reconcile finds every stale folder, but the hidden ones.       *)
LEMMA ReconcileFacts ==
  ASSUME LoopInv, NEW q \in stale, q \notin Hidden
  PROVE  q \in ReconcileFinds
<1>1. q \in exists
  BY DEF LoopInv, TypeOK, QueueTypeOK
<1>2. CASE q \in tracked
  BY <1>1, <1>2 DEF ReconcileFinds, Candidates
<1>3. CASE q \notin tracked /\ q = Root
  BY <1>3 DEF ReconcileFinds
<1>4. CASE q \notin tracked /\ q # Root
  <2> DEFINE S == {p \in exists \ tracked : p # Root}
  <2>1. q \in S
    BY <1>1, <1>4
  <2>2. ~\E r \in S \ {q} : IsPrefixPath(q, r)
    BY <1>1, <1>4 DEF Hidden
  <2>3. q \in DeepestUntracked(S)
    BY <2>1, <2>2 DEF DeepestUntracked
  <2> QED BY <2>3 DEF ReconcileFinds
<1> QED BY <1>2, <1>3, <1>4

(* After the startup reconcile every stale folder is queued or hidden.     *)
LEMMA StartUpStep ==
  ASSUME LoopInv, Start
  PROVE  LoopInv'
<1>1. PICK moved \in SUBSET {Area(s) : s \in active} :
        /\ Enqueue((ReconcileFinds \union moved) \intersect Paths)
        /\ adrift' = [p \in Paths |->
             IF p \in (stale \intersect Hidden) \ moved THEN "hidden" ELSE "none"]
  BY DEF Start
<1>2. /\ pc' = "starting" /\ tracked' = tracked \ Orphans /\ known' = active /\ timer' = active
      /\ clamped' = far \intersect active
      /\ UNCHANGED <<exists, stale, eventsLeft, cool, window, batch, watcher, active, far, turn>>
  BY DEF Start, Reload, TimersFromState, Clamped
<1>3. TypeOK
  BY DEF LoopInv
<1>4. /\ pend' = pend \union ((ReconcileFinds \union moved) \intersect Paths)
      /\ pend' \subseteq Paths /\ retry' \in [Paths -> 0 .. MaxRetries]
  <2>1. QueueTypeOK /\ (ReconcileFinds \union moved) \intersect Paths \in SUBSET Paths
    BY <1>3 DEF TypeOK
  <2> HIDE DEF Start
  <2> QED BY <1>1, <2>1, EnqueueFacts
<1>5. adrift' \in [Paths -> Reasons]
  BY <1>1 DEF Reasons
<1>6. TypeOK'
  BY <1>2, <1>3, <1>4, <1>5 DEF TypeOK, QueueTypeOK, batch, watcher
<1>7. window \in Nat
  BY <1>3 DEF TypeOK, QueueTypeOK
<1>8. BatchShape' /\ OvershootsByOneBatch'
  BY <1>2, <1>7, OutsideBatch
<1>9. Grounded' /\ Watched'
  BY <1>2 DEF LoopInv, Grounded, Watched, Running
<1>10. Caught'
  <2> SUFFICES ASSUME NEW q \in stale PROVE q \in pend' \/ adrift'[q] # "none"
    BY <1>2 DEF Caught, Carried
  <2>1. q \in Paths
    BY <1>3 DEF TypeOK, QueueTypeOK
  <2>2. CASE q \in Hidden /\ q \notin moved
    BY <1>1, <2>1, <2>2
  <2>3. CASE q \in moved
    BY <1>4, <2>1, <2>3
  <2>4. CASE q \notin Hidden
    BY <1>4, <2>1, <2>4, ReconcileFacts
  <2> QED BY <2>2, <2>3, <2>4
<1> QED BY <1>6, <1>8, <1>9, <1>10 DEF LoopInv

(* The watcher starts.                                                     *)
LEMMA WatcherStep ==
  ASSUME LoopInv, StartWatcher
  PROVE  LoopInv'
<1>1. /\ pc = "starting" /\ pc' = "gather" /\ watching'
      /\ UNCHANGED <<files, queue, batch, seen, deb, moves, poller>>
  BY DEF StartWatcher
<1>2. TypeOK'
  BY <1>1 DEF StartWatcher, LoopInv, TypeOK, QueueTypeOK, files, tree, queue, batch, poller
<1>3. window \in Nat /\ window' = window
  BY <1>1 DEF LoopInv, TypeOK, QueueTypeOK, queue
<1>4. BatchShape' /\ OvershootsByOneBatch' /\ Pending' = Pending
  BY <1>1, <1>3, OutsideBatch
<1>5. Grounded' /\ Watched'
  BY <1>1 DEF LoopInv, Grounded, Watched, files, tree
<1>6. Caught'
  BY <1>1, <1>4 DEF LoopInv, Caught, Carried, files, tree, queue
<1> QED BY <1>2, <1>4, <1>5, <1>6 DEF LoopInv

(* What the loop gathers from the watcher it enqueues, or it waits for     *)
(* quiet.                                                                  *)
LEMMA GatherStep ==
  ASSUME LoopInv, NEW quiet \in SUBSET Paths, NEW reload \in BOOLEAN, NEW due \in SUBSET Sources,
         Gather(quiet, reload, due)
  PROVE  LoopInv'
<1> DEFINE S == MovedFolders(moves) \union Changed(quiet)
<1>1. /\ pc = "gather" /\ pc' = "poll" /\ tracked' = RowsMoved(moves)
      /\ Enqueue(S) /\ adrift' = Found(S) /\ moves' = {}
      /\ seen' = {} /\ deb' = (deb \union seen) \ quiet
      /\ UNCHANGED <<exists, stale, eventsLeft, cool, window, batch, watching, active, far>>
  BY DEF Gather, DrainMoves, DrainEvents
<1>2. /\ turn' \subseteq Sources /\ timer' \subseteq Sources /\ known' \subseteq Sources
      /\ clamped' \subseteq timer'
  BY DEF Gather, LoopInv, TypeOK, TimersFromState, Clamped
<1>3. TypeOK /\ QueueTypeOK
  BY DEF LoopInv, TypeOK
<1>4. MovedFolders(moves) \subseteq Paths /\ RowsMoved(moves) \subseteq Paths
  BY <1>3, MovedFacts DEF TypeOK
<1>5. S \in SUBSET Paths
  BY <1>4 DEF Changed
<1> HIDE DEF S
<1>6. pend' = pend \union S /\ pend' \subseteq Paths /\ retry' \in [Paths -> 0 .. MaxRetries]
  BY <1>1, <1>3, <1>5, EnqueueFacts
<1>7. adrift' \in [Paths -> Reasons] /\ \A q \in Paths \ S : adrift'[q] = adrift[q]
  BY <1>1, <1>3, FoundFacts DEF QueueTypeOK
<1>8. QueueTypeOK'
  BY <1>1, <1>3, <1>4, <1>6, <1>7 DEF QueueTypeOK, batch
<1>9. TypeOK'
  BY <1>1, <1>2, <1>3, <1>8 DEF TypeOK
<1>10. window \in Nat
  BY <1>3 DEF QueueTypeOK
<1>11. BatchShape' /\ OvershootsByOneBatch' /\ Pending' = Pending
  BY <1>1, <1>10, OutsideBatch
<1>12. Grounded' /\ Watched'
  BY <1>1 DEF LoopInv, Grounded, Watched, Running
<1>13. Caught'
  <2> SUFFICES ASSUME NEW q \in stale PROVE Carried(q)' \/ adrift'[q] # "none"
    BY <1>1 DEF Caught
  <2>1. q \in Paths
    BY <1>3 DEF QueueTypeOK
  <2>2. Carried(q) \/ adrift[q] # "none"
    BY <1>1 DEF LoopInv, Caught
  <2>3. CASE q \in S
    BY <1>6, <2>3 DEF Carried
  <2>4. CASE q \notin S
    <3>1. q \notin MovedFolders(moves) /\ q \notin quiet
      BY <2>4 DEF S, Changed
    <3>2. ~\E m \in moves : q \in {m.dst, ParentPath(m.src), ParentPath(m.dst)}
      BY <3>1 DEF MovedFolders
    <3>3. adrift'[q] = adrift[q]
      BY <1>7, <2>1, <2>4
    <3> QED BY <1>1, <1>6, <1>11, <2>2, <3>1, <3>2, <3>3 DEF Carried
  <2> QED BY <2>3, <2>4
<1> QED BY <1>9, <1>11, <1>12, <1>13 DEF LoopInv

(* What a poll changes of the sources are sources.                         *)
LEMMA PolledFacts ==
  ASSUME TypeOK, NEW s \in Sources, NEW outcome, NEW children \in Children(outcome),
         Polled(s, outcome, children)
  PROVE  /\ active' \subseteq Sources /\ known' \subseteq Sources /\ timer' \subseteq Sources
         /\ far' \subseteq active' /\ clamped' \subseteq timer'
<1>1. children \subseteq Sources
  BY DEF Children
<1>2. active' \subseteq active \union children
  BY DEF Polled
<1>3. timer' \subseteq timer \union {s} \union children
  BY DEF Polled
<1>4. known' \in {known, active'}
  BY DEF Polled
<1>5. far' \subseteq active'
  BY DEF Polled, NotesTime, TypeOK
<1>6. clamped' \subseteq timer'
  BY DEF Polled, TypeOK
<1> QED BY <1>1, <1>2, <1>3, <1>4, <1>5, <1>6 DEF TypeOK

(* A poll that changes a folder enqueues it.                               *)
LEMMA PollStep ==
  ASSUME LoopInv, NEW s \in Sources, Poll(s)
  PROVE  LoopInv'
<1>1. /\ pc = "poll" /\ turn' = turn \ {s}
      /\ UNCHANGED <<pc, exists, tracked, cool, window, batch, watching, deb, moves>>
  BY DEF Poll
<1>2. TypeOK /\ QueueTypeOK
  BY DEF LoopInv, TypeOK
<1>3. window \in Nat
  BY <1>2 DEF QueueTypeOK
<1>4. BatchShape' /\ OvershootsByOneBatch' /\ Pending' = Pending
  BY <1>1, <1>3, OutsideBatch
<1>5. Grounded' /\ Watched'
  BY <1>1 DEF LoopInv, Grounded, Watched, Running
<1>6. /\ active' \subseteq Sources /\ known' \subseteq Sources /\ timer' \subseteq Sources
      /\ far' \subseteq active' /\ clamped' \subseteq timer'
  <2>1. CASE UNCHANGED <<active, far, known, timer, clamped>>
    BY <1>2, <2>1 DEF TypeOK
  <2>2. CASE \E outcome \in PollOutcomes(s) \ {"changed"} :
               \E children \in Children(outcome) : Polled(s, outcome, children)
    BY <1>2, <2>2, PolledFacts
  <2>3. CASE \E children \in Children("changed") : Polled(s, "changed", children)
    BY <1>2, <2>3, PolledFacts
  <2> QED BY <2>1, <2>2, <2>3 DEF Poll
<1>7. eventsLeft' \in 0 .. MaxEvents
  <2>1. eventsLeft' = eventsLeft \/ (eventsLeft > 0 /\ eventsLeft' = eventsLeft - 1)
    BY DEF Poll, Cost
  <2> QED BY <1>2, <2>1, EventsAssumption DEF TypeOK
<1> DEFINE Kept == UNCHANGED <<stale, adrift, pend, retry, seen>>
<1>8. Kept \/ AreaChanged(s)
  BY DEF Poll
<1>9. CASE Kept
  <2>1. TypeOK'
    BY <1>1, <1>2, <1>6, <1>7, <1>9 DEF TypeOK, QueueTypeOK, batch
  <2>2. Caught'
    BY <1>1, <1>4, <1>9 DEF LoopInv, Caught, Carried
  <2> QED BY <1>4, <1>5, <2>1, <2>2 DEF LoopInv
<1>10. CASE AreaChanged(s)
  <2>1. /\ stale' = stale \union ({Area(s)} \intersect exists)
        /\ seen' = seen \union {Area(s)}
        /\ Enqueue({Area(s)}) /\ adrift' = Found({Area(s)})
    BY <1>10 DEF AreaChanged
  <2>2. {Area(s)} \in SUBSET Paths
    BY AreaAssumption
  <2>3. pend' = pend \union {Area(s)} /\ pend' \subseteq Paths /\ retry' \in [Paths -> 0 .. MaxRetries]
    BY <1>2, <2>1, <2>2, EnqueueFacts
  <2>4. adrift' \in [Paths -> Reasons] /\ \A q \in Paths \ {Area(s)} : adrift'[q] = adrift[q]
    BY <1>2, <2>1, FoundFacts DEF QueueTypeOK
  <2>5. QueueTypeOK'
    BY <1>1, <1>2, <2>1, <2>3, <2>4 DEF QueueTypeOK, batch
  <2>6. TypeOK'
    BY <1>1, <1>2, <1>6, <1>7, <2>1, <2>2, <2>5 DEF TypeOK
  <2>7. Caught'
    <3> SUFFICES ASSUME NEW q \in stale' PROVE Carried(q)' \/ adrift'[q] # "none"
      BY DEF Caught
    <3>1. CASE q = Area(s)
      BY <2>3, <3>1 DEF Carried
    <3>2. CASE q # Area(s)
      <4>1. q \in stale /\ q \in Paths
        BY <1>2, <2>1, <3>2 DEF QueueTypeOK
      <4>2. Carried(q) \/ adrift[q] # "none"
        BY <1>1, <4>1 DEF LoopInv, Caught
      <4>3. adrift'[q] = adrift[q]
        BY <2>4, <3>2, <4>1
      <4>4. pend \subseteq pend' /\ seen \union deb \subseteq seen' \union deb' /\ moves' = moves
        BY <1>1, <2>1, <2>3
      <4> QED BY <1>4, <4>2, <4>3, <4>4 DEF Carried
    <3> QED BY <3>1, <3>2
  <2> QED BY <1>4, <1>5, <2>6, <2>7 DEF LoopInv
<1> QED BY <1>8, <1>9, <1>10

-----------------------------------------------------------------------------
(* A daemon that is gone owes nothing.                                     *)
LEMMA ForgetStep ==
  ASSUME LoopInv, Forget, tracked' \subseteq Paths, eventsLeft' \in 0 .. MaxEvents
  PROVE  LoopInv'
<1>1. /\ pc' = "down" /\ watching' = FALSE /\ seen' = {} /\ deb' = {} /\ moves' = {}
      /\ known' = {} /\ timer' = {} /\ clamped' = {} /\ turn' = {}
      /\ adrift' = [p \in Paths |-> "none"] /\ UNCHANGED <<exists, stale, active, far>>
      /\ pend' = {} /\ retry' = [p \in Paths |-> 0] /\ cool' = {} /\ window' = 0
      /\ mode' = "none" /\ seeds' = {} /\ todo' = {} /\ hot' = {}
  BY DEF Forget, ForgetQueue
<1>2. adrift' \in [Paths -> Reasons] /\ retry' \in [Paths -> 0 .. MaxRetries]
  BY <1>1, LimitsAssumption DEF Reasons
<1>3. QueueTypeOK'
  BY <1>1, <1>2 DEF LoopInv, TypeOK, QueueTypeOK
<1>4. TypeOK'
  BY <1>1, <1>3 DEF LoopInv, TypeOK
<1>5. BatchShape' /\ Grounded' /\ Watched' /\ Caught' /\ OvershootsByOneBatch'
  BY <1>1 DEF LoopInv, BatchShape, Grounded, Watched, Running, Caught, OvershootsByOneBatch
<1> QED BY <1>4, <1>5 DEF LoopInv

(* What costs an event leaves that many less.                              *)
LEMMA CostFacts ==
  ASSUME TypeOK, NEW b \in BOOLEAN, Cost(b)
  PROVE  eventsLeft' \in 0 .. MaxEvents
<1>1. eventsLeft' = eventsLeft \/ (eventsLeft > 0 /\ eventsLeft' = eventsLeft - 1)
  BY DEF Cost
<1> QED BY <1>1, EventsAssumption DEF TypeOK

(* The daemon stops or dies.                                               *)
LEMMA StopStep ==
  ASSUME LoopInv, Stop \/ Die
  PROVE  LoopInv'
<1>1. TypeOK /\ tracked \subseteq Paths /\ moves \subseteq Move
  BY DEF LoopInv, TypeOK, QueueTypeOK
<1>2. eventsLeft' \in 0 .. MaxEvents
  BY <1>1, CostFacts DEF Stop, Die
<1>3. RowsMoved(moves) \subseteq Paths
  BY <1>1, MovedFacts
<1>4. tracked' \subseteq Paths
  BY <1>1, <1>3 DEF Stop, Die
<1> QED BY <1>2, <1>4, ForgetStep DEF Stop, Die

(* The ways of adrift when the user changes something.                     *)
LEMMA AdriftFacts ==
  ASSUME TypeOK, NEW S, NEW why, AdriftWhenUnseen(S, why), stale' \subseteq Paths
  PROVE  /\ adrift' \in [Paths -> Reasons]
         /\ \A q \in stale' :
              \/ adrift'[q] # "none"
              \/ /\ adrift[q] = "none"
                 /\ pc = "starting" /\ q \in S => q \in pend
                 /\ pc # "down" /\ q \in why => Carried(q)
<1>1. adrift \in [Paths -> Reasons]
  BY DEF TypeOK, QueueTypeOK
<1> DEFINE new(p) == IF pc = "starting" /\ p \in S \intersect stale' /\ p \notin pend THEN "gap"
                     ELSE IF p \in why /\ pc # "down" /\ ~Carried(p) THEN "origin"
                     ELSE IF p \in stale' THEN adrift[p] ELSE "none"
<1>2. adrift' = [p \in Paths |-> new(p)]
  BY DEF AdriftWhenUnseen
<1>3. \A p \in Paths : new(p) \in Reasons
  BY <1>1 DEF Reasons
<1>4. \A q \in stale' : \/ new(q) # "none"
                        \/ /\ adrift[q] = "none"
                           /\ pc = "starting" /\ q \in S => q \in pend
                           /\ pc # "down" /\ q \in why => Carried(q)
  OBVIOUS
<1> HIDE DEF new
<1> QED BY <1>2, <1>3, <1>4

(* The folders a user changes reach the watcher, or are adrift.            *)
Noticed(S, why) ==
  /\ S \subseteq Paths /\ stale' \ stale \subseteq S
  /\ seen \subseteq seen' /\ seen' \subseteq Paths
  /\ moves \subseteq moves' /\ moves' \subseteq Move
  /\ watching => \A q \in S : \/ q \in why \/ q \in seen'
                              \/ \E m \in moves' : q \in {m.dst, ParentPath(m.src), ParentPath(m.dst)}

(* A step of the user, whatever it is.                                     *)
LEMMA UserStep ==
  ASSUME LoopInv, NEW S, NEW why, AdriftWhenUnseen(S, why), Noticed(S, why), Cost(TRUE),
         exists' \subseteq Paths, stale' \subseteq exists', Grounded',
         UNCHANGED <<tracked, queue, batch, pc, watching, deb, poller>>
  PROVE  LoopInv'
<1>1. TypeOK /\ window \in Nat /\ window' = window
  BY DEF LoopInv, TypeOK, QueueTypeOK, queue
<1>2. /\ adrift' \in [Paths -> Reasons]
      /\ \A q \in stale' :
           \/ adrift'[q] # "none"
           \/ /\ adrift[q] = "none"
              /\ pc = "starting" /\ q \in S => q \in pend
              /\ pc # "down" /\ q \in why => Carried(q)
  BY <1>1, AdriftFacts
<1>3. eventsLeft' \in 0 .. MaxEvents
  BY <1>1, CostFacts
<1>4. QueueTypeOK'
  BY <1>1, <1>2 DEF TypeOK, QueueTypeOK, queue, batch
<1>5. TypeOK'
  BY <1>1, <1>3, <1>4 DEF TypeOK, poller, Noticed
<1>6. BatchShape' /\ OvershootsByOneBatch' /\ Pending' = Pending
  BY <1>1, OutsideBatch
<1>7. Watched'
  BY DEF LoopInv, Watched, Running
<1>8. \A q : Carried(q) => Carried(q)'
  BY <1>6 DEF Carried, Noticed, queue
<1>9. Caught'
  <2> SUFFICES ASSUME pc # "down", NEW q \in stale', adrift'[q] = "none"
               PROVE  Carried(q)'
    BY DEF Caught
  <2>1. /\ adrift[q] = "none"
        /\ pc = "starting" /\ q \in S => q \in pend
        /\ q \in why => Carried(q)
    BY <1>2
  <2>2. CASE q \in stale
    BY <1>8, <2>1, <2>2 DEF LoopInv, Caught
  <2>3. CASE q \notin stale
    <3>1. q \in S
      BY <2>3 DEF Noticed
    <3>2. CASE pc = "starting"
      BY <1>8, <2>1, <3>1, <3>2 DEF Carried
    <3>3. CASE pc # "starting"
      <4>1. watching
        BY <3>3 DEF LoopInv, Watched, Running
      <4> QED BY <1>8, <2>1, <3>1, <4>1 DEF Noticed, Carried
    <3> QED BY <3>2, <3>3
  <2> QED BY <2>2, <2>3
<1> QED BY <1>5, <1>6, <1>7, <1>9 DEF LoopInv

(* A file is edited.                                                       *)
LEMMA EditStep ==
  ASSUME LoopInv, NEW p \in Paths, UserEdits(p)
  PROVE  LoopInv'
<1>1. /\ p \in exists /\ Cost(TRUE) /\ stale' = stale \union {p} /\ AdriftWhenUnseen({p}, {})
      /\ seen' = IF watching THEN seen \union {p} ELSE seen
      /\ UNCHANGED <<exists, tracked, queue, batch, pc, watching, deb, moves, poller>>
  BY DEF UserEdits, Notice
<1>2. exists' \subseteq Paths /\ stale' \subseteq exists' /\ Grounded'
  BY <1>1 DEF LoopInv, TypeOK, QueueTypeOK, Grounded
<1>3. Noticed({p}, {})
  BY <1>1 DEF LoopInv, TypeOK, Noticed
<1> QED BY <1>1, <1>2, <1>3, UserStep

(* A file goes to another folder: its old one is not heard of.             *)
LEMMA MoveFileStep ==
  ASSUME LoopInv, NEW p \in Paths, NEW q \in Paths, UserMovesFile(p, q)
  PROVE  LoopInv'
<1>1. /\ p \in exists /\ q \in exists /\ Cost(TRUE) /\ stale' = stale \union {p, q}
      /\ AdriftWhenUnseen({p, q}, {p})
      /\ seen' = IF watching THEN seen \union {q} ELSE seen
      /\ UNCHANGED <<exists, tracked, queue, batch, pc, watching, deb, moves, poller>>
  BY DEF UserMovesFile, Notice
<1>2. exists' \subseteq Paths /\ stale' \subseteq exists' /\ Grounded'
  BY <1>1 DEF LoopInv, TypeOK, QueueTypeOK, Grounded
<1>3. Noticed({p, q}, {p})
  BY <1>1 DEF LoopInv, TypeOK, Noticed
<1> QED BY <1>1, <1>2, <1>3, UserStep

(* A folder goes to another place: it and both parents are in the move.    *)
LEMMA MoveFolderStep ==
  ASSUME LoopInv, UserMovesFolder
  PROVE  LoopInv'
<1> DEFINE S == {MoveDst, ParentPath(MoveSrc), ParentPath(MoveDst)}
           move == [src |-> MoveSrc, dst |-> MoveDst]
<1>1. /\ Cost(TRUE)
      /\ exists' = (exists \ {MoveSrc}) \union {MoveDst}
      /\ stale' = (stale \ {MoveSrc}) \union {ParentPath(MoveSrc), ParentPath(MoveDst)}
                    \union (IF MoveSrc \in stale THEN {MoveDst} ELSE {})
      /\ moves' = IF watching THEN {move} ELSE moves
      /\ AdriftWhenUnseen(S, {})
      /\ UNCHANGED <<tracked, queue, batch, pc, watching, seen, deb, poller>>
  BY DEF UserMovesFolder
<1>2. TypeOK /\ exists \subseteq Paths /\ stale \subseteq exists /\ moves \subseteq Move /\ seen \subseteq Paths
  BY DEF LoopInv, TypeOK, QueueTypeOK
<1>3. S \subseteq Paths /\ {ParentPath(MoveSrc), ParentPath(MoveDst)} \subseteq Paths \ {MoveSrc, MoveDst}
  BY MoveFacts, MoveAssumption
<1>4. exists' \subseteq Paths /\ Grounded'
  BY <1>1, <1>2, MoveAssumption DEF LoopInv, Grounded
<1>5. stale' \subseteq exists'
  BY <1>1, <1>2, <1>3 DEF LoopInv, Grounded
<1>6. move \in Move /\ \A m \in Move : m = move
  <2>1. \A m \in Move : m.src = MoveSrc /\ m.dst = MoveDst /\ m = [src |-> m.src, dst |-> m.dst]
    BY DEF Move
  <2> QED BY <2>1 DEF Move
<1>7. Noticed(S, {})
  <2>1. stale' \ stale \subseteq S
    BY <1>1
  <2>2. moves \subseteq moves' /\ moves' \subseteq Move
    BY <1>1, <1>2, <1>6
  <2>3. watching => \A q \in S : \E m \in moves' : q \in {m.dst, ParentPath(m.src), ParentPath(m.dst)}
    BY <1>1
  <2> HIDE DEF S, move
  <2> QED BY <1>1, <1>2, <1>3, <2>1, <2>2, <2>3 DEF Noticed
<1> HIDE DEF S, move
<1> QED BY <1>1, <1>4, <1>5, <1>7, UserStep

(* Sources come and go, and so does the distance of their times.           *)
LEMMA RegistryStep ==
  ASSUME LoopInv, Registry \/ ClockSet
  PROVE  LoopInv'
<1>1. /\ Cost(TRUE) /\ active' \subseteq active \union Sources /\ far' \subseteq active'
      /\ UNCHANGED <<tree, queue, batch, pc, watcher, known, timer, clamped, turn>>
  BY DEF Registry, ClockSet, LoopInv, TypeOK
<1>2. TypeOK /\ window \in Nat /\ window' = window
  BY <1>1 DEF LoopInv, TypeOK, QueueTypeOK, queue
<1>3. eventsLeft' \in 0 .. MaxEvents
  BY <1>1, <1>2, CostFacts
<1>4. BatchShape' /\ OvershootsByOneBatch' /\ Pending' = Pending
  BY <1>1, <1>2, OutsideBatch
<1>5. QueueTypeOK'
  BY <1>1, <1>2 DEF TypeOK, QueueTypeOK, tree, queue, batch
<1>6. TypeOK'
  BY <1>1, <1>2, <1>3, <1>5 DEF TypeOK, watcher
<1>7. Grounded' /\ Watched' /\ Caught'
  BY <1>1, <1>4 DEF LoopInv, Grounded, Watched, Caught, Running, Carried, tree, queue, watcher
<1> QED BY <1>4, <1>6, <1>7 DEF LoopInv

(* Time passes: a cooldown ends, an entry of the last hour drops out, or a *)
(* persisted time comes near.                                              *)
LEMMA TimeStep ==
  ASSUME LoopInv, Time
  PROVE  LoopInv'
<1>1. TypeOK /\ window \in Nat
  BY DEF LoopInv, TypeOK, QueueTypeOK
<1>2. /\ cool' \subseteq cool /\ window' \in Nat /\ window' <= window
      /\ far' \subseteq far
      /\ UNCHANGED <<tree, pend, retry, batch, eventsLeft, pc, watcher, active, known, timer, clamped, turn>>
  <2>1. CASE QueueElapses
    BY <1>1, <2>1 DEF QueueElapses, CoolDown, poller
  <2>2. CASE HourElapses
    BY <1>1, <2>2, LimitsAssumption DEF HourElapses, AnHourPasses, RateLimited, poller
  <2>3. CASE MonthsElapse
    BY <1>1, <2>3 DEF MonthsElapse, files, queue
  <2> QED BY <2>1, <2>2, <2>3 DEF Time
<1>3. BatchShape' /\ OvershootsByOneBatch' /\ Pending' = Pending
  BY <1>2, OutsideBatch
<1>4. QueueTypeOK'
  BY <1>1, <1>2 DEF TypeOK, QueueTypeOK, tree, batch
<1>5. TypeOK'
  BY <1>1, <1>2, <1>4 DEF TypeOK, watcher
<1>6. Grounded' /\ Watched' /\ Caught'
  BY <1>2, <1>3 DEF LoopInv, Grounded, Watched, Caught, Running, Carried, tree, watcher
<1> QED BY <1>3, <1>5, <1>6 DEF LoopInv

-----------------------------------------------------------------------------
(* One folder of the batch, or one that goes wrong.                        *)
LEMMA RegenStep ==
  ASSUME LoopInv, (\E p \in Paths : Regen(p)) \/ RegenGoesWrong
  PROVE  LoopInv'
<1>1. TypeOK
  BY DEF LoopInv
<1>2. eventsLeft' \in 0 .. MaxEvents
  BY <1>1, CostFacts DEF Regen, RegenGoesWrong
<1>3. LoopGoesOn
  BY <1>2 DEF Regen, RegenGoesWrong, LoopGoesOn
<1>4. CASE \E p \in Paths : Regen(p)
  BY <1>3, <1>4, ProcessedStep DEF Regen
<1>5. CASE RegenGoesWrong
  BY <1>3, <1>5, RaisedStep, RefusedStep, FailedStep DEF RegenGoesWrong
<1> QED BY <1>4, <1>5

(* Every step keeps the invariant.                                         *)
LEMMA LoopInvStep == LoopInv /\ [Next]_vars => LoopInv'
<1> SUFFICES ASSUME LoopInv, [Next]_vars PROVE LoopInv'
  OBVIOUS
<1>1. CASE Start
  BY <1>1, StartUpStep
<1>2. CASE StartWatcher
  BY <1>2, WatcherStep
<1>3. CASE \E quiet \in SUBSET Paths, reload \in BOOLEAN, due \in SUBSET Sources :
             Gather(quiet, reload, due)
  BY <1>3, GatherStep
<1>4. CASE \E s \in Sources : Poll(s)
  BY <1>4, PollStep
<1>5. CASE \E ready \in SUBSET Paths : StartRegen(ready)
  BY <1>5, StartStep
<1>6. CASE (\E p \in Paths : Regen(p)) \/ RegenGoesWrong
  BY <1>6, RegenStep
<1>7. CASE Time
  BY <1>7, TimeStep
<1>8. CASE \E p \in Paths : UserEdits(p)
  BY <1>8, EditStep
<1>9. CASE \E p, q \in Paths : UserMovesFile(p, q)
  BY <1>9, MoveFileStep
<1>10. CASE UserMovesFolder
  BY <1>10, MoveFolderStep
<1>11. CASE Registry \/ ClockSet
  BY <1>11, RegistryStep
<1>12. CASE Stop \/ Die
  BY <1>12, StopStep
<1>13. CASE UNCHANGED vars
  <2>1. UNCHANGED <<tree, queue, batch, watcher, poller, pc, eventsLeft>>
    BY <1>13 DEF vars, files
  <2> QED BY <2>1 DEF LoopInv, TypeOK, QueueTypeOK, BatchShape, Grounded, Watched, Caught,
             OvershootsByOneBatch, Running, Carried, Pending, tree, queue, batch, watcher, poller
<1> QED BY <1>1, <1>2, <1>3, <1>4, <1>5, <1>6, <1>7, <1>8, <1>9, <1>10, <1>11, <1>12, <1>13
        DEF Next, Loop, Environment

(* The invariant holds in every run of the daemon.                         *)
LEMMA LoopInvAlways == Spec => []LoopInv
<1>1. Init => LoopInv
  BY LoopInvInit
<1>2. LoopInv /\ [Next]_vars => LoopInv'
  BY LoopInvStep
<1> QED BY <1>1, <1>2, PTL DEF Spec

(* Every variable of the loop, its queues and its batch keeps its type.    *)
THEOREM LoopTyped == Spec => []TypeOK
<1>1. LoopInv => TypeOK
  BY DEF LoopInv
<1> QED BY <1>1, LoopInvAlways, PTL

(* While the daemon runs, a stale folder is in one of its queues or in the *)
(* batch, or the code let go of it in a known way, for any tree, sources   *)
(* and limits and any number of changes.                                   *)
THEOREM ChangesAlwaysCarried == Spec => []ChangesAreCarried
<1>1. LoopInv => ChangesAreCarried
  BY DEF LoopInv, Caught, ChangesAreCarried, Running
<1> QED BY <1>1, LoopInvAlways, PTL

(* The hourly limit is exceeded by one batch at most.                      *)
THEOREM OvershootIsBounded == Spec => []OvershootsByOneBatch
<1>1. LoopInv => OvershootsByOneBatch
  BY DEF LoopInv
<1> QED BY <1>1, LoopInvAlways, PTL

=============================================================================

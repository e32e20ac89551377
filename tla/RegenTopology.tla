---------------------------- MODULE RegenTopology ----------------------------
(***************************************************************************)
(* The paths of the knowledge tree and the order in which folders are      *)
(* regenerated (regen/topology.py).  A path is the sequence of its         *)
(* components, the root is the empty one.                                  *)
(***************************************************************************)
EXTENDS Naturals, Sequences

Root == << >>

(* parent_path: the root is its own parent.                                *)
ParentPath(p) == IF p = Root THEN Root ELSE SubSeq(p, 1, Len(p) - 1)

IsPrefixPath(p, q) == Len(p) <= Len(q) /\ SubSeq(q, 1, Len(p)) = p

Ancestors(p) == {SubSeq(p, 1, n) : n \in 0 .. Len(p)}

(* PROPAGATION_RULES: the outcomes of a folder after which its parent is   *)
(* worked on.  An action it does not know does not propagate.              *)
PropagatesUp(action) == action \in {"regenerated", "skipped_no_content", "cleaned_up"}

(* walk_up_chain: the path and its ancestors, but no more than maxDepth.   *)
WalkUpChain(p, maxDepth) ==
  [i \in 1 .. (IF Len(p) + 1 < maxDepth THEN Len(p) + 1 ELSE maxDepth) |->
     SubSeq(p, 1, Len(p) + 1 - i)]

(* compute_waves takes in every ancestor of what is ready.                 *)
WithAncestors(paths) == UNION {Ancestors(p) : p \in paths}

(* The wave that comes first: all paths of the greatest depth.             *)
DeepestWave(paths) == {p \in paths : \A q \in paths : Len(q) <= Len(p)}

(* decide_queue_batch: one ready path is walked up from, several are taken *)
(* together.                                                               *)
Strategy(ready) ==
  IF \E p \in ready : ready = {p} THEN "single_path_walk_up" ELSE "wave_batch"

ScheduledPaths(ready, maxDepth) ==
  IF Strategy(ready) = "wave_batch" THEN WithAncestors(ready)
  ELSE LET chain == WalkUpChain(CHOOSE p \in ready : TRUE, maxDepth)
       IN {chain[i] : i \in DOMAIN chain}

=============================================================================

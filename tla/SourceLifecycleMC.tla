-------------------------- MODULE SourceLifecycleMC --------------------------
(* Model values and symmetry for the runs of SourceLifecycle.              *)
EXTENDS SourceLifecycle, TLC

CONSTANTS daemon, crashed, c1, c2, a1, a2

OneClient == {c1}
TwoClients == {c1, c2}
TwoAreas == {a1, a2}
OneClientOwners == {daemon, crashed, c1}
TwoClientOwners == {daemon, crashed, c1, c2}

AllCommands == {"add", "update", "sync", "remove", "finalize", "move", "reconcile"}
UpdateAndRemove == {"update", "remove"}

(* Neither the clients nor the areas are told apart by anything.           *)
Symmetry == Permutations(TwoClients) \union Permutations(TwoAreas)
=============================================================================

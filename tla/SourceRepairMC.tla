--------------------------- MODULE SourceRepairMC ---------------------------
(* Model values for the run of SourceRepair: three areas, so that copies   *)
(* of the file may be in two places other than the manifest's.             *)
EXTENDS SourceRepair

CONSTANTS daemon, crashed, c1, a1, a2, a3

OneClient == {c1}
OneClientOwners == {daemon, crashed, c1}
ThreeAreas == {a1, a2, a3}
OnlyReconcile == {"reconcile"}
=============================================================================

----------------------------- MODULE SchedulerMC -----------------------------
(* Values for the run of Scheduler: two sources, one polling interval, and *)
(* persisted times in the past, near, and beyond the clamp.                *)
EXTENDS Scheduler, TLC

CONSTANTS k1, k2

TwoKeys == {k1, k2}
SomeIntervals == {2}
SomeOffsets == {-1, 1, 4}

Symmetry == Permutations(TwoKeys)
=============================================================================

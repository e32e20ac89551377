------------------------------ MODULE RegenRow ------------------------------
(***************************************************************************)
(* One row of the regen_locks table (runtime/repository.py): who works on  *)
(* an area, and how the last work ended.  Each operator is one statement,  *)
(* or one immediate transaction, of the code.  The start time is reduced   *)
(* to what is asked of it: did a running work start too long ago.          *)
(***************************************************************************)
CONSTANTS
  Sessions,     \* owner ids, one for each regen_session
  Nobody        \* NULL

ASSUME NobodyAssumption == Nobody \notin Sessions

Statuses == {"absent", "idle", "running", "failed"}

(* What is running has an owner, and only that can be overdue.             *)
Rows ==
  {row \in [status : Statuses, owner : Sessions \union {Nobody}, overdue : BOOLEAN] :
     /\ row.status = "running" => row.owner # Nobody
     /\ row.status = "absent" => row.owner = Nobody
     /\ row.overdue => row.status = "running"}

Row(status, owner) == [status |-> status, owner |-> owner, overdue |-> FALSE]

NoRow == Row("absent", Nobody)

(* A mutated form: only work that nobody owns is stale.                    *)
IsStaleUnowned(row) == row.status = "running" /\ row.overdue /\ row.owner = Nobody

IsStale(row) == row.status = "running" /\ row.overdue

(* A mutated form: any work in progress may be taken over.                 *)
MayAcquireRunning(row, s) == row.owner \in {Nobody, s} \/ row.status = "running"

MayAcquire(row, s) == row.owner \in {Nobody, s} \/ IsStale(row)

Acquired(s) == Row("running", s)

(* release_regen_ownership: the caller is told whether it was the owner.   *)
MayRelease(row, s) == row.owner = s

(* A mutated form: the owner is cleared and the status is not written.     *)
ReleasedOwnerOnly(status) == Row("running", Nobody)

Released(status) == Row(status, Nobody)

(* _resolve_regen_owner: a lifecycle write keeps the owner; it can neither *)
(* claim the row nor transfer it.                                          *)
MaySave(row, owner) == owner = Nobody \/ owner = row.owner

(* A mutated form: the owner is the one that is written.                   *)
SavedByLast(row, new) == new

Saved(row, new) == [new EXCEPT !.owner = row.owner]

(* reclaim_stale_running_states has looked at the row before: it resets    *)
(* it whatever it says by now.                                             *)
Reclaimed(row) == IF row.status = "absent" THEN row ELSE Row("idle", Nobody)

(* A mutated form: the status is reset and the owner is not.               *)
OwnedAfterExit(row, s) ==
  IF row.status = "running" /\ row.owner = s THEN Row("idle", s) ELSE row

(* release_owned_running_states: only what is running.                     *)
ReleasedOnExit(row, s) ==
  IF row.status = "running" /\ row.owner = s THEN Row("idle", Nobody) ELSE row

=============================================================================

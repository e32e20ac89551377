----------------------------- MODULE RuntimeRow -----------------------------
(***************************************************************************)
(* One row of the runtime table source_lifecycle_runtime, the machine-     *)
(* local coordination record of one registered source, and the statements  *)
(* runtime/repository.py runs on it.                                       *)
(*                                                                         *)
(* A row keeps the history of local missing observations (confirmed: both  *)
(* timestamps are set) and the lifecycle lease (owner, and live: its       *)
(* expiry is not in the past).  The row may be absent, and it may be       *)
(* present and empty: clearing a lease leaves an all-NULL row behind.      *)
(***************************************************************************)

CONSTANTS
  Owners,    \* operation tokens that may own a lease, those of crashed ones too
  NoOwner    \* lease_owner IS NULL

Row == [present: BOOLEAN, confirmed: BOOLEAN, owner: Owners \union {NoOwner}, live: BOOLEAN]

NoRow == [present |-> FALSE, confirmed |-> FALSE, owner |-> NoOwner, live |-> FALSE]

(* A lease is active while it has an owner and has not expired. *)
LeaseActive(r) == r.owner # NoOwner /\ r.live

(* Only an active lease of another owner refuses an acquisition: a free,   *)
(* an expired and the caller's own lease are all taken over.               *)
MayAcquire(r, p) == LeaseActive(r) => r.owner = p

Acquired(r, p) == [r EXCEPT !.present = TRUE, !.owner = p, !.live = TRUE]

(* Renewal asks for ownership alone: an owner whose lease has expired, but *)
(* was taken by nobody, renews it.                                         *)
MayRenew(r, p) == r.owner = p

Renewed(r) == [r EXCEPT !.live = TRUE]

(* A mutated form: an expired lease is taken to be gone already.           *)
ClearedIfLive(r, p) ==
  IF r.owner = p /\ r.live THEN [r EXCEPT !.owner = NoOwner, !.live = FALSE] ELSE r

(* UPDATE ... WHERE lease_owner = p: it leaves another owner's lease alone. *)
Cleared(r, p) == IF r.owner = p THEN [r EXCEPT !.owner = NoOwner, !.live = FALSE] ELSE r

(* What reconciliation writes over a row whose lease it saw expired.       *)
Stripped(r) == [r EXCEPT !.present = TRUE, !.owner = NoOwner, !.live = FALSE]

Confirmed(r) == [r EXCEPT !.present = TRUE, !.confirmed = TRUE]

Pruned(r) == IF r.owner = NoOwner /\ ~r.confirmed THEN NoRow ELSE r

(* The row an operation leaves when it crashes: its token is never used    *)
(* again, so dead stands for every such token.                             *)
Abandoned(r, p, dead) == IF r.owner = p THEN [r EXCEPT !.owner = dead] ELSE r

=============================================================================

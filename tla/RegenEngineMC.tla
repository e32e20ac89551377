--------------------------- MODULE RegenEngineMC ---------------------------
(* Values for the run of RegenEngine: the daemon, and beside it or after   *)
(* it another daemon, or a CLI call for one path or for all.               *)
EXTENDS RegenEngine

CONSTANTS d, e, v1, v2, n1, n2

KindsOf == {k \in [{d, e} -> {"daemon", "path", "all"}] : k[d] = "daemon"}
FirstArea == [content |-> v1, names |-> n1]
=============================================================================

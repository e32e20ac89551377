---------------------------- MODULE DaemonLoopMC ----------------------------
(* Values for the run of DaemonLoop: a root, a folder and one in it that   *)
(* may be renamed to stand beside it, and a source in that folder.         *)
EXTENDS DaemonLoop

CONSTANTS s1, a, b, c

Tree == {Root, <<a>>, <<a, b>>, <<c>>}
Inner == <<a, b>>
Renamed == <<c>>
InFolder(s) == <<a>>
Trackings == {Tree, {}}
Stales == {{}, {Inner}}
=============================================================================

------------------------------ MODULE MCDevLoop ------------------------------
(* Instance of DevLoop for TLC. *)
EXTENDS DevLoop, TLC

CONSTANTS r1, r2, chat, web

MCRequests == {r1, r2}
MCSurfaces == {chat, web}
Symmetry   == Permutations(MCSurfaces) \cup Permutations(MCRequests)
==============================================================================

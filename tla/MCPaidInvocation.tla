-------------------------- MODULE MCPaidInvocation --------------------------
(* Two interchangeable attempts carry one paid call.                       *)
EXTENDS PaidInvocation, TLC

CONSTANTS a1, a2

MCAttempts == {a1, a2}

Symmetry == Permutations(MCAttempts)
=============================================================================

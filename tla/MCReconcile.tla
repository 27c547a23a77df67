----------------------------- MODULE MCReconcile -----------------------------
\* The reconcile pass beside two pods, and beside one for the liveness.
EXTENDS Reconcile, TLC

CONSTANTS p1, p2

Pods == {p1, p2}
OnePod == {p1}
Symmetry == Permutations(Pods)
===============================================================================

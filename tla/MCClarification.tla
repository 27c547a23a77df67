--------------------------- MODULE MCClarification ---------------------------
\* Two questions, any of which the agent may ask in any round.
EXTENDS Clarification, TLC

CONSTANTS q1, q2
MCQuestions == {q1, q2}
Symmetry == Permutations(MCQuestions)
=============================================================================

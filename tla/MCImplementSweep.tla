-------------------------- MODULE MCImplementSweep --------------------------
(* Instance of ImplementSweep for TLC: a proposal of an issue behind one    *)
(* that no DevLoop owns.                                                    *)
EXTENDS ImplementSweep

CONSTANTS incident, issue

MCSlugs == <<incident, issue>>
MCOne   == <<issue>>
=============================================================================

---------------------------- MODULE ApprovedMerge ----------------------------
(***************************************************************************)
(* What a gated merge promises: a head is merged only by using up a        *)
(* person's approval of that very head, and one approval allows one merge. *)
(***************************************************************************)
CONSTANT Heads, NoHead

VARIABLES
    decision, \* head -> what was decided about it
    permits,  \* the heads whose approval was used up and may be acted on
    merged    \* the head the gate has merged

vars == <<decision, permits, merged>>

Init == decision = [h \in Heads |-> "none"] /\ permits = {} /\ merged = NoHead

Moves(h, from, to) == decision[h] \in from /\ decision' = [decision EXCEPT ![h] = to]

Ask(h)    == Moves(h, {"none"}, "pending") /\ UNCHANGED <<permits, merged>>
Decide(h) == \E d \in {"approved", "denied"} :
                Moves(h, {"pending"}, d) /\ UNCHANGED <<permits, merged>>
Expire(h) == Moves(h, {"pending", "approved"}, "expired") /\ UNCHANGED <<permits, merged>>

\* Used up, with or without a permit to show for it.
Use(h) ==
    /\ Moves(h, {"approved"}, "consumed")
    /\ permits' \in {permits, permits \cup {h}}
    /\ UNCHANGED merged

Merge(h) ==
    /\ h \in permits /\ merged = NoHead
    /\ merged' = h /\ permits' \in {permits, permits \ {h}}
    /\ UNCHANGED decision

Lose == permits' \in SUBSET permits /\ UNCHANGED <<decision, merged>>

Next ==
    \/ Lose
    \/ \E h \in Heads : Ask(h) \/ Decide(h) \/ Expire(h) \/ Use(h) \/ Merge(h)

Spec == Init /\ [][Next]_vars
=============================================================================

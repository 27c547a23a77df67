----------------------------- MODULE FencedResult -----------------------------
(***************************************************************************)
(* What the claim and the leased push promise together: one result branch, *)
(* published by executors of which at most one holds the work at a time.   *)
(*                                                                         *)
(* Only the holder is cleared to publish.  A clearance outlives the hold,  *)
(* since nothing renews a claim while the agent runs, so an executor may   *)
(* be cleared after somebody else took over; but whoever publishes voids   *)
(* every clearance given before, and so nobody overwrites a result that is *)
(* newer than its own clearance.                                           *)
(***************************************************************************)
CONSTANTS
    Executors,
    NoExecutor

VARIABLES
    holder,    \* who holds the work, or NoExecutor
    cleared,   \* who may publish
    result     \* whose commits are published, or NoExecutor

vars == <<holder, cleared, result>>

Init == holder = NoExecutor /\ cleared = {} /\ result = NoExecutor

Take(p) == /\ holder = NoExecutor
           /\ holder' = p
           /\ UNCHANGED <<cleared, result>>

Lose == /\ holder' = NoExecutor
        /\ UNCHANGED <<cleared, result>>

Clear(p) == /\ holder = p
            /\ cleared' = cleared \cup {p}
            /\ UNCHANGED <<holder, result>>

Withdraw(p) == /\ cleared' = cleared \ {p}
               /\ UNCHANGED <<holder, result>>

Publish(p) == /\ p \in cleared
              /\ result' = p
              /\ cleared' = {}
              /\ UNCHANGED holder

\* A human merges or deletes the branch: from here anybody may start afresh.
Remove == /\ result' = NoExecutor
          /\ cleared' \in SUBSET Executors
          /\ UNCHANGED holder

Next == \/ Lose \/ Remove
        \/ \E p \in Executors : Take(p) \/ Clear(p) \/ Withdraw(p) \/ Publish(p)

Spec == Init /\ [][Next]_vars
===============================================================================

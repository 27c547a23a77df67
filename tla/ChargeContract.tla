--------------------------- MODULE ChargeContract ---------------------------
(***************************************************************************)
(* What a paid capability call promises (docs/adr/020, sections 9 and 11): *)
(* the provider runs it at most once, the tenant is charged only for a     *)
(* finished run and for what the provider recorded, and a call whose       *)
(* charge was waived never runs, unless the waiver undid a dispatch.       *)
(* PaidInvocation implements this module.                                  *)
(***************************************************************************)
EXTENDS Naturals

VARIABLES
    runs,       \* how often the provider's handler was started
    effect,     \* what the provider recorded for the call
    charge,     \* "open", "waived", or the outcome the charge was settled on
    undone      \* the charge was waived although a dispatch was under way

contractVars == <<runs, effect, charge, undone>>

Finished == {"succeeded", "failed"}

Init == runs = 0 /\ effect = "none" /\ charge = "open" /\ undone = FALSE

Run ==
    /\ runs = 0
    /\ charge = "open" \/ undone
    /\ runs' = 1
    /\ effect' = "running"
    /\ UNCHANGED <<charge, undone>>

Finish ==
    /\ effect = "running"
    /\ effect' \in Finished
    /\ UNCHANGED <<runs, charge, undone>>

Charge ==
    /\ charge = "open"
    /\ effect \in Finished
    /\ charge' = effect
    /\ UNCHANGED <<runs, effect, undone>>

Waive ==
    /\ charge = "open"
    /\ runs = 0
    /\ charge' = "waived"
    /\ UNCHANGED <<runs, effect, undone>>

\* A refusal that comes too late: the call may have run, may still run, and is
\* never charged.
Undo ==
    /\ charge = "open"
    /\ charge' = "waived"
    /\ undone' = TRUE
    /\ UNCHANGED <<runs, effect>>

Next == Run \/ Finish \/ Charge \/ Waive \/ Undo

Spec == Init /\ [][Next]_contractVars
=============================================================================

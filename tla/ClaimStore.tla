------------------------------ MODULE ClaimStore ------------------------------
(***************************************************************************)
(* The execution-claim service behind /api/v1/lifecycle/claims, as its     *)
(* client sees it, for one entity in one phase.  The service is not in     *)
(* this repository: it grants a claim to at most one executor, lets leases *)
(* run out, may fence a claim, and it or the network may fail to answer,   *)
(* before or after the write took effect.                                  *)
(***************************************************************************)
EXTENDS ClaimContract, FiniteSets

CONSTANTS
    Attempts,    \* attempt ids: WORKFLOW_UID, the same again when a pod restarts
    Faulty       \* may the service fail to answer?

ASSUME FaultyAssumption == Faulty \in BOOLEAN

VARIABLE claim   \* attempt -> state of the claim it was last granted, or "none"

ClaimInit == claim = [p \in Attempts |-> "none"]

Active == {p \in Attempts : claim[p] = "active"}

Granted(p) == [claim EXCEPT ![p] = "active"]

(* A reply is what the client gets with the effect the request had.        *)

Reply(effects, answers) == [claim : effects, answer : answers]

\* Answers that say nothing a client may rely on.
Bare == {Answer(h, "none", "none", "none", FALSE) :
            h \in {"2xx", "404", "other", "unreachable"}}

Mine(state)     == Answer("2xx", "none", "mine", state, FALSE)
Acknowledged    == Answer("2xx", "none", "none", "none", TRUE)
NoSuchClaim     == Answer("404", "none", "none", "none", FALSE)
HeldByAnother   == Answer("409", "claim-held", "theirs", "active", FALSE)
HeldByTheAsker  == Answer("409", "claim-held", "mine", "active", FALSE)
FencedOff       == Answer("409", "fenced", "mine", "fenced", FALSE)

Silent(effects) == Reply(effects, IF Faulty THEN Bare ELSE {})

\* The claim of p as the service describes it when it is not active any more.
Refusals(p) ==
    (IF Active \ {p} # {} THEN {HeldByAnother} ELSE {})
    \cup (IF claim[p] \in FreeStates THEN {Mine(claim[p])} ELSE {})
    \cup (IF claim[p] = "fenced" THEN {FencedOff} ELSE {})
    \cup (IF claim[p] = "none" /\ Active = {} THEN {NoSuchClaim} ELSE {})

\* A 409 carrying the asker's own record is a refused acquire all the same.
AcquireReplies(p) ==
    IF claim[p] = "active"
    THEN Reply({claim}, {HeldByTheAsker}) \cup Silent({claim})
    ELSE IF claim[p] = "fenced"
    THEN Reply({claim}, {FencedOff}) \cup Silent({claim})
    ELSE IF Active # {}
    THEN Reply({claim}, {HeldByAnother}) \cup Silent({claim})
    ELSE Reply({Granted(p)}, {Mine("active")}) \cup Silent({claim, Granted(p)})

RenewReplies(p) ==
    Silent({claim}) \cup
    Reply({claim}, IF claim[p] = "active" THEN {Mine("active"), Acknowledged}
                                          ELSE Refusals(p))

CheckReplies(p) ==
    Silent({claim}) \cup
    Reply({claim}, IF claim[p] = "active" THEN {Mine("active")} ELSE Refusals(p))

Replies(op, p) ==
    CASE op = "acquire" -> AcquireReplies(p)
      [] op = "renew"   -> RenewReplies(p)
      [] op = "check"   -> CheckReplies(p)

\* What a client that asks for op may get; below observe it does not ask.
Ask(op, p) ==
    IF RecordsWrites THEN Replies(op, p)
    ELSE Reply({claim}, {Answer("unreachable", "none", "none", "none", FALSE)})

\* /release is best effort: a lost one leaves the claim to its lease.
AfterRelease(p) ==
    IF RecordsWrites /\ claim[p] = "active"
    THEN {[claim EXCEPT ![p] = "released"]} \cup (IF Faulty THEN {claim} ELSE {})
    ELSE {claim}
===============================================================================

---------------------------- MODULE ClaimContract ----------------------------
(***************************************************************************)
(* How an answer of the execution-claim service becomes a decision.        *)
(*                                                                         *)
(* orchestrator/lifecycle/rollout.py decides how much an answer counts,    *)
(* contract.py classifies one HTTP answer into a verdict, and claim.py     *)
(* says whether a verdict stops a mutation.  All three are pure.           *)
(***************************************************************************)
EXTENDS Integers

CONSTANTS
    Mode,               \* LIFECYCLE_ROLLOUT_MODE
    OwnershipRequired   \* LIFECYCLE_OWNERSHIP_REQUIRED, the break-glass

Stage == [off |-> 0, observe |-> 1, enforce |-> 2, only |-> 3]

ASSUME ModeAssumption == Mode \in {"off", "observe", "enforce", "only"}
ASSUME RequiredAssumption == OwnershipRequired \in BOOLEAN

AtLeast(stage) == Stage[Mode] >= Stage[stage]

RecordsWrites    == AtLeast("observe")
NewAnswerMayVeto == AtLeast("enforce")
NewAnswerDecides == AtLeast("only")
BlocksOnUnknown  == NewAnswerMayVeto /\ OwnershipRequired

(***************************************************************************)
(* An answer as the client reads it.  "http" is the status class, or       *)
(* "unreachable" when the transport failed or the body did not parse;      *)
(* "record" tells whether a whole claim record was in the body (ours, or   *)
(* the one of a rival), "state" is the state of that record, and "ack" an  *)
(* empty body or one that only acknowledges.                               *)
(***************************************************************************)
FreeStates  == {"released", "expired", "fenced"}
ClaimStates == FreeStates \cup {"active"}

Answers == [http   : {"2xx", "404", "409", "other", "unreachable"},
            code   : {"none", "fenced", "claim-held"},
            record : {"none", "mine", "theirs"},
            state  : ClaimStates \cup {"none", "unrecognised"},
            ack    : BOOLEAN]

Answer(http, code, record, state, ack) ==
    [http |-> http, code |-> code, record |-> record, state |-> state,
     ack |-> ack]

ClaimVerdicts == {"held-by-me", "held-by-other", "fenced", "unclaimed",
                  "unknown"}

\* What a claim record says to the executor that asks.
ClaimVerdictFor(a) ==
    IF a.state \in FreeStates THEN "unclaimed"
    ELSE IF a.state # "active" THEN "unknown"
    ELSE IF a.record = "mine" THEN "held-by-me" ELSE "held-by-other"

\* The single classifier of claim answers.  Only /renew may succeed without
\* describing the claim; a refused acquire that names the asker is a retake.
ClaimVerdict(op, a) ==
    IF a.http = "2xx" THEN
        IF a.record # "none" THEN ClaimVerdictFor(a)
        ELSE IF op = "renew" /\ a.ack THEN "held-by-me" ELSE "unknown"
    ELSE IF a.http = "409" THEN
        IF a.code = "fenced" THEN "fenced"
        ELSE IF a.record # "none" /\ ClaimVerdictFor(a) = "held-by-me"
             THEN "held-by-me" ELSE "held-by-other"
    ELSE "unknown"

Retaken(a) == a.http = "409" /\ ClaimVerdict("acquire", a) = "held-by-me"

\* ClaimClient._write: below observe the service is not called at all.
ClientVerdict(op, a) ==
    IF RecordsWrites THEN ClaimVerdict(op, a) ELSE "unknown"

\* Mutant: an unknown answer never stops anything.
UnknownLicences(verdict) ==
    verdict \notin {"held-by-me", "unknown"} /\ NewAnswerMayVeto

BlocksMutation(verdict) ==
    /\ verdict # "held-by-me"
    /\ NewAnswerMayVeto
    /\ verdict = "unknown" => BlocksOnUnknown

\* ImplementerClaimRefused.entity_is_free: only these prove nobody is there.
VacantStates == {"released", "expired"}
EntityIsFree(verdict, a) == verdict = "unclaimed" /\ a.state \in VacantStates
==============================================================================

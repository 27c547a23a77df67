-------------------------- MODULE OwnershipContract --------------------------
(***************************************************************************)
(* The pure half of lifecycle ownership: what a client makes of an HTTP    *)
(* answer about an ownership row (lifecycle/contract.py), and what the     *)
(* reconciler decides from an observation (lifecycle/reconciler.py).       *)
(* Whether a record is healthy is told by mctl-api; its vocabulary (healthy*)
(* | stuck | dead | ...) leaves open if a stuck record may be healthy, so  *)
(* that is a constant.                                                     *)
(***************************************************************************)
EXTENDS Naturals

CONSTANTS
    NoOne,                 \* the empty owner
    HealthyNeedsProgress   \* does mctl-api call a stuck record unhealthy?

ASSUME HealthAssumption == HealthyNeedsProgress \in BOOLEAN

HoldingStates == {"active", "handing-off"}
FreeStates    == {"released", "terminal"}

NoRecord == [owner |-> NoOne, epoch |-> 0, state |-> "none", dead |-> FALSE,
             stuck |-> FALSE, target |-> NoOne, version |-> 0]

IsRecord(rec) == rec.state # "none"

Healthy(rec) == ~rec.dead /\ (HealthyNeedsProgress => ~rec.stuck)

\* Both sets of states are closed: a state in neither says nothing.
VerdictFor(rec, asking) ==
    CASE rec.state \in FreeStates                  -> "unowned"
      [] rec.state \notin FreeStates \cup HoldingStates -> "unknown"
      [] rec.state \in HoldingStates /\ rec.owner = asking /\ Healthy(rec)
                                                   -> "owned-by-me"
      [] OTHER                                     -> "owned-by-other"

\* status is 2xx, 404, 409, or other (5xx, 412, unreachable, no credentials);
\* empty: a body of no bytes; told: an error envelope names the failure.
Response(status, rec, empty, told) ==
    [status |-> status, rec |-> rec, empty |-> empty, told |-> told]

Relinquishing == {"release", "terminal"}

Accepted(op, resp) ==
    op # "read" /\ resp.status = "2xx" /\ (resp.empty \/ IsRecord(resp.rec))

\* A refused write grants nothing: a 409 is someone else's, or says nothing.
Verdict(op, resp, asking) ==
    CASE resp.status = "2xx" /\ IsRecord(resp.rec) -> VerdictFor(resp.rec, asking)
      [] resp.status = "2xx" /\ ~IsRecord(resp.rec)
            /\ resp.empty /\ op \in Relinquishing  -> "wrote-no-record"
      [] resp.status = "404" /\ op = "read" /\ resp.told -> "unowned"
      [] resp.status = "409" /\ (~IsRecord(resp.rec)
            \/ VerdictFor(resp.rec, asking) = "owned-by-other") -> "owned-by-other"
      [] OTHER                                     -> "unknown"

\* What an activity hands to its workflow: the answer with the record in it.
AnswerFrom(op, resp, asking) ==
    [verdict  |-> Verdict(op, resp, asking),
     accepted |-> Accepted(op, resp),
     rec      |-> IF resp.status \in {"2xx", "409"} THEN resp.rec ELSE NoRecord]

\* A row of a batch read: an id without an entry is nobody's.
BatchAnswer(resp) ==
    IF resp.status = "2xx" /\ ~IsRecord(resp.rec)
    THEN [verdict |-> "unowned", accepted |-> FALSE, rec |-> NoRecord]
    ELSE AnswerFrom("read", resp, NoOne)

-----------------------------------------------------------------------------
(* The reconciler.  An observation joins the store's answer with what       *)
(* GitHub and Temporal said earlier in the same sweep.  Claims are not read *)
(* by any sweep, so their conflict has no branch here.                      *)

Decide(action, owner, epoch, then) ==
    [action |-> action, to |-> owner, epoch |-> epoch, then |-> then]

Leave    == Decide("none", NoOne, 0, "none")
Skip     == Decide("skip", NoOne, 0, "none")
Escalate == Decide("escalate", NoOne, 0, "none")

\* Recovered only to raise the epoch: closed or freed in the same decision.
Recover(obs, me) ==
    Decide("recover", me, obs.rec.epoch,
           IF obs.terminal THEN "terminal" ELSE "release")

Blind(obs) ==
    \/ obs.verdict \notin {"unowned", "owned-by-other"}
    \/ IsRecord(obs.rec) /\ obs.rec.state \notin HoldingStates \cup FreeStates

\* The row names one workflow, and another one is running for the entity.
TwoWorkers(obs) ==
    obs.live # NoOne /\ obs.recorded # NoOne /\ obs.live # obs.recorded

\* Mutant: a dead owner is reported and left in place.
ClassifyReportsOnly(obs, me) ==
    IF Blind(obs) THEN Skip ELSE IF obs.verdict = "unowned" THEN Leave ELSE Escalate

Classify(obs, me) ==
    CASE Blind(obs) -> Skip
      [] ~Blind(obs) /\ obs.verdict = "unowned" ->
            IF obs.terminal \/ ~obs.needsOwner THEN Leave ELSE Escalate
      [] ~Blind(obs) /\ obs.verdict = "owned-by-other" ->
            CASE obs.rec.dead -> Recover(obs, me)
              [] ~obs.rec.dead /\ obs.rec.state = "handing-off" ->
                    IF obs.rec.target = NoOne THEN Escalate
                    ELSE Decide("complete", obs.rec.target, obs.rec.epoch, "none")
              [] ~obs.rec.dead /\ obs.rec.state # "handing-off" ->
                    IF ~obs.terminal /\ (obs.rec.stuck \/ TwoWorkers(obs))
                    THEN Escalate ELSE Leave
=============================================================================

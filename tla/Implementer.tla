----------------------------- MODULE Implementer -----------------------------
(***************************************************************************)
(* Tier 2: the implementer pods at work on one accepted proposal.          *)
(*                                                                         *)
(* Several implementer pods may pick the same proposal up.  Each lists it, *)
(* passes the approval gates, looks at GitHub for a result to adopt, takes *)
(* an execution claim, stamps `in-progress`, runs the agent, pushes, opens *)
(* the pull request and writes the outcome (run_implementer.py).  They     *)
(* share three things: the `.status.yaml` of the proposal, the result      *)
(* branch with its pull request, and the claim service.  A pod may be      *)
(* killed between any two steps and restart under the same attempt id.     *)
(***************************************************************************)
EXTENDS ClaimStore

CONSTANTS
    NoOne,                   \* no attempt, no branch
    Stale,                   \* a head of the branch that is not there any more
    MaxBudgetHandbacks,      \* IMPLEMENT_MAX_BUDGET_HANDBACKS
    MaxPolicyHandbacks,      \* IMPLEMENT_MAX_POLICY_HANDBACKS
    Humans,                  \* do humans move the request and drop the branch?
    Crashes,                 \* may pods be killed?
    Fences                   \* may the service fence a claim?

ASSUME NoOneAssumption == NoOne \notin Attempts /\ Stale \notin Attempts \cup {NoOne}
ASSUME BoundAssumption == /\ MaxBudgetHandbacks \in Nat \ {0}
                          /\ MaxPolicyHandbacks \in Nat \ {0}
ASSUME SwitchAssumption == /\ Humans \in BOOLEAN
                           /\ Crashes \in BOOLEAN
                           /\ Fences \in BOOLEAN

VARIABLES
    status,   \* .status.yaml: status, attempt.id, attempt.expires_at in the
              \* future, class of failure.code, the two hand-back counters
    branch,   \* attempt whose commits are at the head of feat/agents-<slug>
    pr,       \* the pull request of that branch
    grant,    \* mctl-api's state of the approval grant
    dropped,  \* history: a human dropped the last pushed branch before it had
              \* a pull request
    pc,       \* pod -> where _implement_one is
    ctx,      \* pod -> does it carry a _ClaimContext?
    expected, \* pod -> head of the remote branch it read before pushing
    newRun    \* pod -> GrantVerdict.allow_new_run it read

podVars == <<pc, ctx, expected, newRun>>
hubVars == <<branch, pr, grant, dropped>>
vars    == <<claim, status, hubVars, podVars>>

Statuses == {"accepted", "in-progress", "implemented", "needs-triage",
             "merged", "rejected"}
Failures == {"none", "absent", "run", "conflict"}
PRStates == {"none", "open", "dirty", "merged", "closed"}
OpenPR   == {"open", "dirty"}

Pcs == {"idle", "gate", "preflight", "adopt-mark", "adopt-create", "acquire",
        "renew", "stamp", "agent", "head", "check", "push", "mark", "create",
        "implemented", "release", "vanished", "handback"}

Init ==
    /\ ClaimInit
    /\ status = [st |-> "accepted", att |-> NoOne, fresh |-> FALSE,
                 fail |-> "none", budget |-> 0, policy |-> 0]
    /\ branch = NoOne
    /\ pr = "none"
    /\ grant = "consumed"
    /\ dropped = FALSE
    /\ pc = [p \in Attempts |-> "idle"]
    /\ ctx = [p \in Attempts |-> FALSE]
    /\ expected = [p \in Attempts |-> NoOne]
    /\ newRun = [p \in Attempts |-> FALSE]

-------------------------------------------------------------------------------
(* Writing the status file: update_status_file keeps what it is not given. *)

Goto(p, to) == pc' = [pc EXCEPT ![p] = to]

\* The end of _implement_one for this proposal.
Return(p) ==
    /\ Goto(p, "idle")
    /\ ctx' = [ctx EXCEPT ![p] = FALSE]
    /\ expected' = [expected EXCEPT ![p] = NoOne]
    /\ newRun' = [newRun EXCEPT ![p] = FALSE]

To(st) == [status EXCEPT !.st = st]

\* attempt=None takes the lease away with the id.
Detached(s) == [s EXCEPT !.att = NoOne, !.fresh = FALSE]

HandedBack(budget, policy) ==
    [Detached(To("accepted")) EXCEPT !.fail = "none",
                                     !.budget = budget, !.policy = policy]

StillOurs(p) == status.att = p

\* Mutant: hand back whoever the status names.
HandBackBlindly(p, budget, policy) == status' = HandedBack(budget, policy)

\* _hand_back_if_still_ours
HandBack(p, budget, policy) ==
    status' = IF StillOurs(p) THEN HandedBack(budget, policy) ELSE status

\* Mutant: go to triage whoever the status names.
TriageBlindly(p, budget, policy) ==
    status' = [To("needs-triage") EXCEPT !.fail = "run", !.att = p,
                   !.budget = budget, !.policy = policy]

\* _mark_needs_triage of an ending attempt
Triage(p, budget, policy) ==
    status' = IF StillOurs(p)
              THEN [To("needs-triage") EXCEPT !.fail = "run",
                        !.budget = budget, !.policy = policy]
              ELSE status

TriageRun(p) == Triage(p, status.budget, status.policy)

-------------------------------------------------------------------------------
(* Before the claim: listing, gates, preflight.                            *)

\* find_accepted_proposals; the ref keeps the status it saw here.
List(p) ==
    /\ pc[p] = "idle"
    /\ status.st = "accepted"
    /\ Goto(p, "gate")
    /\ UNCHANGED <<claim, status, hubVars, ctx, expected, newRun>>

\* _mark_blocked writes `accepted`, unless the same block is already there.
MarkBlocked == status' \in {To("accepted"), status}

\* Approval, authorization, digest and grant: a refusal is recorded; a store
\* or a file that cannot be read defers without writing.
GateRefuses(p) ==
    /\ pc[p] = "gate"
    /\ MarkBlocked
    /\ Return(p)
    /\ UNCHANGED <<claim, hubVars>>

\* Mutant: admission spends the grant, before there is anything to show.
GatePassesSpending(p) ==
    /\ pc[p] = "gate"
    /\ newRun' = [newRun EXCEPT ![p] = grant = "consumed"]
    /\ grant' = "executed"
    /\ Goto(p, "preflight")
    /\ UNCHANGED <<claim, status, branch, pr, dropped, ctx, expected>>

GatePasses(p) ==
    /\ pc[p] = "gate"
    /\ newRun' = [newRun EXCEPT ![p] = grant = "consumed"]
    /\ Goto(p, "preflight")
    /\ UNCHANGED <<claim, status, hubVars, ctx, expected>>

\* What _preflight_existing_result projects for an existing pull request.
Adopted(st) == [To(st) EXCEPT !.fail = "none"]

PreflightAdopts(p) ==
    /\ pc[p] = "preflight"
    /\ pr # "none"
    /\ status' = CASE pr \in OpenPR  -> Detached(Adopted("implemented"))
                   [] pr = "merged"  -> Detached(Adopted("merged"))
                   [] pr = "closed"  -> Adopted("rejected")
    /\ Return(p)
    /\ UNCHANGED <<claim, hubVars>>

\* A foreign request on the branch, or a branch without commits of its own: to
\* triage, without an attempt and so without asking whose the status is.
PreflightRejects(p) ==
    /\ pc[p] = "preflight"
    /\ pr # "none" \/ branch # NoOne
    /\ status' = [To("needs-triage") EXCEPT !.fail = "run"]
    /\ Return(p)
    /\ UNCHANGED <<claim, hubVars>>

\* GitHub did not answer: GitHubPreflightError, nothing written.
PreflightFails(p) ==
    /\ pc[p] = "preflight"
    /\ Return(p)
    /\ UNCHANGED <<claim, status, hubVars>>

\* An earlier attempt pushed and died before `gh pr create`.
PreflightFindsBranch(p) ==
    /\ pc[p] = "preflight"
    /\ pr = "none" /\ branch # NoOne
    /\ Goto(p, "adopt-mark")
    /\ UNCHANGED <<claim, status, hubVars, ctx, expected, newRun>>

\* A mark that fails in the pod's eyes: refused, or done and the answer lost.
MarkFailed == {grant, "executed"}

AdoptMark(p) ==
    /\ pc[p] = "adopt-mark"
    /\ \/ /\ grant' = "executed"
          /\ Goto(p, "adopt-create")
          /\ UNCHANGED <<ctx, expected, newRun>>
       \/ /\ grant' \in MarkFailed         \* PolicyRefused or GrantMarkError
          /\ Return(p)
    /\ UNCHANGED <<claim, status, branch, pr, dropped>>

\* When `gh pr create` can succeed: a branch, no open or merged request.
CanCreate == branch # NoOne /\ pr \in {"none", "closed"}

\* A concurrent actor may have opened it between list and create.
AdoptCreate(p) ==
    /\ pc[p] = "adopt-create"
    /\ \/ /\ CanCreate \/ pr \in OpenPR
          /\ pr' = IF CanCreate THEN "open" ELSE pr
          /\ status' = Detached(Adopted("implemented"))
       \/ UNCHANGED <<pr, status>>
    /\ Return(p)
    /\ UNCHANGED <<claim, branch, grant, dropped>>

\* No result on GitHub: go for a new run if the grant allows one, the source
\* issue is open and readable and no rate-limit window is known to be open.
Admission(p) ==
    /\ pc[p] = "preflight"
    /\ pr = "none" /\ branch = NoOne
    /\ \/ /\ newRun[p]
          /\ Goto(p, "acquire")
          /\ UNCHANGED <<status, ctx, expected, newRun>>
       \/ /\ ~newRun[p]                    \* grant already executed
          /\ MarkBlocked
          /\ Return(p)
       \/ /\ newRun[p]                     \* the source issue is closed
          /\ status' = [To("needs-triage") EXCEPT !.fail = "absent"]
          /\ Return(p)
       \/ /\ newRun[p]                     \* unreadable, or rate-limited
          /\ UNCHANGED status
          /\ Return(p)
    /\ UNCHANGED <<claim, hubVars>>

-------------------------------------------------------------------------------
(* The claim and the run.                                                  *)

\* Where a claim answer leads: on with a claim, on without one, or out.
Proceed(p, holds, to) ==
    /\ ctx' = [ctx EXCEPT ![p] = holds]
    /\ Goto(p, to)
    /\ UNCHANGED <<expected, newRun>>

Stops(verdict) ==
    \/ verdict = "fenced" /\ NewAnswerMayVeto
    \/ BlocksMutation(verdict)

\* _acquire_claim, up to the renewal of a retaken claim
Acquire(p) ==
    /\ pc[p] = "acquire"
    /\ \E r \in Ask("acquire", p) :
        LET verdict == ClientVerdict("acquire", r.answer) IN
        /\ claim' = r.claim
        /\ IF verdict = "held-by-me"
           THEN Proceed(p, TRUE, IF Retaken(r.answer) THEN "renew" ELSE "stamp")
           ELSE IF Stops(verdict) THEN Return(p)
           ELSE Proceed(p, FALSE, "stamp")
    /\ UNCHANGED <<status, hubVars>>

\* A retake adopts the rest of a dead pod's lease, so it must be renewed.
Renew(p) ==
    /\ pc[p] = "renew"
    /\ \E r \in Ask("renew", p) :
        LET verdict == ClientVerdict("renew", r.answer) IN
        /\ claim' = r.claim
        /\ IF verdict = "held-by-me" THEN Proceed(p, TRUE, "stamp")
           ELSE IF Stops(verdict) THEN Return(p)
           ELSE Proceed(p, FALSE, "stamp")
    /\ UNCHANGED <<status, hubVars>>

\* The in-progress write, after the claim and not before.
StampInProgress(p) ==
    /\ pc[p] = "stamp"
    /\ status' = [status EXCEPT !.st = "in-progress", !.att = p,
                                !.fresh = TRUE, !.fail = "none"]
    /\ Goto(p, "agent")
    /\ UNCHANGED <<claim, hubVars, ctx, expected, newRun>>

AgentCommits(p) ==
    /\ pc[p] = "agent"
    /\ Goto(p, "head")
    /\ UNCHANGED <<claim, status, hubVars, ctx, expected, newRun>>

\* Mutant: one hand-back too many.
AgentExhaustedOnceMore(p) ==
    /\ pc[p] = "agent"
    /\ IF status.budget >= MaxBudgetHandbacks
       THEN Triage(p, 0, status.policy)
       ELSE HandBack(p, status.budget + 1, status.policy)
    /\ Goto(p, "release")
    /\ UNCHANGED <<claim, hubVars, ctx, expected, newRun>>

\* No commits because the command budget ran out: hand back a bounded number
\* of times, then leave it to a human.
AgentExhausted(p) ==
    /\ pc[p] = "agent"
    /\ IF status.budget + 1 >= MaxBudgetHandbacks
       THEN Triage(p, 0, status.policy)
       ELSE HandBack(p, status.budget + 1, status.policy)
    /\ Goto(p, "release")
    /\ UNCHANGED <<claim, hubVars, ctx, expected, newRun>>

\* No commits, orphaned subagent, timeout, shell failure, chart guard, ...
AgentFails(p) ==
    /\ pc[p] = "agent"
    /\ TriageRun(p)
    /\ Goto(p, "release")
    /\ UNCHANGED <<claim, hubVars, ctx, expected, newRun>>

\* _mark_rate_limited
AgentRateLimited(p) ==
    /\ pc[p] = "agent"
    /\ HandBack(p, status.budget, status.policy)
    /\ Goto(p, "release")
    /\ UNCHANGED <<claim, hubVars, ctx, expected, newRun>>

-------------------------------------------------------------------------------
(* The push, the pull request and the outcome.                             *)

\* _remote_head_sha, read before the claim is checked; a head that cannot be
\* read counts as no branch.
ReadHead(p) ==
    /\ pc[p] = "head"
    /\ \E head \in {branch, NoOne} : expected' = [expected EXCEPT ![p] = head]
    /\ Goto(p, "check")
    /\ UNCHANGED <<claim, status, hubVars, ctx, newRun>>

\* The exits of _implement_attempt for a claim that does not clear the push.
\* An unknown or foreign claim is left alone: it runs out by itself.
CheckRefuses(p, verdict, answer) ==
    IF verdict = "fenced"
    THEN TriageRun(p) /\ Proceed(p, TRUE, "release")
    ELSE /\ UNCHANGED status
         /\ IF EntityIsFree(verdict, answer) THEN Proceed(p, TRUE, "vanished")
            ELSE IF verdict = "unclaimed" THEN Proceed(p, TRUE, "release")
            ELSE Return(p)

CheckClaim(p) ==
    /\ pc[p] = "check"
    /\ ctx[p]
    /\ \E r \in Ask("check", p) :
        LET verdict == ClientVerdict("check", r.answer) IN
        /\ claim' = r.claim
        /\ IF Stops(verdict) THEN CheckRefuses(p, verdict, r.answer)
           ELSE Proceed(p, TRUE, "push") /\ UNCHANGED status
    /\ UNCHANGED <<hubVars>>

\* No claim context: nothing is checked before the push.
CheckSkipped(p) ==
    /\ pc[p] = "check"
    /\ ~ctx[p]
    /\ Goto(p, "push")
    /\ UNCHANGED <<claim, status, hubVars, ctx, expected, newRun>>

\* The policy checkpoint could not decide: a bounded number of hand-backs.
PolicyUndecided(p) ==
    /\ pc[p] \in {"push", "mark"}
    /\ IF status.policy + 1 >= MaxPolicyHandbacks
       THEN Triage(p, status.budget, 0)
       ELSE HandBack(p, status.budget, status.policy + 1)
    /\ Goto(p, "release")
    /\ UNCHANGED <<claim, hubVars, ctx, expected, newRun>>

\* Mutant: --force.
ForcePush(p) ==
    /\ pc[p] = "push"
    /\ branch' = p
    /\ Goto(p, "mark")
    /\ UNCHANGED <<claim, status, pr, grant, dropped, ctx, expected, newRun>>

\* --force-with-lease=<branch>:<expected>, or a plain push of a new branch.
\* The commits are new, so a head of this attempt that was read before is gone;
\* what it read itself has served.
Push(p) ==
    /\ pc[p] = "push"
    /\ branch = expected[p]
    /\ branch' = p
    /\ expected' = [q \in Attempts |-> IF q = p THEN NoOne
                                       ELSE IF expected[q] = p THEN Stale ELSE expected[q]]
    /\ dropped' = FALSE
    /\ Goto(p, "mark")
    /\ UNCHANGED <<claim, status, pr, grant, ctx, newRun>>

\* The grant is spent right before the request is opened.
MarkGrant(p) ==
    /\ pc[p] = "mark"
    /\ grant' = "executed"
    /\ Goto(p, "create")
    /\ UNCHANGED <<claim, status, branch, pr, dropped, ctx, expected, newRun>>

CreatePR(p) ==
    /\ pc[p] = "create"
    /\ CanCreate
    /\ pr' = "open"
    /\ Goto(p, "implemented")
    /\ UNCHANGED <<claim, status, branch, grant, dropped, ctx, expected, newRun>>

\* A policy refusal, a rejected push, a grant the store would not mark, or a
\* `gh pr create` that fails, for one because the request already exists.
PushFails(p) ==
    /\ pc[p] \in {"push", "mark", "create"}
    /\ grant' \in IF pc[p] = "mark" THEN MarkFailed ELSE {grant}
    /\ TriageRun(p)
    /\ Goto(p, "release")
    /\ UNCHANGED <<claim, branch, pr, dropped, ctx, expected, newRun>>

\* The only outcome written without asking whether the status is still ours.
\* The block it carries has the lease this attempt started with.
WriteImplemented(p) ==
    /\ pc[p] = "implemented"
    /\ \E fresh \in IF StillOurs(p) THEN {status.fresh} ELSE BOOLEAN :
        status' = [To("implemented") EXCEPT !.att = p, !.fresh = fresh,
                       !.fail = "none", !.budget = 0, !.policy = 0]
    /\ Goto(p, "release")
    /\ UNCHANGED <<claim, hubVars, ctx, expected, newRun>>

Release(p) ==
    /\ pc[p] = "release"
    /\ claim' \in (IF ctx[p] THEN AfterRelease(p) ELSE {claim})
    /\ Return(p)
    /\ UNCHANGED <<status, hubVars>>

\* The claim expired under the run: release it, then hand the proposal back.
ReleaseVanished(p) ==
    /\ pc[p] = "vanished"
    /\ claim' \in AfterRelease(p)
    /\ Goto(p, "handback")
    /\ UNCHANGED <<status, hubVars, ctx, expected, newRun>>

HandBackVanished(p) ==
    /\ pc[p] = "handback"
    /\ HandBack(p, status.budget, status.policy)
    /\ Return(p)
    /\ UNCHANGED <<claim, hubVars>>

-------------------------------------------------------------------------------
(* The environment.                                                        *)

Crash(p) ==
    /\ Crashes
    /\ pc[p] # "idle"
    /\ Return(p)
    /\ UNCHANGED <<claim, status, hubVars>>

\* A lease of two hours that was granted or renewed by the last statement does
\* not run out before the next one.
Expire(p) ==
    /\ claim[p] = "active" /\ pc[p] # "stamp"
    /\ claim' = [claim EXCEPT ![p] = "expired"]
    /\ UNCHANGED <<status, hubVars, podVars>>

Fence(p) ==
    /\ Fences
    /\ claim[p] = "active"
    /\ claim' = [claim EXCEPT ![p] = "fenced"]
    /\ UNCHANGED <<status, hubVars, podVars>>

LeaseLapses ==
    /\ status.fresh
    /\ status' = [status EXCEPT !.fresh = FALSE]
    /\ UNCHANGED <<claim, hubVars, podVars>>

PRMoves == {<<"open", "dirty">>, <<"dirty", "open">>, <<"open", "merged">>,
            <<"open", "closed">>, <<"dirty", "closed">>, <<"closed", "open">>}

HumanMovesPR ==
    /\ Humans
    /\ \E to \in PRStates : <<pr, to>> \in PRMoves /\ pr' = to
    /\ branch' = IF pr' = "merged" THEN NoOne ELSE branch
    /\ UNCHANGED <<claim, status, grant, dropped, podVars>>

HumanDropsBranch ==
    /\ Humans
    /\ branch # NoOne /\ pr \notin OpenPR
    /\ branch' = NoOne
    /\ dropped' = (pr = "none")
    /\ UNCHANGED <<claim, status, pr, grant, podVars>>

-------------------------------------------------------------------------------
PodStep(p) ==
    \/ List(p) \/ GateRefuses(p) \/ GatePasses(p)
    \/ PreflightAdopts(p) \/ PreflightRejects(p) \/ PreflightFails(p) \/ PreflightFindsBranch(p)
    \/ AdoptMark(p) \/ AdoptCreate(p) \/ Admission(p)
    \/ Acquire(p) \/ Renew(p) \/ StampInProgress(p)
    \/ AgentCommits(p) \/ AgentExhausted(p) \/ AgentFails(p) \/ AgentRateLimited(p)
    \/ ReadHead(p) \/ CheckClaim(p) \/ CheckSkipped(p) \/ PolicyUndecided(p)
    \/ Push(p) \/ MarkGrant(p) \/ CreatePR(p) \/ PushFails(p)
    \/ WriteImplemented(p) \/ Release(p) \/ ReleaseVanished(p) \/ HandBackVanished(p)

EnvStep ==
    \/ LeaseLapses \/ HumanMovesPR \/ HumanDropsBranch
    \/ \E p \in Attempts : Crash(p) \/ Expire(p) \/ Fence(p)

Next == EnvStep \/ \E p \in Attempts : PodStep(p)

Spec == Init /\ [][Next]_vars

-------------------------------------------------------------------------------
(* Properties.                                                             *)

\* Every variable stays in its domain; the counters stay below their limits.
TypeOK ==
    /\ claim \in [Attempts -> ClaimStates \cup {"none"}]
    /\ status \in [st : Statuses, att : Attempts \cup {NoOne}, fresh : BOOLEAN,
                   fail : Failures, budget : 0 .. MaxBudgetHandbacks - 1,
                   policy : 0 .. MaxPolicyHandbacks - 1]
    /\ branch \in Attempts \cup {NoOne}
    /\ pr \in PRStates
    /\ grant \in {"consumed", "executed"}
    /\ dropped \in BOOLEAN
    /\ pc \in [Attempts -> Pcs]
    /\ ctx \in [Attempts -> BOOLEAN]
    /\ expected \in [Attempts -> Attempts \cup {NoOne, Stale}]
    /\ newRun \in [Attempts -> BOOLEAN]

\* Where a refused claim stops a mutation and uncertainty counts as refusal.
Enforced == NewAnswerMayVeto /\ OwnershipRequired

Recorded == {"agent", "head", "check", "push", "mark", "create", "implemented"}
Working  == Recorded \cup {"stamp"}

\* At enforce no pod works without a claim that the service really granted it
\* and that it has not given back itself, whatever answers got lost, garbled
\* or remapped by a retake on the way (_acquire_claim, blocks_mutation).
WorkIsClaimed ==
    Enforced => \A p \in Attempts :
        pc[p] \in Working => ctx[p] /\ claim[p] \in {"active", "expired", "fenced"}

\* An ending attempt that hands back, goes to triage or records a rate limit
\* never rewrites the status of another attempt (_status_is_still_ours).
EndingWritesAreOwn ==
    [][\A p \in Attempts :
        pc[p] \in (Recorded \ {"implemented"}) \cup {"handback"}
            /\ pc'[p] # pc[p] /\ status' # status => status.att = p]_vars

\* While there is no pull request, the live holder of the claim is the attempt
\* the status file names, so the compare-and-swap of its own ending lets it
\* through, and nobody else's does (_status_is_still_ours).
HolderIsRecorded ==
    Enforced /\ ~Fences => \A p \in Attempts :
        pc[p] \in Recorded /\ claim[p] = "active" /\ pr = "none" => status.att = p

\* A pull request is never open before its grant is spent; and a spent grant
\* has a branch or a request that a later attempt can finish, unless a human
\* dropped the branch in the moment before its request was opened
\* (_push_and_open_pr, _preflight_existing_result).
GrantAndResultAgree ==
    /\ pr # "none" => grant = "executed"
    /\ grant = "executed" => branch # NoOne \/ pr # "none" \/ dropped

\* At enforce the claim and the leased push together are a fenced result: the
\* check before a push clears the active holder only, and a push that comes
\* after somebody else's is rejected if its check came before that one
\* (_check_claim_or_raise, _push_and_open_pr).
Holder == IF Active = {} THEN NoOne ELSE CHOOSE p \in Attempts : p \in Active

Cleared == {p \in Attempts : pc[p] = "push" /\ branch = expected[p]}

Fenced == INSTANCE FencedResult WITH
    Executors <- Attempts, NoExecutor <- NoOne,
    holder <- Holder, cleared <- Cleared, result <- branch

ResultIsFenced == Fenced!Spec

-------------------------------------------------------------------------------
(* What the documentation says and the code does not do.                   *)

\* ADR-010: the compare-and-swap is a property of every status write an ending
\* attempt makes.  The write of `implemented` is one too, and it may hit the
\* record of an attempt that has taken over meanwhile.
EveryEndingWriteIsOwn ==
    [][\A p \in Attempts :
        pc[p] \in Recorded \cup {"handback"} /\ pc'[p] # pc[p] /\ status' # status
            => status.att \in {p, NoOne}]_vars

\* approval_evidence.py: an executed grant never runs the model again.
SpentGrantNeverRuns ==
    [][\A p \in Attempts :
        pc[p] = "stamp" /\ pc'[p] = "agent" => grant = "consumed"]_vars
===============================================================================

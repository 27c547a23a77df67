-------------------------- MODULE ImplementerProofs --------------------------
(***************************************************************************)
(* Proofs about the implementer: its pods and the reconcile pass, for any  *)
(* set of attempts, any limits and any rollout mode, and at the end the    *)
(* sweep that starts it, for any proposals, caps and windows.              *)
(***************************************************************************)
EXTENDS Reconcile, ImplementSweep, FiniteSetTheorems, WellFoundedInduction, TLAPS

Ops == {"acquire", "renew", "check"}

-------------------------------------------------------------------------------
(* What the claim service can answer.                                      *)

\* What is asked where the service is asked at all.
LEMMA AskedReplies ==
    ASSUME RecordsWrites, NEW p \in Attempts
    PROVE  /\ Ask("acquire", p) = AcquireReplies(p)
           /\ Ask("renew", p) = RenewReplies(p)
           /\ Ask("check", p) = CheckReplies(p)
BY DEF Ask, Replies

\* No request changes anything but the claim of the asker, and only an acquire
\* that finds nobody active changes that.
LEMMA AskEffect ==
    ASSUME NEW op \in Ops, NEW p \in Attempts, NEW r \in Ask(op, p)
    PROVE  \/ r.claim = claim
           \/ op = "acquire" /\ Active = {} /\ r.claim = Granted(p)
<1>1. CASE ~RecordsWrites
  BY <1>1 DEF Ask, Reply
<1>2. CASE RecordsWrites /\ op = "acquire"
  BY <1>2, AskedReplies DEF AcquireReplies, Silent, Reply
<1>3. CASE RecordsWrites /\ op = "renew"
  BY <1>3, AskedReplies DEF RenewReplies, Silent, Reply
<1>4. CASE RecordsWrites /\ op = "check"
  BY <1>4, AskedReplies DEF CheckReplies, Silent, Reply
<1> QED BY <1>1, <1>2, <1>3, <1>4 DEF Ops

\* A bare answer never says that the claim is held.
LEMMA BareSaysNothing ==
    ASSUME NEW op \in Ops, NEW a \in Bare
    PROVE  ClaimVerdict(op, a) # "held-by-me"
BY DEF Bare, Answer, ClaimVerdict, ClaimVerdictFor, Ops

\* Neither does an answer that refuses.
LEMMA RefusalSaysNo ==
    ASSUME NEW op \in Ops, NEW p \in Attempts, NEW a \in Refusals(p)
    PROVE  ClaimVerdict(op, a) # "held-by-me"
<1>1. \/ a \in {HeldByAnother, FencedOff, NoSuchClaim}
      \/ claim[p] \in FreeStates /\ a = Mine(claim[p])
  BY DEF Refusals
<1> QED BY <1>1 DEF HeldByAnother, FencedOff, NoSuchClaim, Mine, Answer,
           ClaimVerdict, ClaimVerdictFor, FreeStates

\* Whenever the client concludes that it holds the claim, the service has it
\* active for this very attempt.
LEMMA HeldIsActive ==
    ASSUME NEW op \in Ops, NEW p \in Attempts, NEW r \in Ask(op, p),
           claim \in [Attempts -> ClaimStates \cup {"none"}],
           ClientVerdict(op, r.answer) = "held-by-me"
    PROVE  r.claim[p] = "active"
<1>1. RecordsWrites /\ ClaimVerdict(op, r.answer) = "held-by-me"
  BY DEF ClientVerdict
<1>2. r.answer \notin Bare /\ r.answer \notin Refusals(p)
  BY <1>1, BareSaysNothing, RefusalSaysNo
<1>3. r.answer \notin {HeldByAnother, FencedOff}
  BY <1>1 DEF HeldByAnother, FencedOff, Answer, ClaimVerdict, ClaimVerdictFor, FreeStates
<1>4. CASE op = "acquire"
  <2>1. r \in AcquireReplies(p)
    BY <1>1, <1>4, AskedReplies
  <2> QED BY <2>1, <1>2, <1>3 DEF AcquireReplies, Reply, Silent, Granted
<1>5. CASE op = "renew"
  <2>1. r \in RenewReplies(p)
    BY <1>1, <1>5, AskedReplies
  <2> QED BY <2>1, <1>2 DEF RenewReplies, Reply, Silent
<1>6. CASE op = "check"
  <2>1. r \in CheckReplies(p)
    BY <1>1, <1>6, AskedReplies
  <2> QED BY <2>1, <1>2 DEF CheckReplies, Reply, Silent
<1> QED BY <1>4, <1>5, <1>6 DEF Ops

\* At enforce everything but "held by me" stops the pod.
LEMMA EnforcedStops ==
    ASSUME Enforced, NEW verdict, verdict # "held-by-me"
    PROVE  Stops(verdict)
BY DEF Enforced, Stops, BlocksMutation, BlocksOnUnknown

-------------------------------------------------------------------------------
(* Types.                                                                  *)

\* A call leaves a claim state for every attempt.
LEMMA AskType ==
    ASSUME NEW op \in Ops, NEW p \in Attempts, NEW r \in Ask(op, p),
           claim \in [Attempts -> ClaimStates \cup {"none"}]
    PROVE  r.claim \in [Attempts -> ClaimStates \cup {"none"}]
<1>1. r.claim = claim \/ r.claim = Granted(p)
  BY AskEffect
<1> QED BY <1>1 DEF Granted, ClaimStates

\* So does a release, answered or not.
LEMMA ReleaseType ==
    ASSUME NEW p \in Attempts,
           claim \in [Attempts -> ClaimStates \cup {"none"}],
           claim' \in AfterRelease(p)
    PROVE  claim' \in [Attempts -> ClaimStates \cup {"none"}]
BY DEF AfterRelease, ClaimStates, FreeStates

PodTypes ==
    /\ pc \in [Attempts -> Pcs]
    /\ ctx \in [Attempts -> BOOLEAN]
    /\ expected \in [Attempts -> Attempts \cup {NoOne, Stale}]
    /\ newRun \in [Attempts -> BOOLEAN]

StatusType ==
    status \in [st : Statuses, att : Attempts \cup {NoOne}, fresh : BOOLEAN,
                fail : Failures, budget : 0 .. MaxBudgetHandbacks - 1,
                policy : 0 .. MaxPolicyHandbacks - 1]

\* A pod that goes on, or returns, stays well typed.
LEMMA MoveTypes ==
    ASSUME PodTypes, NEW p \in Attempts, NEW to \in Pcs,
           \/ Goto(p, to) /\ UNCHANGED <<ctx, expected, newRun>>
           \/ Return(p)
           \/ \E holds \in BOOLEAN : Proceed(p, holds, to)
    PROVE  PodTypes'
BY DEF PodTypes, Goto, Return, Proceed, Pcs

\* What an ending attempt writes, with the counters it may carry.
LEMMA EndingTypes ==
    ASSUME StatusType, NEW p \in Attempts,
           NEW budget \in 0 .. MaxBudgetHandbacks - 1,
           NEW policy \in 0 .. MaxPolicyHandbacks - 1,
           HandBack(p, budget, policy) \/ Triage(p, budget, policy)
    PROVE  StatusType'
BY DEF StatusType, HandBack, HandedBack, Triage, To, Detached, Statuses, Failures

\* Only a push and a human who drops the branch move the history of the drops.
LEMMA DropMoves ==
    ASSUME [Next]_vars
    PROVE  dropped' \in {dropped, FALSE, (pr = "none")}
<1> USE DEF hubVars
<1>1. ASSUME NEW p \in Attempts, PodStep(p)
      PROVE  dropped' = dropped \/ dropped' = FALSE
  <2>1. CASE Push(p)
    BY <2>1 DEF Push
  <2>2. CASE \/ AdoptMark(p) \/ AdoptCreate(p) \/ MarkGrant(p) \/ CreatePR(p) \/ PushFails(p)
    BY <2>2 DEF AdoptMark, AdoptCreate, MarkGrant, CreatePR, PushFails
  <2>3. CASE UNCHANGED hubVars
    BY <2>3
  <2>4. \/ Push(p) \/ UNCHANGED hubVars \/ AdoptMark(p) \/ AdoptCreate(p)
        \/ MarkGrant(p) \/ CreatePR(p) \/ PushFails(p)
    BY <1>1 DEF PodStep, List, GateRefuses, GatePasses, PreflightAdopts,
       PreflightRejects, PreflightFails, PreflightFindsBranch, Admission, Acquire,
       Renew, StampInProgress, AgentCommits, AgentExhausted, AgentFails,
       AgentRateLimited, ReadHead, CheckClaim, CheckSkipped, PolicyUndecided,
       WriteImplemented, Release, ReleaseVanished, HandBackVanished
  <2> QED BY <2>1, <2>2, <2>3, <2>4
<1>2. ASSUME EnvStep
      PROVE  dropped' = dropped \/ dropped' = (pr = "none")
  BY <1>2 DEF EnvStep, LeaseLapses, HumanMovesPR, HumanDropsBranch, Crash, Expire, Fence
<1>3. ASSUME UNCHANGED vars
      PROVE  dropped' = dropped
  BY <1>3 DEF vars
<1> QED BY <1>1, <1>2, <1>3 DEF Next

\* So the history stays a truth value.
LEMMA DropType ==
    ASSUME dropped \in BOOLEAN, [Next]_vars
    PROVE  dropped' \in BOOLEAN
BY DropMoves

\* Every step of the pods and their environment keeps the types.
LEMMA TypeStep ==
    ASSUME TypeOK, [Next]_vars
    PROVE  TypeOK'
<1> USE DEF hubVars, podVars
<1>0. PodTypes /\ StatusType /\ claim \in [Attempts -> ClaimStates \cup {"none"}]
  BY DEF TypeOK, PodTypes, StatusType
<1>q. ASSUME PodTypes', StatusType', branch' \in Attempts \cup {NoOne},
             claim' \in [Attempts -> ClaimStates \cup {"none"}],
             pr' \in PRStates, grant' \in {"consumed", "executed"}
      PROVE  TypeOK'
  <2>1. dropped' \in BOOLEAN
    BY DropType DEF TypeOK
  <2> QED BY <1>q, <2>1, Zenon DEF TypeOK, PodTypes, StatusType
<1>1. ASSUME NEW p \in Attempts, PodStep(p)
      PROVE  TypeOK'
  <2>1. CASE \/ List(p) \/ GatePasses(p) \/ PreflightFails(p)
             \/ PreflightFindsBranch(p) \/ AdoptMark(p)
    BY <2>1, <1>0, <1>q DEF List, GatePasses, PreflightFails, PreflightFindsBranch,
       AdoptMark, MarkFailed, PodTypes, StatusType, Goto, Return, Pcs, TypeOK
  <2>2. CASE GateRefuses(p) \/ PreflightAdopts(p) \/ PreflightRejects(p)
    <3>1. PodTypes' /\ UNCHANGED <<claim, hubVars>>
      BY <2>2, <1>0, MoveTypes DEF GateRefuses, PreflightAdopts, PreflightRejects, Pcs
    <3>2. \/ status' \in {status, To("accepted"), Adopted("rejected")}
          \/ status' \in {Detached(Adopted("implemented")), Detached(Adopted("merged"))}
          \/ status' = [To("needs-triage") EXCEPT !.fail = "run"]
      <4>1. CASE PreflightAdopts(p)
        <5>1. pr \in {"open", "dirty", "merged", "closed"}
          BY <4>1 DEF PreflightAdopts, TypeOK, PRStates
        <5> QED BY <4>1, <5>1, Zenon DEF PreflightAdopts, OpenPR
      <4> QED BY <2>2, <4>1 DEF GateRefuses, PreflightRejects, MarkBlocked
    <3>3. StatusType'
      <4>1. CASE status' \in {status, To("accepted"), Adopted("rejected")}
        BY <4>1, <1>0 DEF Adopted, To, StatusType, Statuses, Failures
      <4>2. CASE status' \in {Detached(Adopted("implemented")), Detached(Adopted("merged"))}
        BY <4>2, <1>0 DEF Adopted, To, Detached, StatusType, Statuses, Failures
      <4>3. CASE status' = [To("needs-triage") EXCEPT !.fail = "run"]
        BY <4>3, <1>0 DEF To, StatusType, Statuses, Failures
      <4> QED BY <3>2, <4>1, <4>2, <4>3
    <3> QED BY <3>1, <3>3, <1>0, <1>q DEF TypeOK
  <2>3. CASE AdoptCreate(p)
    BY <2>3, <1>0, <1>q, MoveTypes DEF AdoptCreate, Adopted,
       To, Detached, StatusType, Statuses, Failures, PRStates, OpenPR, Pcs, TypeOK
  <2>4. CASE Admission(p)
    BY <2>4, <1>0, <1>q, MoveTypes DEF Admission, MarkBlocked,
       To, StatusType, Statuses, Failures, Pcs, TypeOK
  <2>5. CASE Acquire(p)
    <3>1. PICK r \in Ask("acquire", p) : claim' = r.claim
      BY <2>5 DEF Acquire
    <3>2. claim' \in [Attempts -> ClaimStates \cup {"none"}]
      BY <3>1, <1>0, AskType DEF Ops
    <3>3. PodTypes'
      BY <2>5, <1>0, MoveTypes DEF Acquire, Pcs
    <3> QED BY <2>5, <3>2, <3>3, <1>0, <1>q DEF Acquire, StatusType, TypeOK
  <2>6. CASE Renew(p)
    <3>1. PICK r \in Ask("renew", p) : claim' = r.claim
      BY <2>6 DEF Renew
    <3>2. claim' \in [Attempts -> ClaimStates \cup {"none"}]
      BY <3>1, <1>0, AskType DEF Ops
    <3>3. PodTypes'
      BY <2>6, <1>0, MoveTypes DEF Renew, Pcs
    <3> QED BY <2>6, <3>2, <3>3, <1>0, <1>q DEF Renew, StatusType, TypeOK
  <2>7. CASE StampInProgress(p) \/ AgentCommits(p)
    <3>1. PodTypes' /\ UNCHANGED <<claim, hubVars>>
      BY <2>7, <1>0, MoveTypes DEF StampInProgress, AgentCommits, Pcs
    <3>2. StatusType'
      BY <2>7, <1>0 DEF StampInProgress, AgentCommits, StatusType, Statuses, Failures
    <3> QED BY <3>1, <3>2, <1>0, <1>q DEF TypeOK
  <2>8. CASE ReadHead(p)
    BY <2>8, <1>0, <1>q DEF ReadHead, PodTypes, StatusType, Goto, Pcs, TypeOK
  <2>9. CASE AgentExhausted(p) \/ AgentFails(p) \/ AgentRateLimited(p)
    <3>1. PodTypes' /\ UNCHANGED <<claim, hubVars>>
      BY <2>9, <1>0, MoveTypes DEF AgentExhausted, AgentFails, AgentRateLimited, Pcs
    <3>2. StatusType'
      BY <2>9, <1>0, EndingTypes, BoundAssumption
      DEF AgentExhausted, AgentFails, AgentRateLimited, TriageRun, StatusType
    <3> QED BY <3>1, <3>2, <1>0, <1>q DEF TypeOK
  <2>10. CASE CheckClaim(p)
    <3>1. PICK r \in Ask("check", p) :
            LET verdict == ClientVerdict("check", r.answer) IN
            /\ claim' = r.claim
            /\ IF Stops(verdict) THEN CheckRefuses(p, verdict, r.answer)
               ELSE Proceed(p, TRUE, "push") /\ UNCHANGED status
      BY <2>10 DEF CheckClaim
    <3>2. claim' \in [Attempts -> ClaimStates \cup {"none"}]
      BY <3>1, <1>0, AskType DEF Ops
    <3>3. PodTypes'
      BY <3>1, <1>0, MoveTypes DEF CheckRefuses, Pcs
    <3>4. StatusType'
      BY <3>1, <1>0, EndingTypes DEF CheckRefuses, TriageRun, StatusType
    <3> QED BY <2>10, <3>2, <3>3, <3>4, <1>0, <1>q DEF CheckClaim, TypeOK
  <2>11. CASE CheckSkipped(p) \/ MarkGrant(p) \/ CreatePR(p)
    <3>1. PodTypes' /\ UNCHANGED <<claim, status, branch>>
      BY <2>11, <1>0, MoveTypes DEF CheckSkipped, MarkGrant, CreatePR, Pcs
    <3> QED BY <2>11, <3>1, <1>0, <1>q
            DEF CheckSkipped, MarkGrant, CreatePR, PRStates, StatusType, TypeOK
  <2>12. CASE PolicyUndecided(p) \/ PushFails(p)
    <3>1. PodTypes' /\ UNCHANGED <<claim, branch, pr>>
      BY <2>12, <1>0, MoveTypes DEF PolicyUndecided, PushFails, Pcs
    <3>3. grant' \in {"consumed", "executed"}
      BY <2>12 DEF PolicyUndecided, PushFails, MarkFailed, TypeOK
    <3>2. StatusType'
      BY <2>12, <1>0, EndingTypes, BoundAssumption
      DEF PolicyUndecided, PushFails, TriageRun, StatusType
    <3> QED BY <3>1, <3>2, <3>3, <1>0, <1>q DEF TypeOK
  <2>13. CASE Push(p)
    BY <2>13, <1>0, <1>q DEF Push, PodTypes, StatusType, Goto, Pcs, TypeOK
  <2>14. CASE WriteImplemented(p)
    <3>1. PodTypes' /\ UNCHANGED <<claim, hubVars>>
      BY <2>14, <1>0, MoveTypes DEF WriteImplemented, Pcs
    <3>2. PICK fresh \in BOOLEAN :
            status' = [To("implemented") EXCEPT !.att = p, !.fresh = fresh,
                           !.fail = "none", !.budget = 0, !.policy = 0]
      BY <2>14, <1>0 DEF WriteImplemented, StatusType
    <3>3. 0 \in 0 .. MaxBudgetHandbacks - 1 /\ 0 \in 0 .. MaxPolicyHandbacks - 1
      BY BoundAssumption
    <3>4. status' = [st |-> "implemented", att |-> p, fresh |-> fresh,
                     fail |-> "none", budget |-> 0, policy |-> 0]
      BY <3>2, <1>0 DEF To, StatusType
    <3>5. StatusType'
      BY <3>3, <3>4 DEF StatusType, Statuses, Failures
    <3> QED BY <3>1, <3>5, <1>0, <1>q DEF TypeOK
  <2>15. CASE Release(p) \/ ReleaseVanished(p)
    <3>1. PodTypes' /\ UNCHANGED <<status, hubVars>>
      BY <2>15, <1>0, MoveTypes DEF Release, ReleaseVanished, Pcs
    <3>2. claim' \in [Attempts -> ClaimStates \cup {"none"}]
      BY <2>15, <1>0, ReleaseType DEF Release, ReleaseVanished
    <3> QED BY <3>1, <3>2, <1>0, <1>q DEF StatusType, TypeOK
  <2>16. CASE HandBackVanished(p)
    <3>1. PodTypes' /\ UNCHANGED <<claim, hubVars>>
      BY <2>16, <1>0, MoveTypes DEF HandBackVanished, Pcs
    <3>2. StatusType'
      BY <2>16, <1>0, EndingTypes DEF HandBackVanished, StatusType
    <3> QED BY <3>1, <3>2, <1>0, <1>q DEF TypeOK
  <2> QED BY <1>1, <2>1, <2>2, <2>3, <2>4, <2>5, <2>6, <2>7, <2>8, <2>9, <2>10,
             <2>11, <2>12, <2>13, <2>14, <2>15, <2>16 DEF PodStep
<1>2. CASE EnvStep
  <2>1. ASSUME NEW p \in Attempts, Crash(p)
        PROVE  TypeOK'
    BY <2>1, <1>0, <1>q, MoveTypes DEF Crash, StatusType, Pcs, TypeOK
  <2>2. ASSUME NEW p \in Attempts, Expire(p) \/ Fence(p)
        PROVE  TypeOK'
    BY <2>2, <1>0, <1>q DEF Expire, Fence, ClaimStates, FreeStates, PodTypes, StatusType, TypeOK
  <2>3. CASE LeaseLapses
    BY <2>3, <1>0, <1>q DEF LeaseLapses, PodTypes, StatusType, TypeOK
  <2>4. CASE HumanMovesPR \/ HumanDropsBranch
    BY <2>4, <1>0, <1>q DEF HumanMovesPR, HumanDropsBranch, PodTypes, StatusType, TypeOK
  <2> QED BY <1>2, <2>1, <2>2, <2>3, <2>4 DEF EnvStep
<1>3. CASE UNCHANGED vars
  BY <1>3, <1>0, <1>q DEF vars, PodTypes, StatusType, TypeOK
<1> QED BY <1>1, <1>2, <1>3 DEF Next

\* The types at first.
LEMMA TypeInit == Init => TypeOK
<1>1. Init => dropped \in BOOLEAN
  BY DEF Init
<1>2. Init => /\ claim \in [Attempts -> ClaimStates \cup {"none"}] /\ StatusType
              /\ branch \in Attempts \cup {NoOne} /\ pr \in PRStates
              /\ grant \in {"consumed", "executed"} /\ PodTypes
  BY BoundAssumption DEF Init, ClaimInit, StatusType, PodTypes, Statuses, Failures,
     PRStates, Pcs
<1> QED BY <1>1, <1>2, Zenon DEF TypeOK, StatusType, PodTypes

\* The store, the record and every pod keep their types, and the handback counters
\* their limits.
THEOREM TypeCorrect == Spec => []TypeOK
BY TypeInit, TypeStep, PTL DEF Spec
-------------------------------------------------------------------------------
(* The claim under the steps of the system.                                *)

SingleActive ==
    \A p, q \in Attempts : claim[p] = "active" /\ claim[q] = "active" => p = q

\* The claim moves in three ways: an acquire is granted where nobody is active,
\* an ending attempt gives its own back, and the service takes one away.
Grants(p) ==
    pc[p] = "acquire" /\ Active = {} /\ claim' = Granted(p)

GivesBack(p) ==
    /\ pc[p] \in {"release", "vanished"}
    /\ claim' = [claim EXCEPT ![p] = "released"]

TakenAway(p) ==
    \E st \in {"expired", "fenced"} :
        /\ claim[p] = "active"
        /\ pc[p] = "stamp" => Fences
        /\ claim' = [claim EXCEPT ![p] = st]

\* A step changes the claims by granting one, giving one back or losing one.
LEMMA ClaimMoves ==
    ASSUME TypeOK, [Next]_vars
    PROVE  \/ UNCHANGED claim
           \/ \E p \in Attempts : Grants(p) \/ GivesBack(p) \/ TakenAway(p)
<1> USE DEF hubVars, podVars
<1>1. ASSUME NEW p \in Attempts, PodStep(p)
      PROVE  UNCHANGED claim \/ Grants(p) \/ GivesBack(p)
  <2>1. CASE Acquire(p)
    <3>1. PICK r \in Ask("acquire", p) : claim' = r.claim
      BY <2>1 DEF Acquire
    <3>2. r.claim = claim \/ (Active = {} /\ r.claim = Granted(p))
      BY <3>1, AskEffect DEF Ops
    <3> QED BY <2>1, <3>1, <3>2 DEF Acquire, Grants
  <2>2. CASE Renew(p)
    <3>1. PICK r \in Ask("renew", p) : claim' = r.claim
      BY <2>2 DEF Renew
    <3>2. r.claim = claim
      BY <3>1, AskEffect DEF Ops
    <3> QED BY <3>1, <3>2
  <2>3. CASE CheckClaim(p)
    <3>1. PICK r \in Ask("check", p) : claim' = r.claim
      BY <2>3 DEF CheckClaim
    <3>2. r.claim = claim
      BY <3>1, AskEffect DEF Ops
    <3> QED BY <3>1, <3>2
  <2>4. CASE Release(p) \/ ReleaseVanished(p)
    BY <2>4 DEF Release, ReleaseVanished, AfterRelease, GivesBack
  <2>5. CASE ~(Acquire(p) \/ Renew(p) \/ CheckClaim(p) \/ Release(p) \/ ReleaseVanished(p))
    BY <1>1, <2>5 DEF PodStep, List, GateRefuses, GatePasses, PreflightAdopts,
       PreflightRejects, PreflightFails, PreflightFindsBranch, AdoptMark, AdoptCreate,
       Admission, StampInProgress, AgentCommits, AgentExhausted, AgentFails,
       AgentRateLimited, ReadHead, CheckSkipped, PolicyUndecided, Push, MarkGrant,
       CreatePR, PushFails, WriteImplemented, HandBackVanished
  <2> QED BY <2>1, <2>2, <2>3, <2>4, <2>5
<1>2. ASSUME EnvStep
      PROVE  UNCHANGED claim \/ \E p \in Attempts : TakenAway(p)
  BY <1>2 DEF EnvStep, LeaseLapses, HumanMovesPR, HumanDropsBranch, Crash, Expire,
     Fence, TakenAway
<1> QED BY <1>1, <1>2 DEF Next, vars

\* The service never has two attempts active.
LEMMA SingleActiveStep ==
    ASSUME TypeOK, SingleActive, [Next]_vars
    PROVE  SingleActive'
<1>1. CASE UNCHANGED claim
  BY <1>1 DEF SingleActive
<1>2. ASSUME NEW p \in Attempts, Grants(p)
      PROVE  SingleActive'
  BY <1>2 DEF Grants, Granted, Active, SingleActive, TypeOK
<1>3. ASSUME NEW p \in Attempts, GivesBack(p) \/ TakenAway(p)
      PROVE  SingleActive'
  BY <1>3 DEF GivesBack, TakenAway, SingleActive, TypeOK
<1> QED BY <1>1, <1>2, <1>3, ClaimMoves

\* A pod moves alone.
LEMMA PodsMoveAlone ==
    ASSUME TypeOK, [Next]_vars
    PROVE  \/ UNCHANGED <<pc, ctx>>
           \/ \E p \in Attempts : /\ PodStep(p) \/ Crash(p)
                                  /\ \A q \in Attempts \ {p} :
                                        pc'[q] = pc[q] /\ ctx'[q] = ctx[q]
<1> USE DEF hubVars, podVars
<1>1. ASSUME NEW p \in Attempts, PodStep(p), NEW q \in Attempts \ {p}
      PROVE  pc'[q] = pc[q] /\ ctx'[q] = ctx[q]
  BY <1>1 DEF PodStep, List, GateRefuses, GatePasses, PreflightAdopts,
     PreflightRejects, PreflightFails, PreflightFindsBranch, AdoptMark, AdoptCreate,
     Admission, Acquire, Renew, StampInProgress, AgentCommits, AgentExhausted,
     AgentFails, AgentRateLimited, ReadHead, CheckClaim, CheckRefuses, CheckSkipped,
     PolicyUndecided, Push, MarkGrant, CreatePR, PushFails, WriteImplemented,
     Release, ReleaseVanished, HandBackVanished, Goto, Return, Proceed, TypeOK
<1>2. ASSUME NEW p \in Attempts, Crash(p), NEW q \in Attempts \ {p}
      PROVE  pc'[q] = pc[q] /\ ctx'[q] = ctx[q]
  BY <1>2 DEF Crash, Return, Goto, TypeOK
<1>3. ASSUME EnvStep, \A p \in Attempts : ~Crash(p)
      PROVE  UNCHANGED <<pc, ctx>>
  BY <1>3 DEF EnvStep, LeaseLapses, HumanMovesPR, HumanDropsBranch, Expire, Fence
<1>4. CASE \E p \in Attempts : PodStep(p)
  BY <1>1, <1>4
<1>5. CASE EnvStep
  BY <1>2, <1>3, <1>5
<1> QED BY <1>4, <1>5 DEF Next, vars
-------------------------------------------------------------------------------
(* The work and its claim.                                                 *)

Granted3 == {"active", "expired", "fenced"}

\* A pod at work was let in by a grant and keeps its context until it ends.
LEMMA WorkIsEntered ==
    ASSUME TypeOK, Enforced, NEW p \in Attempts, PodStep(p), pc'[p] \in Working
    PROVE  \/ pc[p] \in Working /\ ctx'[p] = ctx[p]
           \/ pc[p] \in Working /\ ctx'[p]
           \/ pc[p] \in {"acquire", "renew"} /\ ctx'[p] /\ claim'[p] = "active"
<1> USE DEF hubVars, podVars
<1>1. CASE Acquire(p)
  <2>1. PICK r \in Ask("acquire", p) :
          LET verdict == ClientVerdict("acquire", r.answer) IN
          /\ claim' = r.claim
          /\ IF verdict = "held-by-me"
             THEN Proceed(p, TRUE, IF Retaken(r.answer) THEN "renew" ELSE "stamp")
             ELSE IF Stops(verdict) THEN Return(p)
             ELSE Proceed(p, FALSE, "stamp")
    BY <1>1 DEF Acquire
  <2>2. CASE ClientVerdict("acquire", r.answer) = "held-by-me"
    <3>1. claim'[p] = "active"
      BY <2>1, <2>2, HeldIsActive DEF TypeOK, Ops
    <3> QED BY <1>1, <2>1, <2>2, <3>1 DEF Acquire, Proceed, TypeOK
  <2>3. CASE ClientVerdict("acquire", r.answer) # "held-by-me"
    <3>1. Return(p)
      BY <2>1, <2>3, EnforcedStops
    <3> QED BY <3>1 DEF Return, Goto, Working, Recorded, TypeOK
  <2> QED BY <2>2, <2>3
<1>2. CASE Renew(p)
  <2>1. PICK r \in Ask("renew", p) :
          LET verdict == ClientVerdict("renew", r.answer) IN
          /\ claim' = r.claim
          /\ IF verdict = "held-by-me" THEN Proceed(p, TRUE, "stamp")
             ELSE IF Stops(verdict) THEN Return(p)
             ELSE Proceed(p, FALSE, "stamp")
    BY <1>2 DEF Renew
  <2>2. CASE ClientVerdict("renew", r.answer) = "held-by-me"
    <3>1. claim'[p] = "active"
      BY <2>1, <2>2, HeldIsActive DEF TypeOK, Ops
    <3> QED BY <1>2, <2>1, <2>2, <3>1 DEF Renew, Proceed, TypeOK
  <2>3. CASE ClientVerdict("renew", r.answer) # "held-by-me"
    <3>1. Return(p)
      BY <2>1, <2>3, EnforcedStops
    <3> QED BY <3>1 DEF Return, Goto, Working, Recorded, TypeOK
  <2> QED BY <2>2, <2>3
<1>3. CASE CheckClaim(p)
  BY <1>3 DEF CheckClaim, CheckRefuses, Proceed, Return, Goto, Working, Recorded, TypeOK
<1>4. CASE \/ List(p) \/ GateRefuses(p) \/ GatePasses(p) \/ PreflightAdopts(p)
           \/ PreflightRejects(p) \/ PreflightFails(p) \/ PreflightFindsBranch(p)
           \/ AdoptMark(p) \/ AdoptCreate(p) \/ Admission(p)
  BY <1>4 DEF List, GateRefuses, GatePasses, PreflightAdopts, PreflightRejects,
     PreflightFails, PreflightFindsBranch, AdoptMark, AdoptCreate, Admission,
     Goto, Return, Working, Recorded, TypeOK
<1>5. CASE \/ StampInProgress(p) \/ AgentCommits(p) \/ ReadHead(p) \/ CheckSkipped(p)
           \/ Push(p) \/ MarkGrant(p) \/ CreatePR(p)
  BY <1>5 DEF StampInProgress, AgentCommits, ReadHead, CheckSkipped, Push, MarkGrant,
     CreatePR, Working, Recorded
<1>6. CASE \/ AgentExhausted(p) \/ AgentFails(p) \/ AgentRateLimited(p)
           \/ PolicyUndecided(p) \/ PushFails(p) \/ WriteImplemented(p) \/ Release(p)
           \/ ReleaseVanished(p) \/ HandBackVanished(p)
  BY <1>6 DEF AgentExhausted, AgentFails, AgentRateLimited, PolicyUndecided, PushFails,
     WriteImplemented, Release, ReleaseVanished, HandBackVanished,
     Goto, Return, Working, Recorded, TypeOK
<1> QED BY <1>1, <1>2, <1>3, <1>4, <1>5, <1>6 DEF PodStep

\* Every step keeps the work of an enforced pod claimed.
LEMMA WorkIsClaimedStep ==
    ASSUME TypeOK, SingleActive, WorkIsClaimed, [Next]_vars
    PROVE  WorkIsClaimed'
<1> SUFFICES ASSUME Enforced, NEW p \in Attempts, pc'[p] \in Working
             PROVE  ctx'[p] /\ claim'[p] \in Granted3
  BY DEF WorkIsClaimed, Granted3, Enforced, NewAnswerMayVeto, AtLeast, Stage
<1>1. CASE pc[p] \in Working /\ ctx'[p]
  <2>1. claim[p] \in Granted3
    BY <1>1 DEF WorkIsClaimed, Granted3
  <2>2. ASSUME NEW q \in Attempts, Grants(q) \/ GivesBack(q) \/ TakenAway(q)
        PROVE  claim'[p] \in Granted3
    <3>1. CASE q = p
      BY <1>1, <2>2, <3>1 DEF Grants, GivesBack, TakenAway, Granted, Granted3,
         Working, Recorded, TypeOK
    <3>2. CASE q # p
      BY <2>1, <2>2, <3>2 DEF Grants, GivesBack, TakenAway, Granted, TypeOK
    <3> QED BY <3>1, <3>2
  <2> QED BY <1>1, <2>1, <2>2, ClaimMoves
<1>2. CASE pc[p] \notin Working
  <2>1. PICK q \in Attempts : /\ PodStep(q) \/ Crash(q)
                              /\ \A o \in Attempts \ {q} : pc'[o] = pc[o] /\ ctx'[o] = ctx[o]
    BY <1>2, PodsMoveAlone
  <2>2. q = p /\ ~Crash(p)
    BY <1>2, <2>1 DEF Crash, Return, Goto, Working, Recorded, TypeOK
  <2> QED BY <1>2, <2>1, <2>2, WorkIsEntered DEF Granted3
<1>3. CASE pc[p] \in Working /\ ~ctx'[p]
  <2>1. ctx[p]
    BY <1>3 DEF WorkIsClaimed
  <2>2. PICK q \in Attempts : /\ PodStep(q) \/ Crash(q)
                              /\ \A o \in Attempts \ {q} : pc'[o] = pc[o] /\ ctx'[o] = ctx[o]
    BY <1>3, <2>1, PodsMoveAlone
  <2>3. q = p /\ ~Crash(p)
    BY <1>3, <2>1, <2>2 DEF Crash, Return, Goto, Working, Recorded, TypeOK
  <2> QED BY <1>3, <2>1, <2>2, <2>3, WorkIsEntered
<1> QED BY <1>1, <1>2, <1>3

\* Nobody holds or works at first.
LEMMA SafetyInit ==
    Init => SingleActive /\ WorkIsClaimed
BY DEF Init, ClaimInit, SingleActive, WorkIsClaimed, Working, Recorded

\* At enforce no pod works without a claim that was granted to it.
THEOREM WorkAlwaysClaimed == Spec => [](SingleActive /\ WorkIsClaimed)
<1>1. TypeOK /\ SingleActive /\ WorkIsClaimed /\ [Next]_vars
        => SingleActive' /\ WorkIsClaimed'
  BY SingleActiveStep, WorkIsClaimedStep
<1> QED BY <1>1, SafetyInit, TypeCorrect, PTL DEF Spec
-------------------------------------------------------------------------------
(* Whose status file it is.                                                *)

\* Who else but the owner may an ending write touch: nobody.
LEMMA EndingWrites ==
    ASSUME NEW p \in Attempts, NEW budget, NEW policy,
           HandBack(p, budget, policy) \/ Triage(p, budget, policy),
           status' # status
    PROVE  status.att = p
BY DEF HandBack, Triage, StillOurs

Endings == (Recorded \ {"implemented"}) \cup {"handback"}

\* An ending that changes the status file found itself in it.
LEMMA EndingStep ==
    ASSUME TypeOK, [Next]_vars, NEW p \in Attempts,
           pc[p] \in Endings, pc'[p] # pc[p], status' # status
    PROVE  status.att = p
<1> USE DEF hubVars, podVars
<1>1. PICK q \in Attempts : /\ PodStep(q) \/ Crash(q)
                            /\ \A o \in Attempts \ {q} : pc'[o] = pc[o] /\ ctx'[o] = ctx[o]
  BY PodsMoveAlone
<1>2. q = p /\ PodStep(p)
  BY <1>1 DEF Crash
<1>3. CASE AgentExhausted(p) \/ AgentFails(p) \/ AgentRateLimited(p)
  BY <1>3, EndingWrites DEF AgentExhausted, AgentFails, AgentRateLimited, TriageRun
<1>4. CASE PolicyUndecided(p) \/ PushFails(p)
  BY <1>4, EndingWrites DEF PolicyUndecided, PushFails, TriageRun
<1>5. CASE CheckClaim(p)
  BY <1>5, EndingWrites DEF CheckClaim, CheckRefuses, TriageRun
<1>6. CASE HandBackVanished(p)
  BY <1>6, EndingWrites DEF HandBackVanished
<1>7. CASE \/ List(p) \/ GateRefuses(p) \/ GatePasses(p) \/ PreflightAdopts(p)
           \/ PreflightRejects(p) \/ PreflightFails(p) \/ PreflightFindsBranch(p)
           \/ AdoptMark(p) \/ AdoptCreate(p) \/ Admission(p) \/ Acquire(p) \/ Renew(p)
           \/ StampInProgress(p) \/ WriteImplemented(p) \/ Release(p)
           \/ ReleaseVanished(p)
  BY <1>7 DEF List, GateRefuses, GatePasses, PreflightAdopts, PreflightRejects,
     PreflightFails, PreflightFindsBranch, AdoptMark, AdoptCreate, Admission,
     Acquire, Renew, StampInProgress, WriteImplemented, Release, ReleaseVanished,
     Endings, Recorded
<1>8. CASE AgentCommits(p) \/ ReadHead(p) \/ CheckSkipped(p) \/ Push(p)
           \/ MarkGrant(p) \/ CreatePR(p)
  BY <1>8 DEF AgentCommits, ReadHead, CheckSkipped, Push, MarkGrant, CreatePR
<1> QED BY <1>2, <1>3, <1>4, <1>5, <1>6, <1>7, <1>8 DEF PodStep

\* An ending attempt never rewrites the status of another one.
THEOREM EndingWritesOwn == Spec => EndingWritesAreOwn
<1>1. TypeOK /\ [Next]_vars =>
        [\A p \in Attempts :
            pc[p] \in Endings /\ pc'[p] # pc[p] /\ status' # status => status.att = p]_vars
  BY EndingStep
<1> QED BY <1>1, TypeCorrect, PTL DEF Spec, EndingWritesAreOwn, Endings

\* Where the service does not fence, a claim that let a pod in is still active
\* when the pod stamps the status file.
StampIsHeld ==
    Enforced /\ ~Fences => \A p \in Attempts : pc[p] = "stamp" => claim[p] = "active"

CreatedIsThere == \A p \in Attempts : pc[p] = "implemented" => pr # "none"

RecordInv ==
    /\ SingleActive
    /\ WorkIsClaimed
    /\ StampIsHeld
    /\ CreatedIsThere
    /\ HolderIsRecorded

\* Every step keeps the pod at its stamp in the claim.
LEMMA StampIsHeldStep ==
    ASSUME TypeOK, SingleActive, WorkIsClaimed, StampIsHeld, [Next]_vars
    PROVE  StampIsHeld'
<1> SUFFICES ASSUME Enforced, ~Fences, NEW p \in Attempts, pc'[p] = "stamp"
             PROVE  claim'[p] = "active"
  BY DEF StampIsHeld, Enforced, NewAnswerMayVeto, AtLeast, Stage
<1>1. CASE pc[p] = "stamp"
  <2>1. claim[p] = "active"
    BY <1>1 DEF StampIsHeld
  <2>2. ASSUME NEW q \in Attempts, Grants(q) \/ GivesBack(q) \/ TakenAway(q)
        PROVE  claim'[p] = "active"
    BY <1>1, <2>1, <2>2 DEF Grants, GivesBack, TakenAway, Granted, Active, TypeOK
  <2> QED BY <2>1, <2>2, ClaimMoves
<1>2. CASE pc[p] # "stamp"
  <2>1. PICK q \in Attempts : /\ PodStep(q) \/ Crash(q)
                              /\ \A o \in Attempts \ {q} : pc'[o] = pc[o] /\ ctx'[o] = ctx[o]
    BY <1>2, PodsMoveAlone
  <2>2. q = p /\ PodStep(p)
    BY <1>2, <2>1 DEF Crash, Return, Goto, TypeOK
  <2>3. pc[p] \notin Working
    BY <1>2, <2>2 DEF PodStep, List, GateRefuses, GatePasses, PreflightAdopts,
       PreflightRejects, PreflightFails, PreflightFindsBranch, AdoptMark, AdoptCreate,
       Admission, Acquire, Renew, StampInProgress, AgentCommits, AgentExhausted,
       AgentFails, AgentRateLimited, ReadHead, CheckClaim, CheckRefuses, CheckSkipped,
       PolicyUndecided, Push, MarkGrant, CreatePR, PushFails, WriteImplemented,
       Release, ReleaseVanished, HandBackVanished, Goto, Return, Proceed,
       Working, Recorded, TypeOK
  <2> QED BY <2>2, <2>3, WorkIsEntered DEF Working
<1> QED BY <1>1, <1>2

\* A request never goes away again.
LEMMA RequestStays ==
    ASSUME [Next]_vars, pr # "none"
    PROVE  pr' # "none"
<1> USE DEF hubVars, podVars
<1>1. ASSUME NEW p \in Attempts, PodStep(p)
      PROVE  pr' # "none"
  BY <1>1 DEF PodStep, List, GateRefuses, GatePasses, PreflightAdopts,
     PreflightRejects, PreflightFails, PreflightFindsBranch, AdoptMark, AdoptCreate,
     Admission, Acquire, Renew, StampInProgress, AgentCommits, AgentExhausted,
     AgentFails, AgentRateLimited, ReadHead, CheckClaim, CheckSkipped,
     PolicyUndecided, Push, MarkGrant, CreatePR, PushFails, WriteImplemented,
     Release, ReleaseVanished, HandBackVanished
<1>2. ASSUME EnvStep
      PROVE  pr' # "none"
  BY <1>2 DEF EnvStep, LeaseLapses, HumanMovesPR, HumanDropsBranch, PRMoves,
     Crash, Expire, Fence
<1> QED BY <1>1, <1>2 DEF Next, vars

\* Every step keeps the request of the pod that records it.
LEMMA CreatedIsThereStep ==
    ASSUME TypeOK, CreatedIsThere, [Next]_vars
    PROVE  CreatedIsThere'
<1> SUFFICES ASSUME NEW p \in Attempts, pc'[p] = "implemented"
             PROVE  pr' # "none"
  BY DEF CreatedIsThere
<1>1. CASE pc[p] = "implemented"
  BY <1>1, RequestStays DEF CreatedIsThere
<1>2. CASE pc[p] # "implemented"
  <2>1. PICK q \in Attempts : /\ PodStep(q) \/ Crash(q)
                              /\ \A o \in Attempts \ {q} : pc'[o] = pc[o] /\ ctx'[o] = ctx[o]
    BY <1>2, PodsMoveAlone
  <2>2. q = p /\ PodStep(p)
    BY <1>2, <2>1 DEF Crash, Return, Goto, TypeOK
  <2>3. CreatePR(p)
    BY <1>2, <2>2 DEF PodStep, List, GateRefuses, GatePasses, PreflightAdopts,
       PreflightRejects, PreflightFails, PreflightFindsBranch, AdoptMark, AdoptCreate,
       Admission, Acquire, Renew, StampInProgress, AgentCommits, AgentExhausted,
       AgentFails, AgentRateLimited, ReadHead, CheckClaim, CheckRefuses, CheckSkipped,
       PolicyUndecided, Push, MarkGrant, PushFails, WriteImplemented,
       Release, ReleaseVanished, HandBackVanished, Goto, Return, Proceed, TypeOK
  <2> QED BY <2>3 DEF CreatePR
<1> QED BY <1>1, <1>2
\* What a step may do to the attempt id of the status file while there is no
\* request: nothing, or stamp it, or take the own one away.
LEMMA AttemptMoves ==
    ASSUME TypeOK, CreatedIsThere, [Next]_vars, pr' = "none"
    PROVE  \/ status'.att = status.att
           \/ \E q \in Attempts : pc[q] = "stamp" /\ pc'[q] = "agent" /\ status'.att = q
           \/ \E q \in Attempts : /\ status.att = q /\ status'.att = NoOne
                                  /\ pc'[q] \notin Recorded
<1> USE DEF hubVars, podVars
<1>0. pr = "none"
  BY RequestStays
<1>1. ASSUME NEW p \in Attempts, PodStep(p)
      PROVE  \/ status'.att = status.att
             \/ pc[p] = "stamp" /\ pc'[p] = "agent" /\ status'.att = p
             \/ status.att = p /\ status'.att = NoOne /\ pc'[p] \notin Recorded
  <2>1. CASE GateRefuses(p) \/ PreflightRejects(p) \/ Admission(p)
    BY <2>1 DEF GateRefuses, PreflightRejects, Admission, MarkBlocked, To, TypeOK
  <2>2. CASE PreflightAdopts(p) \/ AdoptCreate(p) \/ WriteImplemented(p)
    BY <2>2, <1>0 DEF PreflightAdopts, AdoptCreate, WriteImplemented, CreatedIsThere, OpenPR
  <2>3. CASE StampInProgress(p)
    BY <2>3 DEF StampInProgress, Goto, TypeOK
  <2>4. ASSUME NEW budget, NEW policy, HandBack(p, budget, policy),
               pc'[p] \notin Recorded
        PROVE  \/ status'.att = status.att
               \/ status.att = p /\ status'.att = NoOne /\ pc'[p] \notin Recorded
    BY <2>4 DEF HandBack, HandedBack, StillOurs, Detached, To, TypeOK
  <2>5. ASSUME NEW budget, NEW policy, Triage(p, budget, policy)
        PROVE  status'.att = status.att
    BY <2>5 DEF Triage, To, TypeOK
  <2>6. CASE \/ AgentExhausted(p) \/ AgentFails(p) \/ AgentRateLimited(p)
             \/ PolicyUndecided(p) \/ PushFails(p) \/ HandBackVanished(p)
    <3>1. pc'[p] \notin Recorded
      BY <2>6 DEF AgentExhausted, AgentFails, AgentRateLimited, PolicyUndecided,
         PushFails, HandBackVanished, Return, Goto, Recorded, TypeOK
    <3> QED BY <2>4, <2>5, <2>6, <3>1 DEF AgentExhausted, AgentFails, AgentRateLimited,
            PolicyUndecided, PushFails, HandBackVanished, TriageRun
  <2>7. CASE CheckClaim(p)
    BY <2>5, <2>7 DEF CheckClaim, CheckRefuses, TriageRun
  <2>8. CASE \/ List(p) \/ GatePasses(p) \/ PreflightFails(p) \/ PreflightFindsBranch(p)
             \/ AdoptMark(p) \/ Acquire(p) \/ Renew(p) \/ AgentCommits(p) \/ ReadHead(p)
             \/ CheckSkipped(p) \/ Push(p) \/ MarkGrant(p) \/ CreatePR(p) \/ Release(p)
             \/ ReleaseVanished(p)
    BY <2>8 DEF List, GatePasses, PreflightFails, PreflightFindsBranch, AdoptMark,
       Acquire, Renew, AgentCommits, ReadHead, CheckSkipped, Push, MarkGrant, CreatePR,
       Release, ReleaseVanished
  <2> QED BY <1>1, <2>1, <2>2, <2>3, <2>6, <2>7, <2>8 DEF PodStep
<1>2. ASSUME EnvStep
      PROVE  status'.att = status.att
  BY <1>2 DEF EnvStep, LeaseLapses, HumanMovesPR, HumanDropsBranch, Crash, Expire,
     Fence, TypeOK
<1> QED BY <1>1, <1>2 DEF Next, vars

\* Every step keeps the holder recorded as long as there is no request.
LEMMA HolderIsRecordedStep ==
    ASSUME TypeOK, RecordInv, [Next]_vars
    PROVE  HolderIsRecorded'
<1> SUFFICES ASSUME Enforced, ~Fences, NEW p \in Attempts,
                    pc'[p] \in Recorded, claim'[p] = "active", pr' = "none"
             PROVE  status'.att = p
  BY DEF HolderIsRecorded, Enforced, NewAnswerMayVeto, AtLeast, Stage
<1>0. pr = "none"
  BY RequestStays
<1>1. CASE pc[p] \in Recorded
  <2>1. claim[p] = "active"
    <3>1. ASSUME NEW q \in Attempts, Grants(q) \/ GivesBack(q) \/ TakenAway(q)
          PROVE  claim[p] = "active"
      BY <1>1, <3>1 DEF Grants, GivesBack, TakenAway, Granted, Recorded, TypeOK
    <3> QED BY <3>1, ClaimMoves
  <2>2. status.att = p
    BY <1>0, <1>1, <2>1 DEF RecordInv, HolderIsRecorded
  <2>3. ASSUME NEW q \in Attempts, pc[q] = "stamp"
        PROVE  FALSE
    BY <1>1, <2>1, <2>3 DEF RecordInv, StampIsHeld, SingleActive, Recorded
  <2> QED BY <2>2, <2>3, AttemptMoves DEF RecordInv
<1>2. CASE pc[p] \notin Recorded
  <2>1. PICK q \in Attempts : /\ PodStep(q) \/ Crash(q)
                              /\ \A o \in Attempts \ {q} : pc'[o] = pc[o] /\ ctx'[o] = ctx[o]
    BY <1>2, PodsMoveAlone
  <2>2. q = p /\ PodStep(p)
    BY <1>2, <2>1 DEF Crash, Return, Goto, Recorded, TypeOK
  <2>3. StampInProgress(p)
    BY <1>2, <2>2 DEF PodStep, List, GateRefuses, GatePasses, PreflightAdopts,
       PreflightRejects, PreflightFails, PreflightFindsBranch, AdoptMark, AdoptCreate,
       Admission, Acquire, Renew, AgentCommits, AgentExhausted,
       AgentFails, AgentRateLimited, ReadHead, CheckClaim, CheckRefuses, CheckSkipped,
       PolicyUndecided, Push, MarkGrant, CreatePR, PushFails, WriteImplemented,
       Release, ReleaseVanished, HandBackVanished, Goto, Return, Proceed, Recorded, TypeOK
  <2> QED BY <2>3 DEF StampInProgress, TypeOK
<1> QED BY <1>1, <1>2

\* The record at first, and after every step.
LEMMA RecordInit == Init => RecordInv
BY SafetyInit DEF Init, RecordInv, StampIsHeld, CreatedIsThere, HolderIsRecorded, Recorded

\* See RecordInit.
LEMMA RecordInvStep ==
    ASSUME TypeOK, RecordInv, [Next]_vars
    PROVE  RecordInv'
BY SingleActiveStep, WorkIsClaimedStep, StampIsHeldStep, CreatedIsThereStep,
   HolderIsRecordedStep DEF RecordInv

\* While there is no request, the status file names the live holder.
THEOREM HolderAlwaysRecorded == Spec => []HolderIsRecorded
<1>1. RecordInv => HolderIsRecorded
  BY DEF RecordInv
<1> QED BY <1>1, RecordInit, RecordInvStep, TypeCorrect, PTL DEF Spec

-------------------------------------------------------------------------------
(* The grant and the result.                                               *)

\* A pod that is about to open the request, or just did, has spent the grant; a
\* pod that is about to spend it has a branch or a request to show for it, unless
\* a human dropped the branch.
GrantInv ==
    /\ \A p \in Attempts :
        /\ pc[p] \in {"create", "adopt-create", "implemented"} => grant = "executed"
        /\ pc[p] \in {"mark", "adopt-mark"} => branch # NoOne \/ pr # "none" \/ dropped
    /\ GrantAndResultAgree

\* Every step keeps the grant and the result together.
LEMMA GrantInvStep ==
    ASSUME TypeOK, GrantInv, [Next]_vars
    PROVE  GrantInv'
<1> USE DEF hubVars, podVars
<1>1. ASSUME NEW p \in Attempts, PodStep(p)
      PROVE  GrantInv'
  <2>1. CASE \/ List(p) \/ GateRefuses(p) \/ GatePasses(p) \/ PreflightAdopts(p)
             \/ PreflightRejects(p) \/ PreflightFails(p) \/ PreflightFindsBranch(p)
             \/ Admission(p)
    BY <2>1 DEF List, GateRefuses, GatePasses, PreflightAdopts, PreflightRejects,
       PreflightFails, PreflightFindsBranch, Admission, Goto, Return,
       GrantInv, GrantAndResultAgree, TypeOK
  <2>2. CASE AdoptMark(p) \/ MarkGrant(p)
    BY <2>2 DEF AdoptMark, MarkFailed, MarkGrant, Goto, Return, GrantInv, GrantAndResultAgree, TypeOK
  <2>3. CASE AdoptCreate(p) \/ CreatePR(p)
    BY <2>3 DEF AdoptCreate, CreatePR, CanCreate, OpenPR, Goto, Return, GrantInv,
       GrantAndResultAgree, TypeOK
  <2>4. CASE Acquire(p) \/ Renew(p)
    BY <2>4 DEF Acquire, Renew, Proceed, Goto, Return, GrantInv, GrantAndResultAgree, TypeOK
  <2>5. CASE CheckClaim(p)
    BY <2>5 DEF CheckClaim, CheckRefuses, Proceed, Goto, Return, GrantInv,
       GrantAndResultAgree, TypeOK
  <2>6. CASE Push(p)
    BY <2>6, NoOneAssumption DEF Push, Goto, GrantInv, GrantAndResultAgree, TypeOK
  <2>7. CASE \/ StampInProgress(p) \/ AgentCommits(p) \/ AgentExhausted(p)
             \/ AgentFails(p) \/ AgentRateLimited(p) \/ ReadHead(p) \/ CheckSkipped(p)
             \/ PolicyUndecided(p) \/ WriteImplemented(p) \/ Release(p)
             \/ ReleaseVanished(p) \/ HandBackVanished(p)
    BY <2>7 DEF StampInProgress, AgentCommits, AgentExhausted, AgentFails,
       AgentRateLimited, ReadHead, CheckSkipped, PolicyUndecided, WriteImplemented,
       Release, ReleaseVanished, HandBackVanished, Goto, Return,
       GrantInv, GrantAndResultAgree, TypeOK
  <2>8. CASE PushFails(p)
    <3>1. pc[p] = "mark" \/ grant' = grant
      BY <2>8 DEF PushFails
    <3>2. grant' \in {grant, "executed"}
      BY <2>8 DEF PushFails, MarkFailed
    <3>3. UNCHANGED <<branch, pr, dropped>> /\ pc' = [pc EXCEPT ![p] = "release"]
      BY <2>8 DEF PushFails, Goto
    <3> QED BY <3>1, <3>2, <3>3 DEF GrantInv, GrantAndResultAgree, TypeOK
  <2> QED BY <1>1, <2>1, <2>2, <2>3, <2>4, <2>5, <2>6, <2>7, <2>8 DEF PodStep
<1>2. ASSUME EnvStep
      PROVE  GrantInv'
  <2>1. ASSUME NEW p \in Attempts, Crash(p)
        PROVE  GrantInv'
    BY <2>1 DEF Crash, Return, Goto, GrantInv, GrantAndResultAgree, TypeOK
  <2>2. ASSUME NEW p \in Attempts, Expire(p) \/ Fence(p)
        PROVE  GrantInv'
    BY <2>2 DEF Expire, Fence, GrantInv, GrantAndResultAgree
  <2>3. CASE LeaseLapses
    BY <2>3 DEF LeaseLapses, GrantInv, GrantAndResultAgree
  <2>4. CASE HumanMovesPR \/ HumanDropsBranch
    BY <2>4 DEF HumanMovesPR, HumanDropsBranch, PRMoves, GrantInv, GrantAndResultAgree
  <2> QED BY <1>2, <2>1, <2>2, <2>3, <2>4 DEF EnvStep
<1>3. CASE UNCHANGED vars
  BY <1>3 DEF vars, GrantInv, GrantAndResultAgree
<1> QED BY <1>1, <1>2, <1>3 DEF Next

\* At first the grant is not spent.
LEMMA GrantInit == Init => GrantInv
BY DEF Init, GrantInv, GrantAndResultAgree

\* No request without a spent grant, no spent grant without a result, unless a
\* human dropped the branch before it had a request.
THEOREM GrantAlwaysAgrees == Spec => []GrantAndResultAgree
<1>1. GrantInv => GrantAndResultAgree
  BY DEF GrantInv
<1> QED BY <1>1, GrantInit, GrantInvStep, TypeCorrect, PTL DEF Spec

-------------------------------------------------------------------------------
(* The pods implement the fenced result.                                   *)

\* The holder is the one active attempt.
LEMMA HolderIs ==
    ASSUME SingleActive, claim \in [Attempts -> ClaimStates \cup {"none"}]
    PROVE  /\ \A p \in Attempts : claim[p] = "active" => Holder = p
           /\ Active = {} => Holder = NoOne
BY DEF SingleActive, Holder, Active

\* A step that leaves branch, heads read and push positions alone, but for a
\* pod that leaves its push, keeps or withdraws clearances.
LEMMA ClearedKept ==
    ASSUME UNCHANGED <<branch>>, NEW p \in Attempts, pc'[p] # "push",
           \A q \in Attempts \ {p} : pc'[q] = pc[q] /\ expected'[q] = expected[q]
    PROVE  Cleared' = Cleared \ {p}
BY DEF Cleared

\* A step beside the push leaves the clearances alone.
LEMMA ClearedSame ==
    ASSUME UNCHANGED <<branch>>, NEW p \in Attempts, pc'[p] # "push", pc[p] # "push",
           \A q \in Attempts \ {p} : pc'[q] = pc[q] /\ expected'[q] = expected[q]
    PROVE  Cleared' = Cleared
BY DEF Cleared

\* The holder stays, lets go, or a free claim is taken.
LEMMA HolderMoves ==
    ASSUME TypeOK, TypeOK', SingleActive, SingleActive', [Next]_vars
    PROVE  \/ Holder' = Holder
           \/ Holder' = NoOne
           \/ \E p \in Attempts : Holder = NoOne /\ Holder' = p
<1>1. CASE UNCHANGED claim
  BY <1>1 DEF Holder, Active
<1>2. ASSUME NEW p \in Attempts, Grants(p)
      PROVE  Holder = NoOne /\ Holder' = p
  <2>1. claim'[p] = "active"
    BY <1>2 DEF Grants, Granted, TypeOK
  <2> QED BY <1>2, <2>1 DEF Grants, Holder, Active, SingleActive
<1>3. ASSUME NEW p \in Attempts, GivesBack(p) \/ TakenAway(p)
      PROVE  Holder' \in {Holder, NoOne}
  <2>1. claim'[p] # "active" /\ \A q \in Attempts \ {p} : claim'[q] = claim[q]
    BY <1>3 DEF GivesBack, TakenAway, TypeOK
  <2>2. CASE claim[p] = "active"
    <3>1. Active' = {}
      BY <2>1, <2>2 DEF Active, SingleActive
    <3> QED BY <3>1 DEF Holder
  <2>3. CASE claim[p] # "active"
    <3>1. Active' = Active
      BY <2>1, <2>3 DEF Active
    <3> QED BY <3>1 DEF Holder
  <2> QED BY <2>2, <2>3
<1> QED BY <1>1, <1>2, <1>3, ClaimMoves

\* A check that lets a pod through at enforce found it the active holder.
LEMMA CheckClears ==
    ASSUME TypeOK, SingleActive, Enforced, NEW p \in Attempts, CheckClaim(p)
    PROVE  pc'[p] = "push" => Holder = p
<1> SUFFICES ASSUME pc'[p] = "push"
             PROVE  Holder = p
  OBVIOUS
<1>1. PICK r \in Ask("check", p) :
        LET verdict == ClientVerdict("check", r.answer) IN
        /\ claim' = r.claim
        /\ IF Stops(verdict) THEN CheckRefuses(p, verdict, r.answer)
           ELSE Proceed(p, TRUE, "push") /\ UNCHANGED status
  BY DEF CheckClaim
<1>2. ~Stops(ClientVerdict("check", r.answer))
  BY <1>1 DEF CheckRefuses, Proceed, Return, Goto, TypeOK
<1>3. r.claim[p] = "active" /\ r.claim = claim
  BY <1>2, EnforcedStops, HeldIsActive, AskEffect DEF Ops, TypeOK
<1> QED BY <1>3, HolderIs DEF TypeOK

\* Every step is a step of the fenced result, or a stutter.
LEMMA FencedStep ==
    ASSUME TypeOK, TypeOK', SingleActive, SingleActive', WorkIsClaimed, Enforced,
           [Next]_vars
    PROVE  [Fenced!Next]_(Fenced!vars)
<1> USE DEF hubVars, podVars
<1>a. ASSUME UNCHANGED <<branch>>, Cleared' = Cleared
      PROVE  [Fenced!Next]_(Fenced!vars)
  BY <1>a, HolderMoves DEF Fenced!Next, Fenced!vars, Fenced!Take, Fenced!Lose
<1>b. ASSUME UNCHANGED <<claim, branch>>, NEW p \in Attempts, Cleared' = Cleared \ {p}
      PROVE  [Fenced!Next]_(Fenced!vars)
  <2>1. Holder' = Holder
    BY <1>b DEF Holder, Active
  <2> QED BY <1>b, <2>1 DEF Fenced!Next, Fenced!Withdraw
<1>1. ASSUME NEW p \in Attempts, PodStep(p)
      PROVE  [Fenced!Next]_(Fenced!vars)
  <2>1. CASE \/ List(p) \/ GateRefuses(p) \/ GatePasses(p) \/ PreflightAdopts(p)
             \/ PreflightRejects(p) \/ PreflightFails(p) \/ PreflightFindsBranch(p)
             \/ AdoptMark(p) \/ AdoptCreate(p) \/ Admission(p)
    <3>1. /\ UNCHANGED <<branch>> /\ pc[p] # "push" /\ pc'[p] # "push"
          /\ \A q \in Attempts \ {p} : pc'[q] = pc[q] /\ expected'[q] = expected[q]
      BY <2>1 DEF List, GateRefuses, GatePasses, PreflightAdopts, PreflightRejects,
         PreflightFails, PreflightFindsBranch, AdoptMark, AdoptCreate, Admission,
         Goto, Return, TypeOK
    <3> QED BY <3>1, <1>a, ClearedSame
  <2>2. CASE \/ Acquire(p) \/ Renew(p) \/ StampInProgress(p) \/ AgentCommits(p)
             \/ AgentExhausted(p) \/ AgentFails(p) \/ AgentRateLimited(p)
             \/ ReadHead(p) \/ MarkGrant(p) \/ CreatePR(p) \/ WriteImplemented(p)
             \/ Release(p) \/ ReleaseVanished(p) \/ HandBackVanished(p)
    <3>1. /\ UNCHANGED <<branch>> /\ pc[p] # "push" /\ pc'[p] # "push"
          /\ \A q \in Attempts \ {p} : pc'[q] = pc[q] /\ expected'[q] = expected[q]
      BY <2>2 DEF Acquire, Renew, StampInProgress, AgentCommits, AgentExhausted,
         AgentFails, AgentRateLimited, ReadHead, MarkGrant, CreatePR, WriteImplemented,
         Release, ReleaseVanished, HandBackVanished, Goto, Return, Proceed, TypeOK
    <3> QED BY <3>1, <1>a, ClearedSame
  <2>3. CASE PolicyUndecided(p) \/ PushFails(p)
    <3>1. /\ UNCHANGED <<claim, branch>> /\ pc'[p] # "push"
          /\ \A q \in Attempts \ {p} : pc'[q] = pc[q] /\ expected'[q] = expected[q]
      BY <2>3 DEF PolicyUndecided, PushFails, Goto, TypeOK
    <3> QED BY <3>1, <1>b, ClearedKept
  <2>4. CASE CheckSkipped(p)
    BY <2>4 DEF CheckSkipped, WorkIsClaimed, Working, Recorded
  <2>5. CASE CheckClaim(p)
    <3>1. /\ UNCHANGED <<claim, branch>> /\ pc[p] # "push"
          /\ \A q \in Attempts \ {p} : pc'[q] = pc[q] /\ expected'[q] = expected[q]
      <4>1. PICK r \in Ask("check", p) : claim' = r.claim
        BY <2>5 DEF CheckClaim
      <4>2. UNCHANGED claim
        BY <4>1, AskEffect DEF Ops
      <4> QED BY <2>5, <4>2 DEF CheckClaim, CheckRefuses, Return, Goto, Proceed, TypeOK
    <3>2. CASE pc'[p] = "push"
      <4>1. Holder = p /\ Holder' = Holder
        BY <2>5, <3>1, <3>2, CheckClears DEF Holder, Active
      <4>2. Cleared' \in {Cleared, Cleared \cup {p}}
        <5>1. \A q \in Attempts \ {p} : q \in Cleared' <=> q \in Cleared
          BY <3>1 DEF Cleared
        <5>2. p \notin Cleared
          BY <3>1 DEF Cleared
        <5>3. Cleared' \subseteq Attempts /\ Cleared \subseteq Attempts
          BY DEF Cleared
        <5> QED BY <5>1, <5>2, <5>3
      <4> QED BY <3>1, <4>1, <4>2 DEF Fenced!Next, Fenced!Clear, Fenced!vars
    <3>3. CASE pc'[p] # "push"
      BY <3>1, <3>3, <1>a, ClearedSame
    <3> QED BY <3>2, <3>3
  <2>6. CASE Push(p)
    <3>1. p \in Cleared /\ branch' = p /\ Holder' = Holder
      BY <2>6 DEF Push, Cleared, Holder, Active
    <3>2. ASSUME NEW q \in Attempts
          PROVE  ~(pc'[q] = "push" /\ branch' = expected'[q])
      BY <2>6, <3>2, NoOneAssumption DEF Push, Goto, TypeOK
    <3>3. Cleared' = {}
      BY <3>2 DEF Cleared
    <3> QED BY <3>1, <3>3 DEF Fenced!Next, Fenced!Publish
  <2> QED BY <1>1, <2>1, <2>2, <2>3, <2>4, <2>5, <2>6 DEF PodStep
<1>2. CASE EnvStep
  <2>1. ASSUME NEW p \in Attempts, Crash(p)
        PROVE  [Fenced!Next]_(Fenced!vars)
    <3>1. /\ UNCHANGED <<claim, branch>> /\ pc'[p] # "push"
          /\ \A q \in Attempts \ {p} : pc'[q] = pc[q] /\ expected'[q] = expected[q]
      BY <2>1 DEF Crash, Return, Goto, TypeOK
    <3> QED BY <3>1, <1>b, ClearedKept
  <2>2. CASE LeaseLapses \/ \E p \in Attempts : Expire(p) \/ Fence(p)
    BY <2>2, <1>a DEF LeaseLapses, Expire, Fence, Cleared
  <2>3. CASE HumanMovesPR \/ HumanDropsBranch
    <3>1. Holder' = Holder /\ branch' \in {branch, NoOne}
      <4>1. UNCHANGED claim
        BY <2>3 DEF HumanMovesPR, HumanDropsBranch
      <4>2. branch' \in {branch, NoOne}
        BY <2>3 DEF HumanMovesPR, HumanDropsBranch
      <4> QED BY <4>1, <4>2 DEF Holder, Active
    <3>2. CASE branch' = branch
      <4>1. UNCHANGED <<pc, expected>>
        BY <2>3 DEF HumanMovesPR, HumanDropsBranch
      <4> QED BY <3>2, <4>1, <1>a DEF Cleared
    <3>3. CASE branch' = NoOne
      BY <3>1, <3>3 DEF Fenced!Next, Fenced!Remove, Cleared
    <3> QED BY <3>1, <3>2, <3>3
  <2> QED BY <1>2, <2>1, <2>2, <2>3 DEF EnvStep
<1>3. CASE UNCHANGED vars
  BY <1>3, <1>a DEF vars, Cleared
<1> QED BY <1>1, <1>2, <1>3 DEF Next

\* Nothing is held, cleared or published at first.
LEMMA FencedInit == Init => Fenced!Init
BY DEF Init, ClaimInit, Fenced!Init, Holder, Active, Cleared

\* Where the claim is enforced, the pods, the claim service and the leased push
\* implement the fenced result.
THEOREM ResultAlwaysFenced ==
    ASSUME Enforced
    PROVE  Spec => ResultIsFenced
<1>1. TypeOK /\ TypeOK' /\ SingleActive /\ SingleActive' /\ WorkIsClaimed /\ [Next]_vars
        => [Fenced!Next]_(Fenced!vars)
  BY FencedStep
<1>2. Spec => [](SingleActive /\ WorkIsClaimed)
  BY WorkAlwaysClaimed
<1> QED BY <1>1, <1>2, FencedInit, TypeCorrect, PTL DEF Spec, ResultIsFenced, Fenced!Spec

-------------------------------------------------------------------------------
(* The pods beside the reconcile pass.                                     *)

\* Where the pass is, and what it read or is about to write.
PassStates == [pc : {"idle", "look", "absent", "write", "died"},
               st : Statuses, fail : Failures \cup {"kept"}]

PassType == rec \in PassStates

\* Of what the pods share, the pass writes status and failure only.
PassMoves ==
    /\ UNCHANGED <<claim, hubVars, podVars>> /\ PassType'
    /\ \E st \in Statuses, fail \in Failures :
          status' = [status EXCEPT !.st = st, !.fail = fail]

\* A write of status and failure is one of these.
LEMMA PassWrites ==
    ASSUME TypeOK, NEW st \in Statuses, NEW fail \in Failures,
           \/ status' = status
           \/ status' = To(st)
           \/ status' = [To(st) EXCEPT !.fail = fail]
    PROVE  \E s \in Statuses, f \in Failures : status' = [status EXCEPT !.st = s, !.fail = f]
<1>1. status.st \in Statuses /\ status.fail \in Failures
  BY DEF TypeOK
<1>2. \/ status' = [status EXCEPT !.st = status.st, !.fail = status.fail]
      \/ status' = [status EXCEPT !.st = st, !.fail = status.fail]
      \/ status' = [status EXCEPT !.st = st, !.fail = fail]
  BY DEF To, TypeOK
<1> QED BY <1>1, <1>2

\* Every step of the pass is such a move.
LEMMA PassFacts ==
    ASSUME TypeOK, PassType, RecStep
    PROVE  PassMoves
<1> USE DEF hubVars, podVars
<1>1. /\ status.st \in Statuses /\ status.fail \in Failures
      /\ rec.st \in Statuses /\ rec.fail \in Failures \cup {"kept"}
  BY DEF TypeOK, PassType, PassStates
<1>2. RecNowhere \in PassStates
  BY DEF RecNowhere, PassStates, Statuses, Failures
<1>3. CASE RecDiscover \/ RecLook \/ RecGivesUp \/ RecOpensPR \/ RecLeaves \/ RecFindsNobody
  <2>1. UNCHANGED vars
    BY <1>3 DEF RecDiscover, RecLook, RecGivesUp, RecOpensPR, RecLeaves, RecFindsNobody
  <2>2. \A st \in Statuses, fail \in Failures \cup {"kept"} : RecDecides(st, fail) => PassType'
    BY DEF RecDecides, PassType, PassStates
  <2>3. PassType'
    <3>1. CASE RecDiscover
      BY <1>1, <3>1 DEF RecDiscover, PassType, PassStates, Failures
    <3>2. CASE RecLook
      <4>1. CASE RecProjects
        BY <1>2, <2>2, <4>1 DEF RecProjects, RecIdle, PassType, Statuses, Failures
      <4>2. CASE RecIdle
        BY <1>2, <4>2 DEF RecIdle, PassType
      <4>3. CASE rec' = [rec EXCEPT !.pc = "absent",
                            !.fail = IF rec.st = "needs-triage" THEN status.fail ELSE "none"]
        BY <1>1, <4>3 DEF PassType, PassStates, Failures
      <4> QED BY <3>2, <4>1, <4>2, <4>3 DEF RecLook
    <3>3. CASE RecGivesUp \/ RecLeaves
      BY <1>2, <3>3 DEF RecGivesUp, RecLeaves, RecIdle, PassType
    <3>4. CASE RecOpensPR
      BY <1>1, <3>4 DEF RecOpensPR, PassType, PassStates, Statuses
    <3>5. CASE RecFindsNobody
      BY <2>2, <3>5 DEF RecFindsNobody, Statuses, Failures
    <3> QED BY <1>3, <3>1, <3>2, <3>3, <3>4, <3>5
  <2> QED BY <1>1, <2>1, <2>3, PassWrites DEF PassMoves, vars
<1>4. CASE RecRejects \/ RecWrites
  <2>1. UNCHANGED <<claim, hubVars, podVars>> /\ rec' = RecNowhere
    BY <1>4 DEF RecRejects, RecWrites, RecIdle
  <2>2. PassType'
    BY <1>2, <2>1 DEF PassType
  <2>3. \E st \in Statuses, fail \in Failures :
           \/ status' = To(st)
           \/ status' = [To(st) EXCEPT !.fail = fail]
    <3>1. CASE RecRejects
      BY <3>1 DEF RecRejects, Statuses, Failures
    <3>2. CASE RecWrites /\ rec.fail = "kept"
      BY <1>1, <3>2 DEF RecWrites, To, TypeOK
    <3>3. CASE RecWrites /\ rec.fail # "kept"
      BY <1>1, <3>3 DEF RecWrites, To, TypeOK
    <3> QED BY <1>4, <3>1, <3>2, <3>3
  <2> QED BY <2>1, <2>2, <2>3, PassWrites DEF PassMoves
<1> QED BY <1>3, <1>4 DEF RecStep

\* What the pods rely on is none of what the pass writes.
LEMMA PassKeeps ==
    ASSUME TypeOK, RecordInv, GrantInv, PassMoves
    PROVE  TypeOK' /\ RecordInv' /\ GrantInv'
<1> USE DEF hubVars, podVars
<1>1. UNCHANGED <<claim, hubVars, podVars>>
  BY DEF PassMoves
<1>2. TypeOK' /\ status'.att = status.att
  BY DEF PassMoves, TypeOK
<1>3. RecordInv'
  BY <1>1, <1>2 DEF RecordInv, SingleActive, WorkIsClaimed, StampIsHeld, CreatedIsThere,
     HolderIsRecorded
<1>4. GrantInv'
  BY <1>1 DEF GrantInv, GrantAndResultAgree
<1> QED BY <1>2, <1>3, <1>4

\* The invariant of pods and pass together.
Composed == TypeOK /\ PassType /\ RecordInv /\ GrantInv

\* Pods and pass keep it, each their own part.
LEMMA ComposedStep ==
    ASSUME Composed, [RecNext]_allVars
    PROVE  Composed'
<1>1. CASE RecStep
  BY <1>1, PassFacts, PassKeeps DEF Composed, PassMoves
<1>2. CASE [Next]_vars /\ UNCHANGED rec
  BY <1>2, TypeStep, RecordInvStep, GrantInvStep DEF Composed, PassType
<1> QED BY <1>1, <1>2 DEF RecNext, allVars

\* It holds always.
LEMMA ComposedInvariant == RecSpec => []Composed
<1>1. RecInit => Composed
  <2>1. RecNowhere \in PassStates
    BY DEF RecNowhere, PassStates, Statuses, Failures
  <2> QED BY <2>1, TypeInit, RecordInit, GrantInit DEF RecInit, Composed, PassType
<1> QED BY <1>1, ComposedStep, PTL DEF RecSpec

\* What the pods promise they keep beside the pass: work is claimed, the live
\* holder is recorded, and no request comes before its grant is spent, however
\* old the listing is that the pass acts on (reconcile_one, update_status_file).
THEOREM BesideThePass ==
    RecSpec => [](TypeOK /\ WorkIsClaimed /\ HolderIsRecorded /\ GrantAndResultAgree)
<1>1. Composed => TypeOK /\ WorkIsClaimed /\ HolderIsRecorded /\ GrantAndResultAgree
  BY DEF Composed, RecordInv, GrantInv
<1> QED BY <1>1, ComposedInvariant, PTL

\* Nor does an ending attempt rewrite the status of another one, whatever the pass
\* wrote in between (_status_is_still_ours).
THEOREM EndingWritesOwnBesideThePass == RecSpec => EndingWritesAreOwn
<1>1. ASSUME Composed, [RecNext]_allVars, NEW p \in Attempts,
             pc[p] \in Endings, pc'[p] # pc[p], status' # status
      PROVE  status.att = p
  <2>1. CASE RecStep
    BY <1>1, <2>1, PassFacts DEF Composed, PassMoves, podVars
  <2>2. CASE [Next]_vars
    BY <1>1, <2>2, EndingStep DEF Composed
  <2> QED BY <1>1, <2>1, <2>2 DEF RecNext, allVars
<1>2. Composed /\ [RecNext]_allVars =>
        [\A p \in Attempts :
            pc[p] \in Endings /\ pc'[p] # pc[p] /\ status' # status => status.att = p]_vars
  BY <1>1
<1> QED BY <1>2, ComposedInvariant, PTL DEF RecSpec, EndingWritesAreOwn, Endings

\* And the result stays fenced: the pass touches neither claim nor branch.
THEOREM ResultFencedBesideThePass ==
    ASSUME Enforced
    PROVE  RecSpec => ResultIsFenced
<1>1. Composed => TypeOK /\ SingleActive /\ WorkIsClaimed
  BY DEF Composed, RecordInv
<1>2. ASSUME Composed, Composed', [RecNext]_allVars
      PROVE  [Fenced!Next]_(Fenced!vars)
  <2>1. CASE RecStep
    <3>1. UNCHANGED <<claim, hubVars, podVars>>
      BY <1>2, <2>1, PassFacts DEF Composed, PassMoves
    <3> QED BY <3>1 DEF Fenced!vars, Holder, Active, Cleared, hubVars, podVars
  <2>2. CASE [Next]_vars
    BY <1>1, <1>2, <2>2, FencedStep DEF Composed, RecordInv
  <2> QED BY <1>2, <2>1, <2>2 DEF RecNext, allVars
<1>3. RecInit => Fenced!Init
  BY FencedInit DEF RecInit
<1> QED BY <1>2, <1>3, ComposedInvariant, PTL DEF RecSpec, ResultIsFenced, Fenced!Spec

\* Of an attempt with a live claim the service says so, or nothing.
LEMMA LiveAnswers ==
    ASSUME RecordsWrites, NEW p \in Attempts, claim[p] = "active", NEW r \in Ask("check", p)
    PROVE  ClientVerdict("check", r.answer) \in {"held-by-me", "unknown"}
<1>1. r.answer \in Bare \cup {Mine("active")}
  BY AskedReplies DEF CheckReplies, Silent, Reply
<1>2. ASSUME NEW a \in Bare
      PROVE  ClaimVerdict("check", a) = "unknown"
  BY DEF Bare, Answer, ClaimVerdict
<1>3. ClaimVerdict("check", Mine("active")) = "held-by-me"
  BY DEF Mine, Answer, ClaimVerdict, ClaimVerdictFor, FreeStates
<1> QED BY <1>1, <1>2, <1>3 DEF ClientVerdict

\* At enforce the pass never takes a proposal that it saw in-progress for abandoned
\* while the attempt its status names holds a live claim, also when the service does
\* not answer (_attempt_is_fresh).
THEOREM LiveAttemptAlwaysKept == RecSpec => LiveAttemptIsKept
<1>1. ASSUME Composed, [RecNext]_allVars, Enforced,
             rec.st = "in-progress", rec.pc = "absent", rec'.pc = "write"
      PROVE  status.att \notin Active
  <2> SUFFICES ASSUME status.att \in Active PROVE FALSE
    OBVIOUS
  <2>1. RecFindsNobody
    BY <1>1 DEF RecNext, allVars, RecStep, RecDiscover, RecLook, RecGivesUp, RecRejects,
       RecOpensPR, RecLeaves, RecWrites, RecProjects, RecDecides, RecIdle, RecNowhere
  <2>2. PICK v \in FreshnessVerdicts : ~AttemptIsFresh(v)
    BY <1>1, <2>1 DEF RecFindsNobody
  <2>3. status.att \in Attempts /\ status.att # NoOne /\ claim[status.att] = "active"
    BY NoOneAssumption DEF Active
  <2>4. RecordsWrites /\ NewAnswerMayVeto /\ BlocksOnUnknown
    BY <1>1, ModeAssumption DEF Enforced, RecordsWrites, NewAnswerMayVeto, BlocksOnUnknown,
       AtLeast, Stage
  <2>5. v \in {"held-by-me", "unknown"}
    BY <2>2, <2>3, <2>4, LiveAnswers DEF FreshnessVerdicts
  <2> QED BY <2>2, <2>3, <2>4, <2>5 DEF AttemptIsFresh
<1>2. Composed /\ [RecNext]_allVars =>
        [Enforced /\ rec.st = "in-progress" /\ rec.pc = "absent" /\ rec'.pc = "write"
         => status.att \notin Active]_allVars
  BY <1>1
<1> QED BY <1>2, ComposedInvariant, PTL DEF RecSpec, LiveAttemptIsKept

-------------------------------------------------------------------------------
(* The sweep: types.                                                       *)

\* How a submission ends, and what the visibility store keeps of a failure.
Outcomes == {"success", "pre_start", "finalization", "execution", "error"}
Kinds == {"pre_start", "other"}

\* What a tick is.
Ticks == [at : {"idle", "scan", "count", "start"}, ids : SUBSET Proposals,
          left : SUBSET Proposals, spent : SUBSET Proposals, sent : 0..MaxSubmits,
          owned : SUBSET Proposals]

\* The sizes one by one.
LEMMA Sizes ==
    /\ MaxSubmits \in Nat \ {0} /\ MaxPrestart \in Nat \ {0} /\ Window \in Nat \ {0}
    /\ MaxTries \in Nat \ {0} /\ MaxRequeues \in Nat /\ MaxLoops \in Nat /\ MaxTroubles \in Nat
BY SizesAreNumbers

\* One activity changes, and the others do not.
LEMMA ActSet ==
    ASSUME act \in [Proposals -> [Submitters -> Acts]],
           NEW s \in Proposals, NEW x \in Submitters, NEW a \in Acts,
           act' = [act EXCEPT ![s][x] = a]
    PROVE  /\ act' \in [Proposals -> [Submitters -> Acts]]
           /\ act'[s][x] = a
           /\ \A p \in Proposals, y \in Submitters :
                 p # s \/ y # x => act'[p][y] = act[p][y]
<1>1. act[s] \in [Submitters -> Acts] /\ act'[s] = [act[s] EXCEPT ![x] = a]
  OBVIOUS
<1>2. act'[s] \in [Submitters -> Acts] /\ act'[s][x] = a
  BY <1>1
<1>3. \A p \in Proposals \ {s} : act'[p] = act[p]
  OBVIOUS
<1> QED BY <1>1, <1>2, <1>3

\* Nor does a run that changes touch the others.
LEMMA RunSet ==
    ASSUME NEW f \in [Proposals -> [Places -> Runs]],
           NEW s \in Proposals, NEW x \in Places, NEW r \in Runs
    PROVE  LET g == [f EXCEPT ![s][x] = r]
           IN  /\ g \in [Proposals -> [Places -> Runs]]
               /\ g[s][x] = r
               /\ \A p \in Proposals, y \in Places : p # s \/ y # x => g[p][y] = f[p][y]
<1> DEFINE g == [f EXCEPT ![s][x] = r]
<1>1. f[s] \in [Places -> Runs] /\ g[s] = [f[s] EXCEPT ![x] = r]
  OBVIOUS
<1>2. g[s] \in [Places -> Runs] /\ g[s][x] = r /\ \A y \in Places \ {x} : g[s][y] = f[s][y]
  BY <1>1
<1>3. g \in [Proposals -> [Places -> Runs]] /\ \A p \in Proposals \ {s} : g[p] = f[p]
  BY <1>1, <1>2
<1> HIDE DEF g
<1>4. QED BY <1>2, <1>3 DEF g

\* The failed executions of a child with one more, as far back as the window goes.
Later(f, o) == SubSeq(<<o>> \o f, 1, IF Len(f) < Window THEN Len(f) + 1 ELSE Window)

\* They stay within it.
LEMMA FailedType ==
    ASSUME NEW f \in Seq(Kinds), NEW o \in Kinds, Len(f) <= Window
    PROVE  Later(f, o) \in Seq(Kinds) /\ Len(Later(f, o)) <= Window
<1> DEFINE n == IF Len(f) < Window THEN Len(f) + 1 ELSE Window
           h == <<o>> \o f
<1>1. h \in Seq(Kinds) /\ Len(h) = Len(f) + 1
  BY DEF Kinds
<1>2. n \in Nat /\ n <= Len(h) /\ n <= Window /\ n >= 1
  BY <1>1, SizesAreNumbers
<1>3. \A i \in 1..n : h[i] \in Kinds
  BY <1>1, <1>2
<1>4. SubSeq(h, 1, n) \in Seq(Kinds) /\ Len(SubSeq(h, 1, n)) = n
  BY <1>1, <1>2, <1>3
<1> QED BY <1>2, <1>4 DEF Later

\* Those of them that were lost before they started.
Lost(f) == {i \in DOMAIN f : f[i] = "pre_start"}

\* There are finitely many.
LEMMA LostCount ==
    ASSUME NEW f \in Seq(Kinds)
    PROVE  IsFiniteSet(Lost(f)) /\ Cardinality(Lost(f)) \in Nat
<1>1. IsFiniteSet(1..Len(f)) /\ Lost(f) \in SUBSET (1..Len(f))
  BY FS_Interval DEF Lost
<1> QED BY <1>1, FS_Subset, FS_CardinalityType

\* One more execution is one more loss at most.
LEMMA OneMoreLoss ==
    ASSUME NEW f \in Seq(Kinds), NEW o \in Kinds, Len(f) <= Window
    PROVE  Cardinality(Lost(Later(f, o))) <= Cardinality(Lost(f)) + 1
<1> DEFINE g == Later(f, o)
<1>1. g \in Seq(Kinds) /\ Len(g) <= Len(f) + 1 /\ \A i \in 2..Len(g) : g[i] = f[i - 1]
  <2> DEFINE n == IF Len(f) < Window THEN Len(f) + 1 ELSE Window
             h == <<o>> \o f
  <2>1. h \in Seq(Kinds) /\ Len(h) = Len(f) + 1 /\ \A i \in 2..Len(h) : h[i] = f[i - 1]
    BY DEF Kinds
  <2>2. n \in Nat /\ n <= Len(h) /\ n >= 1
    BY <2>1, Sizes
  <2>3. Len(g) = n /\ \A i \in 1..n : g[i] = h[i]
    BY <2>1, <2>2 DEF Later
  <2>4. g \in Seq(Kinds)
    BY FailedType
  <2> HIDE DEF g, h, n
  <2> QED BY <2>1, <2>2, <2>3, <2>4
<1> HIDE DEF g
<1> DEFINE rest == Lost(g) \ {1}
           back == [i \in rest |-> i - 1]
<1>2. \A i \in rest : i \in 2..Len(g) /\ g[i] = "pre_start"
  BY <1>1 DEF Lost
<1>3. back \in Injection(rest, Lost(f))
  <2>1. \A i \in rest : i - 1 \in Lost(f)
    BY <1>1, <1>2 DEF Lost
  <2>2. \A i, j \in rest : i - 1 = j - 1 => i = j
    BY <1>2
  <2> QED BY <2>1, <2>2 DEF Injection, IsInjective
<1>4. IsFiniteSet(Lost(f)) /\ Cardinality(Lost(f)) \in Nat
      /\ IsFiniteSet(Lost(g)) /\ Cardinality(Lost(g)) \in Nat
  BY <1>1, LostCount
<1>5. Cardinality(rest) <= Cardinality(Lost(f))
  BY <1>3, <1>4, FS_Injection
<1>6. Cardinality(rest) = IF 1 \in Lost(g) THEN Cardinality(Lost(g)) - 1 ELSE Cardinality(Lost(g))
  BY <1>4, FS_RemoveElement
<1> QED BY <1>4, <1>5, <1>6 DEF g

\* What the end of a submission does to the ones that wait for it.
EndsWell(s, x) ==
    /\ failed' \in [Proposals -> Seq(Kinds)] /\ \A p \in Proposals : Len(failed'[p]) <= Window
    /\ loop' \in [Proposals -> Loops]
    /\ \A p \in Proposals \ {s} : loop'[p] = loop[p]
    /\ \A p \in Proposals \ {s} : failed'[p] = failed[p]
    /\ failed'[s] = failed[s] \/ \E o \in Kinds : failed'[s] = Later(failed[s], o)
    /\ x = "sweep" => loop' = loop /\ act'[s][x].at = "off"
    /\ x = "loop" => /\ failed' = failed
                     /\ loop[s].at = "implement"
                     /\ \/ loop'[s].at # "off" /\ loop'[s].listed = loop[s].listed
                        \/ loop'[s].at = "off" /\ s \notin tick'.owned
                     /\ loop'[s].at = "implement" <=> act'[s][x].at # "off"
    /\ act'[s][x].at \in {"off", "post"} /\ act'[s][x] \in Acts
    /\ act' = [act EXCEPT ![s][x] = act'[s][x]]
    /\ tick' \in {tick, [tick EXCEPT !.owned = @ \ {s}]}

\* They end as they should.
LEMMA EndsFacts ==
    ASSUME SweepTypeOK, NEW s \in Proposals, NEW x \in Submitters, NEW o \in Outcomes,
           SubmitterEnds(s, x, o), act[s][x].at # "off"
    PROVE  EndsWell(s, x)
<1>t. /\ act \in [Proposals -> [Submitters -> Acts]] /\ loop \in [Proposals -> Loops]
      /\ failed \in [Proposals -> Seq(Kinds)] /\ \A p \in Proposals : Len(failed[p]) <= Window
      /\ tick \in Ticks
  BY DEF SweepTypeOK, Kinds, Ticks
<1>0. NoAct \in Acts /\ NoAct.at = "off" /\ [NoAct EXCEPT !.at = "post"] \in Acts
  BY Sizes DEF NoAct, Acts
<1>1. CASE x = "sweep"
  <2>1. ChildEnds(s, o)
    BY <1>1 DEF SubmitterEnds
  <2>2. /\ failed' \in [Proposals -> Seq(Kinds)] /\ \A p \in Proposals : Len(failed'[p]) <= Window
        /\ \A p \in Proposals \ {s} : failed'[p] = failed[p]
        /\ failed'[s] = failed[s] \/ \E k \in Kinds : failed'[s] = Later(failed[s], k)
    <3> DEFINE k == IF o = "pre_start" THEN "pre_start" ELSE "other"
    <3>1. CASE o = "success"
      BY <1>t, <2>1, <3>1 DEF ChildEnds
    <3>2. CASE o # "success"
      <4>1. failed' = [failed EXCEPT ![s] = Later(failed[s], k)]
        BY <2>1, <3>2 DEF ChildEnds, Later
      <4>2. failed[s] \in Seq(Kinds) /\ Len(failed[s]) <= Window /\ k \in Kinds
        BY <1>t DEF Kinds
      <4> HIDE DEF k
      <4>3. failed'[s] = Later(failed[s], k) /\ \A p \in Proposals \ {s} : failed'[p] = failed[p]
        BY <1>t, <4>1
      <4>4. Later(failed[s], k) \in Seq(Kinds) /\ Len(Later(failed[s], k)) <= Window
        BY <4>2, FailedType
      <4>5. failed' \in [Proposals -> Seq(Kinds)]
        BY <1>t, <4>1, <4>4
      <4>6. \A p \in Proposals : Len(failed'[p]) <= Window
        BY <1>t, <4>3, <4>4
      <4> QED BY <4>2, <4>3, <4>5, <4>6
    <3> QED BY <3>1, <3>2
  <2>3. act' = [act EXCEPT ![s][x] = NoAct] /\ UNCHANGED <<loop, tick>>
    BY <1>1, <2>1 DEF ChildEnds
  <2>4. act'[s][x] = NoAct
    BY <1>t, <1>0, <2>3, ActSet
  <2> QED BY <1>t, <1>0, <1>1, <2>2, <2>3, <2>4 DEF EndsWell
<1>2. CASE x = "loop"
  <2>1. LoopRunEnds(s, o) /\ UNCHANGED failed
    BY <1>2 DEF SubmitterEnds, LoopRunEnds
  <2>2. loop[s] \in Loops /\ loop[s].at = "implement"
    BY <1>2 DEF SweepTypeOK
  <2>3. PICK a \in {NoAct, [NoAct EXCEPT !.at = "post"]} : act' = [act EXCEPT ![s][x] = a]
    BY <1>2, <2>1 DEF LoopRunEnds
  <2>4. act'[s][x] = a /\ a \in Acts /\ a.at \in {"off", "post"}
    BY <1>t, <1>0, <2>3, ActSet DEF NoAct
  <2>5. PICK l \in Loops :
           /\ loop' = [loop EXCEPT ![s] = l] /\ (l.at = "implement" <=> a.at # "off")
           /\ \/ l.at # "off" /\ l.listed = loop[s].listed
              \/ l.at = "off" /\ s \notin tick'.owned
    <3>1. CASE loop' = [loop EXCEPT ![s].requeues = @ + 1]
               /\ loop[s].requeues < MaxRequeues
               /\ act' = [act EXCEPT ![s]["loop"] = [NoAct EXCEPT !.at = "post"]]
      <4>1. a.at = "post"
        BY <1>t, <1>0, <1>2, <2>4, <3>1, ActSet DEF NoAct
      <4> DEFINE l == [loop[s] EXCEPT !.requeues = @ + 1]
      <4>2. l \in Loops /\ l.at = "implement" /\ l.listed = loop[s].listed
        BY <2>2, <3>1, Sizes DEF Loops
      <4> QED BY <3>1, <4>1, <4>2
    <3>2. CASE loop' = [loop EXCEPT ![s].at = "watch"]
               /\ act' = [act EXCEPT ![s]["loop"] = NoAct]
      <4>1. a.at = "off"
        BY <1>t, <1>0, <1>2, <2>4, <3>2, ActSet DEF NoAct
      <4> DEFINE l == [loop[s] EXCEPT !.at = "watch"]
      <4>2. l \in Loops /\ l.at = "watch" /\ l.listed = loop[s].listed
        BY <2>2 DEF Loops
      <4> QED BY <3>2, <4>1, <4>2
    <3>3. CASE LoopOff(s) /\ act' = [act EXCEPT ![s]["loop"] = NoAct]
      <4>1. a.at = "off"
        BY <1>t, <1>0, <1>2, <2>4, <3>3, ActSet DEF NoAct
      <4> DEFINE l == [loop[s] EXCEPT !.at = "off", !.listed = FALSE, !.requeues = 0]
      <4>2. 0 \in 0..MaxRequeues
        BY Sizes
      <4>3. l \in Loops /\ l.at = "off"
        BY <2>2, <4>2 DEF Loops
      <4>4. s \notin tick'.owned
        BY <1>t, <3>3 DEF LoopOff, Ticks
      <4> QED BY <3>3, <4>1, <4>3, <4>4 DEF LoopOff
    <3> QED BY <2>1, <3>1, <3>2, <3>3 DEF LoopRunEnds
  <2>6. tick' \in {tick, [tick EXCEPT !.owned = @ \ {s}]}
    BY <2>1 DEF LoopRunEnds, LoopOff
  <2>7. /\ loop' \in [Proposals -> Loops] /\ loop'[s] = l
        /\ \A p \in Proposals \ {s} : loop'[p] = loop[p]
    BY <1>t, <2>5
  <2>8. \/ loop'[s].at # "off" /\ loop'[s].listed = loop[s].listed
        \/ loop'[s].at = "off" /\ s \notin tick'.owned
    BY <2>5, <2>7
  <2>9. /\ act' = [act EXCEPT ![s][x] = act'[s][x]] /\ act'[s][x] \in Acts
        /\ act'[s][x].at \in {"off", "post"}
        /\ loop'[s].at = "implement" <=> act'[s][x].at # "off"
    BY <2>3, <2>4, <2>5, <2>7
  <2> QED BY <1>t, <1>2, <2>1, <2>2, <2>6, <2>7, <2>8, <2>9 DEF EndsWell
<1> QED BY <1>1, <1>2 DEF Submitters

\* The steps of one submission.
Submission(s, x) ==
    \/ Activity(s, x) \/ Polls(s, x) \/ PostFails(s, x) \/ NameLost(s, x)
    \/ NameUnreadable(s, x) \/ PollsFail(s, x)

\* A submission starts again with what it may know.
LEMMA RetryType ==
    ASSUME SweepTypeOK, NEW s \in Proposals, NEW x \in Submitters, NEW at \in {"post", "poll"},
           Retries(s, x), RetryAt(s, x, at)
    PROVE  \E a \in Acts : act' = [act EXCEPT ![s][x] = a] /\ a.at = at
<1>1. act[s][x] \in Acts
  BY DEF SweepTypeOK
<1> DEFINE a == [at |-> at, tries |-> act[s][x].tries + 1,
                 ran |-> IF act[s][x].ran = "yes" /\ at = "poll" THEN "yes" ELSE "unknown"]
<1>2. a \in Acts
  BY <1>1, Sizes DEF Retries, Acts
<1> QED BY <1>2 DEF RetryAt

\* What a step of a submission does: its run and its activity stay in pairs, and
\* a stray run may be left behind.
SubmissionMoves(s, x) ==
    /\ UNCHANGED file /\ troubles' \in 0..MaxTroubles
    /\ run' \in [Proposals -> [Places -> Runs]]
    /\ \A p \in Proposals, y \in Submitters : p # s \/ y # x => run'[p][y] = run[p][y]
    /\ \E a \in Acts : act' = [act EXCEPT ![s][x] = a] /\ (a.at = "poll" <=> run'[s][x] # "none")
    /\ \/ UNCHANGED <<failed, loop, tick>> /\ act'[s][x].at # "off" /\ act[s][x].at # "off"
       \/ EndsWell(s, x) /\ act[s][x].at # "off"

\* Every step of a submission is such a move.
LEMMA SubmissionFacts ==
    ASSUME SweepTypeOK, NEW s \in Proposals, NEW x \in Submitters, Submission(s, x)
    PROVE  SubmissionMoves(s, x)
<1>t. /\ act \in [Proposals -> [Submitters -> Acts]] /\ act[s][x] \in Acts
      /\ run \in [Proposals -> [Places -> Runs]] /\ x \in Places /\ x # "stray"
      /\ Submitters \subseteq Places /\ "stray" \in Places /\ "stray" \notin Submitters
      /\ run[s][x] \in Runs /\ run[s]["stray"] \in Runs
      /\ act[s][x].at = "poll" <=> run[s][x] # "none"
      /\ troubles \in 0..MaxTroubles
  BY DEF SweepTypeOK, Places, Submitters
<1>n. "none" \in Runs /\ "waiting" \in Runs
  BY DEF Runs, Unfinished
<1>d. Trouble => troubles' \in 0..MaxTroubles
  BY <1>t, Sizes DEF Trouble
<1>1. CASE Posts(s, x)
  <2> DEFINE a == [act[s][x] EXCEPT !.at = "poll"]
  <2>1. a \in Acts /\ a.at = "poll" /\ act' = [act EXCEPT ![s][x] = a]
    BY <1>t, <1>1 DEF Posts, Acts
  <2>2. act'[s][x] = a
    BY <1>t, <2>1, ActSet
  <2>3. /\ run' \in [Proposals -> [Places -> Runs]] /\ run'[s][x] = "waiting"
        /\ \A p \in Proposals, y \in Submitters : p # s \/ y # x => run'[p][y] = run[p][y]
    <3>1. run' = [run EXCEPT ![s][x] = "waiting"]
      BY <1>1 DEF Posts
    <3> QED BY <1>t, <1>n, <3>1, RunSet
  <2> HIDE DEF a
  <2>4. UNCHANGED <<file, failed, loop, tick, troubles>> /\ act[s][x].at # "off"
    BY <1>1 DEF Posts
  <2> QED BY <1>t, <2>1, <2>2, <2>3, <2>4 DEF SubmissionMoves
<1>2. CASE Polls(s, x)
  <2> DEFINE a == [act[s][x] EXCEPT !.ran = Merged(@, Seen(run[s][x]))]
  <2>1. a \in Acts /\ a.at = "poll" /\ act' = [act EXCEPT ![s][x] = a]
    BY <1>t, <1>2 DEF Polls, Acts, Merged, Seen
  <2>2. act'[s][x] = a
    BY <1>t, <2>1, ActSet
  <2> HIDE DEF a
  <2>3. UNCHANGED <<file, run, failed, loop, tick, troubles>> /\ act[s][x].at = "poll"
    BY <1>2 DEF Polls
  <2> QED BY <1>t, <2>1, <2>2, <2>3 DEF SubmissionMoves
<1>3. CASE PostFails(s, x) \/ NameLost(s, x) \/ NameUnreadable(s, x)
  <2>1. act[s][x].at = "post" /\ run[s][x] = "none" /\ UNCHANGED file /\ Trouble
    BY <1>t, <1>3 DEF PostFails, NameLost, NameUnreadable
  <2>2. /\ run' \in [Proposals -> [Places -> Runs]] /\ run'[s][x] = "none"
        /\ \A p \in Proposals, y \in Submitters : p # s \/ y # x => run'[p][y] = run[p][y]
    <3>1. CASE UNCHANGED run
      BY <1>t, <2>1, <3>1
    <3>2. CASE run' = [run EXCEPT ![s]["stray"] = "waiting"]
      BY <1>t, <1>n, <2>1, <3>2, RunSet
    <3> QED BY <1>3, <3>1, <3>2 DEF PostFails, NameLost, NameUnreadable
  <2>3. CASE Retries(s, x) /\ RetryAt(s, x, "post")
    <3>1. PICK a \in Acts : act' = [act EXCEPT ![s][x] = a] /\ a.at = "post"
      BY <2>3, RetryType
    <3>2. act'[s][x] = a
      BY <1>t, <3>1, ActSet
    <3>3. UNCHANGED <<loop, failed, tick>>
      BY <2>3 DEF RetryAt
    <3> QED BY <1>d, <2>1, <2>2, <3>1, <3>2, <3>3 DEF SubmissionMoves
  <2>4. CASE SubmitterEnds(s, x, "error")
    <3>1. EndsWell(s, x)
      BY <2>1, <2>4, EndsFacts DEF Outcomes
    <3>2. \E a \in Acts : act' = [act EXCEPT ![s][x] = a] /\ a.at # "poll"
      BY <3>1 DEF EndsWell
    <3> QED BY <1>d, <2>1, <2>2, <3>1, <3>2 DEF SubmissionMoves
  <2> QED BY <1>3, <2>3, <2>4 DEF PostFails, NameLost, NameUnreadable
<1>4. CASE PollsFail(s, x)
  <2>1. act[s][x].at = "poll" /\ run[s][x] # "none" /\ UNCHANGED file /\ Trouble
    BY <1>t, <1>4 DEF PollsFail
  <2>2. CASE Retries(s, x) /\ RetryAt(s, x, "poll") /\ UNCHANGED run
    <3>1. PICK a \in Acts : act' = [act EXCEPT ![s][x] = a] /\ a.at = "poll"
      BY <2>2, RetryType
    <3>2. act'[s][x] = a
      BY <1>t, <3>1, ActSet
    <3>3. UNCHANGED <<loop, failed, tick>>
      BY <2>2 DEF RetryAt
    <3> QED BY <1>t, <1>d, <2>1, <2>2, <3>1, <3>2, <3>3 DEF SubmissionMoves
  <2>3. CASE SubmitterEnds(s, x, "error")
             /\ run' = [run EXCEPT ![s][x] = "none", ![s]["stray"] = run[s][x]]
    <3>1. EndsWell(s, x)
      BY <2>1, <2>3, EndsFacts DEF Outcomes
    <3>2. \E a \in Acts : act' = [act EXCEPT ![s][x] = a] /\ a.at # "poll"
      BY <3>1 DEF EndsWell
    <3> DEFINE mid == [run EXCEPT ![s][x] = "none"]
    <3>3. /\ mid \in [Proposals -> [Places -> Runs]] /\ mid[s][x] = "none"
          /\ \A p \in Proposals, y \in Places : p # s \/ y # x => mid[p][y] = run[p][y]
      BY <1>t, <1>n, RunSet
    <3>4. run' = [mid EXCEPT ![s]["stray"] = run[s][x]]
      BY <2>3
    <3> HIDE DEF mid
    <3>5. /\ run' \in [Proposals -> [Places -> Runs]] /\ run'[s][x] = "none"
          /\ \A p \in Proposals, y \in Submitters : p # s \/ y # x => run'[p][y] = run[p][y]
      BY <1>t, <3>3, <3>4, RunSet
    <3> QED BY <1>d, <2>1, <3>1, <3>2, <3>5 DEF SubmissionMoves
  <2> QED BY <1>4, <2>2, <2>3 DEF PollsFail
<1>5. CASE Returns(s, x)
  <2>1. act[s][x].at = "poll" /\ UNCHANGED file /\ troubles' \in 0..MaxTroubles
    BY <1>t, <1>d, <1>5 DEF Returns
  <2>2. PICK latest : SubmitterEnds(s, x, Outcome(run[s][x], Merged(act[s][x].ran, latest)))
    BY <1>5 DEF Returns
  <2>3. Outcome(run[s][x], Merged(act[s][x].ran, latest)) \in Outcomes
    BY DEF Outcome, Outcomes
  <2>4. EndsWell(s, x)
    BY <2>1, <2>2, <2>3, EndsFacts
  <2>5. \E a \in Acts : act' = [act EXCEPT ![s][x] = a] /\ a.at # "poll"
    BY <2>4 DEF EndsWell
  <2>6. run' = [run EXCEPT ![s][x] = "none"]
    BY <1>5 DEF Returns
  <2>7. /\ run' \in [Proposals -> [Places -> Runs]] /\ run'[s][x] = "none"
        /\ \A p \in Proposals, y \in Submitters : p # s \/ y # x => run'[p][y] = run[p][y]
    BY <1>t, <1>n, <2>6, RunSet
  <2> QED BY <2>1, <2>4, <2>5, <2>7 DEF SubmissionMoves
<1> QED BY <1>1, <1>2, <1>3, <1>4, <1>5 DEF Submission, Activity

\* So it keeps the types.
LEMMA SubmissionType ==
    ASSUME SweepTypeOK, NEW s \in Proposals, NEW x \in Submitters, Submission(s, x)
    PROVE  SweepTypeOK'
<1>1. SubmissionMoves(s, x)
  BY SubmissionFacts
<1>t. act \in [Proposals -> [Submitters -> Acts]] /\ tick \in Ticks
  BY DEF SweepTypeOK, Ticks
<1>2. PICK a \in Acts : act' = [act EXCEPT ![s][x] = a] /\ (a.at = "poll" <=> run'[s][x] # "none")
  BY <1>1 DEF SubmissionMoves
<1>3. /\ act' \in [Proposals -> [Submitters -> Acts]] /\ act'[s][x] = a
      /\ \A p \in Proposals, y \in Submitters : p # s \/ y # x => act'[p][y] = act[p][y]
  BY <1>t, <1>2, ActSet
<1>4. /\ run' \in [Proposals -> [Places -> Runs]]
      /\ \A p \in Proposals, y \in Submitters : p # s \/ y # x => run'[p][y] = run[p][y]
  BY <1>1 DEF SubmissionMoves
<1>5. \A p \in Proposals, y \in Submitters : act'[p][y].at = "poll" <=> run'[p][y] # "none"
  <2> SUFFICES ASSUME NEW p \in Proposals, NEW y \in Submitters
               PROVE  act'[p][y].at = "poll" <=> run'[p][y] # "none"
    OBVIOUS
  <2>1. CASE p = s /\ y = x
    BY <1>2, <1>3, <2>1
  <2>2. CASE p # s \/ y # x
    <3>1. act[p][y].at = "poll" <=> run[p][y] # "none"
      BY DEF SweepTypeOK
    <3> QED BY <1>3, <1>4, <2>2, <3>1
  <2> QED BY <2>1, <2>2
<1>6. \A p \in Proposals : loop'[p].at = "implement" <=> act'[p]["loop"].at # "off"
  <2> SUFFICES ASSUME NEW p \in Proposals
               PROVE  loop'[p].at = "implement" <=> act'[p]["loop"].at # "off"
    OBVIOUS
  <2>t. (loop[p].at = "implement" <=> act[p]["loop"].at # "off") /\ "loop" \in Submitters
    BY DEF SweepTypeOK, Submitters
  <2>1. CASE p = s /\ x = "loop"
    BY <1>1, <2>1, <2>t DEF SubmissionMoves, EndsWell
  <2>2. CASE p # s \/ x # "loop"
    <3>1. act'[p]["loop"] = act[p]["loop"]
      BY <1>3, <2>2, <2>t
    <3>2. loop'[p] = loop[p]
      BY <1>1, <2>2 DEF SubmissionMoves, EndsWell, Submitters
    <3> QED BY <2>t, <3>1, <3>2
  <2> QED BY <2>1, <2>2
<1>7. tick' \in Ticks
  <2>1. tick' = tick \/ tick' = [tick EXCEPT !.owned = @ \ {s}]
    BY <1>1 DEF SubmissionMoves, EndsWell
  <2> QED BY <1>t, <2>1 DEF Ticks
<1>8. /\ failed' \in [Proposals -> Seq(Kinds)] /\ \A p \in Proposals : Len(failed'[p]) <= Window
      /\ loop' \in [Proposals -> Loops]
  <2>1. CASE EndsWell(s, x)
    BY <2>1 DEF EndsWell
  <2>2. CASE UNCHANGED <<failed, loop>>
    BY <2>2 DEF SweepTypeOK, Kinds
  <2> QED BY <1>1, <2>1, <2>2 DEF SubmissionMoves
<1>9. file' \in [Proposals -> Files] /\ troubles' \in 0..MaxTroubles
  BY <1>1 DEF SubmissionMoves, SweepTypeOK
<1> QED BY <1>3, <1>4, <1>5, <1>6, <1>7, <1>8, <1>9 DEF SweepTypeOK, Kinds, Ticks

\* A write of the status file of one proposal.
LEMMA FileSet ==
    ASSUME file \in [Proposals -> Files], NEW s \in Proposals, NEW f \in Files, Writes(s, f)
    PROVE  /\ file' \in [Proposals -> Files] /\ file'[s] = f
           /\ \A p \in Proposals \ {s} : file'[p] = file[p]
BY DEF Writes

\* What a pod does: of the files it makes none older, of the runs it takes none away.
PodMoves ==
    /\ UNCHANGED <<loop, act, failed, tick>> /\ troubles' \in 0..MaxTroubles
    /\ file' \in [Proposals -> Files]
    /\ \A p \in Proposals : file[p].recent => file'[p].recent
    /\ run' \in [Proposals -> [Places -> Runs]]
    /\ \A p \in Proposals, y \in Submitters : run'[p][y] = "none" <=> run[p][y] = "none"

\* Every step of a pod is such a move.
LEMMA PodFacts ==
    ASSUME SweepTypeOK, NEW s \in Proposals, NEW x \in Places, Pod(s, x)
    PROVE  PodMoves
<1>t. /\ file \in [Proposals -> Files] /\ file[s] \in Files
      /\ run \in [Proposals -> [Places -> Runs]] /\ troubles \in 0..MaxTroubles
  BY DEF SweepTypeOK
<1>d. Trouble => troubles' \in 0..MaxTroubles
  BY <1>t, Sizes DEF Trouble
<1>1. UNCHANGED <<loop, act, failed, tick>>
  BY DEF Pod, PodStarts, LostBeforeStart, Stamps, NothingToDo, Quits, Implements, FallsShort
<1>2. troubles' \in 0..MaxTroubles
  BY <1>t, <1>d DEF Pod, PodStarts, LostBeforeStart, Stamps, NothingToDo, Quits, Implements,
     FallsShort
<1>3. file' \in [Proposals -> Files] /\ \A p \in Proposals : file[p].recent => file'[p].recent
  <2>1. CASE UNCHANGED file
    BY <1>t, <2>1
  <2>2. CASE \E f \in Files : Writes(s, f) /\ f.recent
    BY <1>t, <2>2, FileSet
  <2>3. CASE Stamps(s, x)
    <3>1. [file[s] EXCEPT !.st = "in-progress", !.lease = TRUE, !.recent = TRUE] \in Files
      BY <1>t DEF Files
    <3>2. [file[s] EXCEPT !.st = "in-progress", !.lease = TRUE, !.recent = TRUE].recent
      BY <1>t DEF Files
    <3> QED BY <2>2, <2>3, <3>1, <3>2 DEF Stamps
  <2>4. CASE Quits(s, x)
    <3>1. [file[s] EXCEPT !.held = TRUE, !.recent = TRUE] \in Files
      BY <1>t DEF Files
    <3>2. [file[s] EXCEPT !.held = TRUE, !.recent = TRUE].recent
      BY <1>t DEF Files
    <3> QED BY <2>1, <2>2, <2>4, <3>1, <3>2 DEF Quits
  <2>5. CASE Implements(s, x)
    <3>1. [file[s] EXCEPT !.st = "implemented", !.pr = TRUE, !.recent = TRUE] \in Files
      BY <1>t DEF Files
    <3>2. [file[s] EXCEPT !.st = "implemented", !.pr = TRUE, !.recent = TRUE].recent
      BY <1>t DEF Files
    <3> QED BY <2>2, <2>5, <3>1, <3>2 DEF Implements
  <2>6. CASE FallsShort(s, x)
    <3>1. ASSUME NEW st \in {"accepted", "needs-triage"}
          PROVE  /\ [file[s] EXCEPT !.st = st, !.recent = TRUE] \in Files
                 /\ [file[s] EXCEPT !.st = st, !.recent = TRUE].recent
      BY <1>t DEF Files
    <3> QED BY <2>1, <2>2, <2>6, <3>1 DEF FallsShort
  <2> QED BY <2>1, <2>3, <2>4, <2>5, <2>6 DEF Pod, PodStarts, LostBeforeStart, NothingToDo
<1>4. /\ run' \in [Proposals -> [Places -> Runs]]
      /\ \A p \in Proposals, y \in Submitters : run'[p][y] = "none" <=> run[p][y] = "none"
  <2>1. run[s][x] # "none"
    BY DEF Pod, PodStarts, LostBeforeStart, Stamps, NothingToDo, Quits, Implements, FallsShort
  <2>2. PICK to \in Runs \ {"none"} : RunGoes(s, x, to)
    BY DEF Pod, PodStarts, LostBeforeStart, Stamps, NothingToDo, Quits, Implements, FallsShort,
       Runs, Unfinished, Over
  <2>3. PICK r \in Runs : run' = [run EXCEPT ![s][x] = r] /\ (r = "none" => x = "stray")
    BY <2>2 DEF RunGoes, Runs
  <2>4. /\ run' \in [Proposals -> [Places -> Runs]] /\ run'[s][x] = r
        /\ \A p \in Proposals, y \in Places : p # s \/ y # x => run'[p][y] = run[p][y]
    BY <1>t, <2>3, RunSet
  <2>5. Submitters \subseteq Places /\ "stray" \notin Submitters
    BY DEF Places, Submitters
  <2> QED BY <2>1, <2>3, <2>4, <2>5
<1> QED BY <1>1, <1>2, <1>3, <1>4 DEF PodMoves

\* It keeps the types.
LEMMA PodType ==
    ASSUME SweepTypeOK, PodMoves
    PROVE  SweepTypeOK'
<1>1. \A p \in Proposals, y \in Submitters : act'[p][y].at = "poll" <=> run'[p][y] # "none"
  BY DEF SweepTypeOK, PodMoves
<1> QED BY <1>1 DEF SweepTypeOK, PodMoves

\* A DevLoop changes, and the others do not.
LEMMA LoopSet ==
    ASSUME loop \in [Proposals -> Loops], NEW s \in Proposals, NEW l \in Loops,
           loop' = [loop EXCEPT ![s] = l]
    PROVE  /\ loop' \in [Proposals -> Loops] /\ loop'[s] = l
           /\ \A p \in Proposals \ {s} : loop'[p] = loop[p]
OBVIOUS

\* What happens around the runs: the DevLoop of a proposal, a person, and the clock.
Around(s) ==
    \/ LoopStarts(s) \/ LoopIsListed(s) \/ Flips(s) \/ LoopSubmits(s) \/ LoopEnds(s)
    \/ Approves(s) \/ GraceEnds(s) \/ LeaseEnds(s)

\* It keeps the types.
LEMMA AroundType ==
    ASSUME SweepTypeOK, NEW s \in Proposals, Around(s)
    PROVE  SweepTypeOK'
<1>t. /\ file \in [Proposals -> Files] /\ file[s] \in Files
      /\ loop \in [Proposals -> Loops] /\ loop[s] \in Loops
      /\ act \in [Proposals -> [Submitters -> Acts]] /\ act[s]["loop"] \in Acts
      /\ "loop" \in Submitters /\ tick \in Ticks
      /\ loop[s].at = "implement" <=> act[s]["loop"].at # "off"
  BY DEF SweepTypeOK, Submitters, Ticks
<1>1. UNCHANGED <<run, failed>> /\ troubles' \in 0..MaxTroubles
  <2>1. Trouble => troubles' \in 0..MaxTroubles
    BY Sizes DEF SweepTypeOK, Trouble
  <2> QED BY <2>1 DEF Around, LoopStarts, LoopIsListed, Flips, LoopSubmits, LoopEnds,
             Approves, GraceEnds, LeaseEnds, SweepTypeOK
<1>2. file' \in [Proposals -> Files]
  <2>1. CASE Flips(s)
    <3>1. [file[s] EXCEPT !.st = "accepted", !.auth = TRUE, !.recent = TRUE] \in Files
      BY <1>t DEF Files
    <3> QED BY <1>t, <2>1, <3>1, FileSet DEF Flips
  <2>2. CASE Approves(s)
    <3>1. [file[s] EXCEPT !.st = "accepted", !.auth = TRUE, !.held = FALSE, !.recent = TRUE]
            \in Files
      BY <1>t DEF Files
    <3> QED BY <1>t, <2>2, <3>1, FileSet DEF Approves
  <2>3. CASE GraceEnds(s) \/ LeaseEnds(s)
    <3>1. [file[s] EXCEPT !.recent = FALSE] \in Files /\ [file[s] EXCEPT !.lease = FALSE] \in Files
      BY <1>t DEF Files
    <3> QED BY <1>t, <2>3, <3>1, FileSet DEF GraceEnds, LeaseEnds
  <2> QED BY <1>t, <2>1, <2>2, <2>3 DEF Around, LoopStarts, LoopIsListed, LoopSubmits, LoopEnds
<1>3. /\ loop' \in [Proposals -> Loops] /\ act' \in [Proposals -> [Submitters -> Acts]]
      /\ \A p \in Proposals : loop'[p].at = "implement" <=> act'[p]["loop"].at # "off"
      /\ \A p \in Proposals, y \in Submitters : act'[p][y].at = "poll" <=> act[p][y].at = "poll"
  <2>1. CASE LoopSubmits(s)
    <3> DEFINE a == [act[s]["loop"] EXCEPT !.at = "post"]
    <3>1. a \in Acts /\ a.at = "post" /\ act' = [act EXCEPT ![s]["loop"] = a]
      BY <1>t, <2>1 DEF LoopSubmits, Acts
    <3> HIDE DEF a
    <3>2. /\ act' \in [Proposals -> [Submitters -> Acts]] /\ act'[s]["loop"] = a
          /\ \A p \in Proposals, y \in Submitters :
                p # s \/ y # "loop" => act'[p][y] = act[p][y]
      BY <1>t, <3>1, ActSet
    <3>3. loop' \in [Proposals -> Loops] /\ loop'[s].at = "implement"
          /\ \A p \in Proposals \ {s} : loop'[p] = loop[p]
      BY <1>t, <2>1 DEF LoopSubmits, Loops
    <3>4. act[s]["loop"].at = "off"
      BY <1>t, <2>1 DEF LoopSubmits, Acts
    <3> QED BY <1>t, <3>1, <3>2, <3>3, <3>4 DEF SweepTypeOK
  <2>2. CASE /\ UNCHANGED act
             /\ \E l \in Loops :
                   /\ loop' = [loop EXCEPT ![s] = l]
                   /\ l.at = "implement" <=> loop[s].at = "implement"
    <3>1. PICK l \in Loops :
             /\ loop' = [loop EXCEPT ![s] = l]
             /\ l.at = "implement" <=> loop[s].at = "implement"
      BY <2>2
    <3>2. /\ loop' \in [Proposals -> Loops] /\ loop'[s] = l
          /\ \A p \in Proposals \ {s} : loop'[p] = loop[p]
      BY <1>t, <3>1, LoopSet
    <3>3. \A p \in Proposals : loop[p].at = "implement" <=> act[p]["loop"].at # "off"
      BY DEF SweepTypeOK
    <3> QED BY <1>t, <2>2, <3>1, <3>2, <3>3
  <2>3. CASE LoopStarts(s)
    <3> DEFINE l == [loop[s] EXCEPT !.at = "gate", !.starts = @ + 1]
    <3>1. loop[s].starts + 1 \in 0..MaxLoops
      BY <1>t, <2>3, Sizes DEF LoopStarts, Loops
    <3>2. l \in Loops /\ l.at = "gate" /\ loop' = [loop EXCEPT ![s] = l] /\ loop[s].at = "off"
      BY <1>t, <2>3, <3>1 DEF LoopStarts, Loops
    <3> QED BY <2>2, <2>3, <3>2 DEF LoopStarts
  <2>4. CASE LoopIsListed(s)
    <3> DEFINE l == [loop[s] EXCEPT !.listed = TRUE]
    <3>1. l \in Loops /\ l.at = loop[s].at /\ loop' = [loop EXCEPT ![s] = l]
      BY <1>t, <2>4 DEF LoopIsListed, Loops
    <3> QED BY <2>2, <2>4, <3>1 DEF LoopIsListed
  <2>5. CASE Flips(s)
    <3> DEFINE l == [loop[s] EXCEPT !.at = "flipped"]
    <3>1. l \in Loops /\ l.at = "flipped" /\ loop' = [loop EXCEPT ![s] = l] /\ loop[s].at = "gate"
      BY <1>t, <2>5 DEF Flips, Loops
    <3> QED BY <2>2, <2>5, <3>1 DEF Flips
  <2>6. CASE LoopEnds(s)
    <3> DEFINE l == [loop[s] EXCEPT !.at = "off", !.listed = FALSE, !.requeues = 0]
    <3>1. 0 \in 0..MaxRequeues
      BY Sizes
    <3>2. l \in Loops /\ l.at = "off" /\ loop' = [loop EXCEPT ![s] = l] /\ loop[s].at # "implement"
      BY <1>t, <2>6, <3>1 DEF LoopEnds, LoopOff, Loops
    <3> QED BY <2>2, <2>6, <3>2 DEF LoopEnds
  <2>7. CASE Approves(s) \/ GraceEnds(s) \/ LeaseEnds(s)
    BY <2>7 DEF Approves, GraceEnds, LeaseEnds, SweepTypeOK
  <2> QED BY <2>1, <2>3, <2>4, <2>5, <2>6, <2>7 DEF Around
<1>4. tick' \in Ticks
  <2>1. tick' = tick \/ tick' = [tick EXCEPT !.owned = @ \ {s}]
    BY DEF Around, LoopStarts, LoopIsListed, Flips, LoopSubmits, LoopEnds, LoopOff, Approves,
       GraceEnds, LeaseEnds
  <2> QED BY <1>t, <2>1 DEF Ticks
<1>5. \A p \in Proposals, y \in Submitters : act'[p][y].at = "poll" <=> run'[p][y] # "none"
  BY <1>1, <1>3 DEF SweepTypeOK
<1>6. failed' \in [Proposals -> Seq(Kinds)] /\ \A p \in Proposals : Len(failed'[p]) <= Window
  BY <1>1 DEF SweepTypeOK, Kinds
<1>7. run' \in [Proposals -> [Places -> Runs]]
  BY <1>1 DEF SweepTypeOK
<1> QED BY <1>1, <1>2, <1>3, <1>4, <1>5, <1>6, <1>7 DEF SweepTypeOK, Kinds, Ticks

\* A step of the tick, and what it leaves alone.
TickStep == Tick \/ TickSkipped

\* A tick writes nothing but the child that it starts.
LEMMA TickType ==
    ASSUME SweepTypeOK, TickStep
    PROVE  SweepTypeOK'
<1>t. act \in [Proposals -> [Submitters -> Acts]] /\ tick \in Ticks /\ "sweep" \in Submitters
  BY DEF SweepTypeOK, Ticks, Submitters
<1>i. Idle \in Ticks
  BY Sizes DEF Idle, Ticks
<1>a. ASSUME NEW t \in Ticks, NEW s \in Proposals
      PROVE  AfterThis(t, s) \in Ticks
  BY <1>i DEF AfterThis, Ticks
<1>1. UNCHANGED <<file, loop, run, failed>> /\ troubles' \in 0..MaxTroubles
  <2>1. Trouble => troubles' \in 0..MaxTroubles
    BY Sizes DEF SweepTypeOK, Trouble
  <2> QED BY <2>1 DEF TickStep, Tick, ReadActive, Scan, Count, StartChild, PassOver, TickSkipped,
             SweepTypeOK
<1>2. tick' \in Ticks
  <2>1. CASE ReadActive
    BY <1>t, <2>1 DEF ReadActive, Ticks
  <2>2. CASE Scan
    <3>1. Found(tick.ids) \subseteq Proposals
      BY DEF Found
    <3> QED BY <1>t, <1>i, <2>2, <3>1 DEF Scan, Ticks
  <2>3. CASE Count
    BY <1>t, <2>3 DEF Count, Ticks
  <2>4. CASE StartChild
    <3>1. PICK s \in Proposals : Takes(s) /\ tick' = AfterThis([tick EXCEPT !.sent = @ + 1], s)
      BY <2>4 DEF StartChild
    <3>2. tick.sent + 1 \in 0..MaxSubmits
      BY <1>t, <3>1, Sizes DEF Takes, Ticks
    <3>3. [tick EXCEPT !.sent = @ + 1] \in Ticks
      BY <1>t, <3>2 DEF Ticks
    <3> QED BY <1>a, <3>1, <3>3
  <2>5. CASE PassOver
    BY <1>t, <1>a, <2>5 DEF PassOver
  <2> QED BY <1>i, <2>1, <2>2, <2>3, <2>4, <2>5 DEF TickStep, Tick, TickSkipped
<1>3. /\ act' \in [Proposals -> [Submitters -> Acts]]
      /\ \A p \in Proposals : act'[p]["loop"] = act[p]["loop"]
      /\ \A p \in Proposals, y \in Submitters : act'[p][y].at = "poll" <=> act[p][y].at = "poll"
  <2>1. CASE StartChild
    <3>1. PICK s \in Proposals : Takes(s) /\ act' = [act EXCEPT ![s]["sweep"].at = "post"]
      BY <2>1 DEF StartChild
    <3>0. act[s]["sweep"] \in Acts
      BY <1>t
    <3> DEFINE a == [act[s]["sweep"] EXCEPT !.at = "post"]
    <3>2. a \in Acts /\ a.at = "post" /\ act' = [act EXCEPT ![s]["sweep"] = a]
           /\ act[s]["sweep"].at = "off"
      BY <3>0, <3>1 DEF Takes, Acts
    <3> HIDE DEF a
    <3>3. /\ act' \in [Proposals -> [Submitters -> Acts]] /\ act'[s]["sweep"] = a
          /\ \A p \in Proposals, y \in Submitters :
                p # s \/ y # "sweep" => act'[p][y] = act[p][y]
      BY <1>t, <3>2, ActSet
    <3> QED BY <3>2, <3>3 DEF Submitters
  <2>2. CASE UNCHANGED act
    BY <1>t, <2>2
  <2> QED BY <2>1, <2>2 DEF TickStep, Tick, ReadActive, Scan, Count, PassOver, TickSkipped
<1> QED BY <1>1, <1>2, <1>3 DEF SweepTypeOK, Ticks

\* Of the tick it changes only the ownership that it no longer has to respect.
LEMMA AroundTick ==
    ASSUME tick \in Ticks, NEW s \in Proposals, Around(s)
    PROVE  tick' = tick \/ (LoopOff(s) /\ tick' = [tick EXCEPT !.owned = @ \ {s}])
BY DEF Around, LoopStarts, LoopIsListed, Flips, LoopSubmits, LoopEnds, LoopOff, Approves,
   GraceEnds, LeaseEnds

\* A step of the sweep is one of these.
LEMMA SweepSteps ==
    ASSUME SweepNext
    PROVE  \/ TickStep
           \/ \E s \in Proposals, x \in Submitters : Submission(s, x)
           \/ \E s \in Proposals, x \in Places : Pod(s, x)
           \/ \E s \in Proposals : Around(s)
BY DEF SweepNext, TickStep, Submission, Around

\* They all keep the types.
LEMMA SweepTypeStep ==
    ASSUME SweepTypeOK, [SweepNext]_sweepVars
    PROVE  SweepTypeOK'
<1>1. CASE UNCHANGED sweepVars
  BY <1>1 DEF sweepVars, SweepTypeOK
<1> QED BY <1>1, SweepSteps, TickType, SubmissionType, PodFacts, PodType, AroundType

\* So do the initial states.
LEMMA SweepTypeInit == SweepInit => SweepTypeOK
<1> SUFFICES ASSUME SweepInit PROVE SweepTypeOK
  OBVIOUS
<1>1. file \in [Proposals -> Files]
  <2>1. PICK approved \in SUBSET (Proposals \ LoopSlugs) :
           file = [s \in Proposals |->
                     [st |-> IF s \in LoopSlugs THEN "proposed" ELSE "accepted",
                      pr |-> FALSE, lease |-> FALSE, recent |-> FALSE,
                      held |-> FALSE, auth |-> s \in approved]]
    BY DEF SweepInit
  <2>2. ASSUME NEW s \in Proposals
        PROVE  [st |-> IF s \in LoopSlugs THEN "proposed" ELSE "accepted",
                pr |-> FALSE, lease |-> FALSE, recent |-> FALSE,
                held |-> FALSE, auth |-> s \in approved] \in Files
    BY DEF Files
  <2> QED BY <2>1, <2>2
<1>2. loop \in [Proposals -> Loops] /\ \A s \in Proposals : loop[s].at = "off"
  BY Sizes DEF SweepInit, Loops
<1>3. /\ act \in [Proposals -> [Submitters -> Acts]]
      /\ \A s \in Proposals, x \in Submitters : act[s][x].at = "off"
  BY Sizes DEF SweepInit, Acts
<1>4. /\ run \in [Proposals -> [Places -> Runs]]
      /\ \A s \in Proposals, x \in Places : run[s][x] = "none"
  BY DEF SweepInit, Runs
<1>5. failed \in [Proposals -> Seq(Kinds)] /\ \A s \in Proposals : Len(failed[s]) <= Window
  BY Sizes DEF SweepInit
<1>6. tick \in Ticks /\ troubles \in 0..MaxTroubles
  BY Sizes DEF SweepInit, Idle, Ticks
<1> QED BY <1>1, <1>2, <1>3, <1>4, <1>5, <1>6 DEF SweepTypeOK, Kinds, Ticks, Places, Submitters

\* Proposals, loops, activities and their Argo workflows stay in their domains; an
\* activity polls a run exactly when there is one (submit_and_wait), and a loop that
\* implements has an activity (DevLoopWorkflow._implement), for any proposals and limits.
THEOREM SweepTypeCorrect == SweepSpec => []SweepTypeOK
BY SweepTypeInit, SweepTypeStep, PTL DEF SweepSpec

-------------------------------------------------------------------------------
(* The sweep: the order of the candidates.                                 *)

\* A set of numbers has a smallest one.
LEMMA Smallest ==
    ASSUME NEW T, T \subseteq Nat, T # {}
    PROVE  \E n \in T : \A k \in T : n <= k
<1> DEFINE R == OpToRel(<, Nat)
<1>1. IsWellFoundedOn(R, Nat)
  BY NatLessThanWellFounded
<1>2. \A x, y \in Nat : y < x => <<y, x>> \in R
  BY DEF OpToRel
<1> HIDE DEF R
<1>3. PICK n \in T : \A k \in T : ~ (<<k, n>> \in R)
  BY <1>1, WFMin
<1>4. ASSUME NEW k \in T PROVE n <= k
  <2>1. n \in Nat /\ k \in Nat /\ ~(k < n)
    BY <1>2, <1>3
  <2> QED BY <2>1
<1> QED BY <1>4

\* While there are candidates exactly one of them is next: the loop over the scan is
\* the set of what it has left, in the order of the tree.
LEMMA OneIsNext ==
    ASSUME tick.at = "start", tick.left # {}, tick.left \subseteq Proposals
    PROVE  \E s \in tick.left : IsNext(s) /\ \A p \in Proposals : IsNext(p) => p = s
<1> DEFINE at == {i \in DOMAIN Slugs : Slugs[i] \in tick.left}
<1>1. DOMAIN Slugs \subseteq Nat
  BY SlugsInOrder
<1>2. \A s \in Proposals : \E i \in DOMAIN Slugs : Slugs[i] = s
  BY DEF Proposals, ToSet
<1>3. PICK n \in at : \A k \in at : n <= k
  <2>1. at # {} /\ at \subseteq Nat
    BY <1>1, <1>2
  <2> QED BY <2>1, Smallest
<1>4. \A i \in DOMAIN Slugs : Slugs[i] = Slugs[n] => i = n
  BY <1>3, SlugsInOrder DEF IsInjective
<1>5. IsNext(Slugs[n])
  BY <1>3, <1>4 DEF IsNext
<1>6. ASSUME NEW p \in Proposals, IsNext(p) PROVE p = Slugs[n]
  <2>1. PICK i \in DOMAIN Slugs : Slugs[i] = p
    BY <1>2
  <2>2. i <= n /\ n <= i
    BY <1>3, <1>6, <2>1 DEF IsNext
  <2>3. i \in Nat /\ n \in Nat
    BY <1>1, <1>3
  <2> QED BY <2>1, <2>2, <2>3
<1> QED BY <1>3, <1>5, <1>6

\* A tick that has counted is over as soon as no candidate is left.
LeftInv == tick.at \in {"count", "start"} => tick.left # {}

\* A tick goes on until it has decided every candidate, one after the other in tree
\* order (implement_sweep.py, the loop over scan.stranded): it neither stops short
\* nor has two to choose from.
THEOREM CandidatesInOrder ==
    SweepSpec => [](tick.at = "start" =>
                      \E s \in tick.left :
                         IsNext(s) /\ \A p \in Proposals : IsNext(p) => p = s)
<1>1. SweepInit => LeftInv
  BY DEF SweepInit, LeftInv, Idle
<1>2. ASSUME SweepTypeOK, LeftInv, [SweepNext]_sweepVars
      PROVE  LeftInv'
  <2>t. tick \in Ticks
    BY <1>2 DEF SweepTypeOK, Ticks
  <2>1. ASSUME tick'.at = tick.at, tick'.left = tick.left
        PROVE  LeftInv'
    BY <1>2, <2>1 DEF LeftInv
  <2>2. CASE TickStep
    <3>1. CASE ReadActive
      BY <2>t, <3>1 DEF ReadActive, LeftInv, Ticks
    <3>2. CASE Scan
      <4>1. tick' = Idle \/ (tick'.left = Found(tick.ids) /\ Found(tick.ids) # {})
        BY <2>t, <3>2 DEF Scan, Ticks
      <4> QED BY <4>1 DEF LeftInv, Idle
    <3>3. CASE Count
      BY <1>2, <2>t, <3>3 DEF Count, LeftInv, Ticks
    <3>4. ASSUME NEW t \in Ticks, NEW s \in Proposals, t.left # {}, tick' = AfterThis(t, s)
          PROVE  LeftInv'
      <4>1. CASE t.left = {s}
        BY <3>4, <4>1 DEF AfterThis, Idle, LeftInv
      <4>2. CASE t.left # {s}
        <5>1. tick'.left = t.left \ {s}
          BY <3>4, <4>2 DEF AfterThis, Ticks
        <5> QED BY <3>4, <4>2, <5>1 DEF LeftInv
      <4> QED BY <4>1, <4>2
    <3>5. CASE TickSkipped
      BY <3>5 DEF TickSkipped, LeftInv, Idle
    <3>6. CASE StartChild
      <4>1. PICK s \in Proposals : /\ IsNext(s) /\ Takes(s)
                                  /\ tick' = AfterThis([tick EXCEPT !.sent = @ + 1], s)
        BY <3>6 DEF StartChild
      <4> DEFINE t == [tick EXCEPT !.sent = @ + 1]
      <4>2. tick.sent + 1 \in 0..MaxSubmits
        BY <2>t, <4>1, Sizes DEF Takes, Ticks
      <4>3. t \in Ticks /\ t.left # {}
        BY <2>t, <4>1, <4>2 DEF IsNext, Ticks
      <4> QED BY <3>4, <4>1, <4>3
    <3>7. CASE PassOver
      BY <2>t, <3>4, <3>7 DEF PassOver, IsNext
    <3> QED BY <2>2, <3>1, <3>2, <3>3, <3>5, <3>6, <3>7 DEF TickStep, Tick
  <2>3. CASE UNCHANGED sweepVars
    BY <2>1, <2>3 DEF sweepVars
  <2>4. ASSUME NEW s \in Proposals, NEW x \in Submitters, Submission(s, x)
        PROVE  LeftInv'
    BY <1>2, <2>t, <2>1, <2>4, SubmissionFacts DEF SubmissionMoves, EndsWell, Ticks
  <2>5. ASSUME NEW s \in Proposals, NEW x \in Places, Pod(s, x)
        PROVE  LeftInv'
    BY <1>2, <2>1, <2>5, PodFacts DEF PodMoves
  <2>6. ASSUME NEW s \in Proposals, Around(s)
        PROVE  LeftInv'
    BY <2>t, <2>1, <2>6, AroundTick DEF Ticks
  <2> QED BY <1>2, <2>2, <2>3, <2>4, <2>5, <2>6, SweepSteps
<1>3. SweepTypeOK /\ LeftInv => (tick.at = "start" =>
        \E s \in tick.left : IsNext(s) /\ \A p \in Proposals : IsNext(p) => p = s)
  BY OneIsNext DEF SweepTypeOK, LeftInv
<1> QED BY <1>1, <1>2, <1>3, SweepTypeInit, SweepTypeStep, PTL DEF SweepSpec

-------------------------------------------------------------------------------
(* The sweep: the budget of losses.                                        *)

\* How many losses there are depends on whether a child runs, and on whether the
\* tick is still to start one on what it counted before.
WithinBudget(s) ==
    /\ Losses(s) <= MaxPrestart + 1
    /\ act[s]["sweep"].at # "off" => Losses(s) <= MaxPrestart
    /\ tick.at = "start" /\ s \in tick.left \ tick.spent =>
         \/ Losses(s) < MaxPrestart
         \/ Losses(s) = MaxPrestart /\ act[s]["sweep"].at = "off"

\* It is so for every proposal.
BudgetInv == \A s \in Proposals : WithinBudget(s)

\* Losses are what the lemmas on executions count.
LEMMA LossesAreLost == \A s \in Proposals : Losses(s) = Cardinality(Lost(failed[s]))
BY DEF Losses, Lost

\* While no child starts or ends, and no failure is recorded, a tick that keeps its
\* candidates, or has lost some, keeps the budget.
LEMMA BudgetKept ==
    ASSUME BudgetInv, UNCHANGED failed,
           \A s \in Proposals : act'[s]["sweep"].at = "off" <=> act[s]["sweep"].at = "off",
           tick'.at = "start" => /\ tick.at = "start"
                                 /\ tick'.left \ tick'.spent \subseteq tick.left \ tick.spent
    PROVE  BudgetInv'
<1> SUFFICES ASSUME NEW s \in Proposals PROVE WithinBudget(s)'
  BY DEF BudgetInv
<1>1. WithinBudget(s)
  BY DEF BudgetInv
<1>2. Losses(s)' = Losses(s)
  BY DEF Losses
<1> QED BY <1>1, <1>2 DEF WithinBudget

\* What the tick does to its candidates when it is done with one.
LEMMA AfterThisKeeps ==
    ASSUME NEW t \in Ticks, NEW s \in Proposals, t.at = "start",
           tick' = AfterThis(t, s), tick'.at = "start"
    PROVE  tick'.left \ tick'.spent \subseteq (t.left \ t.spent) \ {s}
<1>1. tick' = [t EXCEPT !.left = @ \ {s}, !.spent = @ \ {s}, !.owned = @ \ {s}]
  BY DEF AfterThis, Idle
<1>2. tick'.left = t.left \ {s} /\ tick'.spent = t.spent \ {s}
  BY <1>1 DEF Ticks
<1> QED BY <1>2

\* A tick starts a child only of a proposal whose budget is left.
LEMMA TickBudget ==
    ASSUME SweepTypeOK, BudgetInv, TickStep
    PROVE  BudgetInv'
<1>t. act \in [Proposals -> [Submitters -> Acts]] /\ tick \in Ticks /\ "sweep" \in Submitters
      /\ failed \in [Proposals -> Seq(Kinds)]
  BY DEF SweepTypeOK, Ticks, Submitters, Kinds
<1>f. UNCHANGED failed
  BY DEF TickStep, Tick, ReadActive, Scan, Count, StartChild, PassOver, TickSkipped
<1>n. \A s \in Proposals : Losses(s) \in Nat /\ Losses(s)' = Losses(s)
  BY <1>t, <1>f, LostCount, LossesAreLost DEF Losses
<1>1. CASE ReadActive \/ Scan \/ TickSkipped
  <2>1. UNCHANGED act /\ tick'.at # "start"
    <3>1. CASE ReadActive
      BY <1>t, <3>1 DEF ReadActive, Ticks
    <3>2. CASE Scan
      <4>1. tick' = Idle \/ tick'.at = "count"
        BY <1>t, <3>2 DEF Scan, Ticks
      <4> QED BY <3>2, <4>1 DEF Scan, Idle
    <3>3. CASE TickSkipped
      BY <3>3 DEF TickSkipped, Idle
    <3> QED BY <1>1, <3>1, <3>2, <3>3
  <2> QED BY <1>f, <2>1, BudgetKept
<1>2. CASE Count
  <2> SUFFICES ASSUME NEW s \in Proposals PROVE WithinBudget(s)'
    BY DEF BudgetInv
  <2>1. UNCHANGED act /\ tick'.left = tick.left
        /\ tick'.spent = {p \in tick.left : Losses(p) >= MaxPrestart}
    BY <1>t, <1>2 DEF Count, Ticks
  <2>2. s \in tick'.left \ tick'.spent => Losses(s) < MaxPrestart
    BY <1>n, <2>1, Sizes
  <2> QED BY <1>n, <2>1, <2>2 DEF BudgetInv, WithinBudget
<1>3. CASE PassOver
  <2>1. PICK s \in Proposals : IsNext(s) /\ tick' = AfterThis(tick, s) /\ UNCHANGED act
    BY <1>3 DEF PassOver
  <2>2. tick.at = "start"
    BY <2>1 DEF IsNext
  <2> QED BY <1>t, <1>f, <2>1, <2>2, AfterThisKeeps, BudgetKept
<1>4. CASE StartChild
  <2>1. PICK s \in Proposals : /\ IsNext(s) /\ Takes(s)
                               /\ act' = [act EXCEPT ![s]["sweep"].at = "post"]
                               /\ tick' = AfterThis([tick EXCEPT !.sent = @ + 1], s)
    BY <1>4 DEF StartChild
  <2>2. tick.at = "start" /\ s \in tick.left \ tick.spent /\ act[s]["sweep"].at = "off"
    BY <2>1 DEF IsNext, Takes
  <2> DEFINE t == [tick EXCEPT !.sent = @ + 1]
  <2>3. t \in Ticks /\ t.at = "start" /\ t.left = tick.left /\ t.spent = tick.spent
    <3>1. tick.sent + 1 \in 0..MaxSubmits
      BY <1>t, <2>1, Sizes DEF Takes, Ticks
    <3> QED BY <1>t, <2>2, <3>1 DEF Ticks
  <2>4. tick'.at = "start" => tick'.left \ tick'.spent \subseteq (tick.left \ tick.spent) \ {s}
    BY <2>1, <2>3, AfterThisKeeps
  <2>5. \A p \in Proposals \ {s} : act'[p] = act[p]
    BY <1>t, <2>1
  <2> SUFFICES ASSUME NEW p \in Proposals PROVE WithinBudget(p)'
    BY DEF BudgetInv
  <2>6. CASE p # s
    BY <1>n, <2>2, <2>4, <2>5, <2>6 DEF BudgetInv, WithinBudget
  <2>7. CASE p = s
    <3>1. Losses(s) <= MaxPrestart
      BY <1>n, <2>2, Sizes DEF BudgetInv, WithinBudget
    <3>2. tick'.at = "start" => s \notin tick'.left \ tick'.spent
      BY <2>4
    <3> QED BY <1>n, <2>7, <3>1, <3>2, Sizes DEF WithinBudget
  <2> QED BY <2>6, <2>7
<1> QED BY <1>1, <1>2, <1>3, <1>4 DEF TickStep, Tick

\* A child that ends adds one loss at most, and no submission starts a child.
LEMMA SubmissionBudget ==
    ASSUME SweepTypeOK, BudgetInv, NEW s \in Proposals, NEW x \in Submitters, Submission(s, x)
    PROVE  BudgetInv'
<1>1. SubmissionMoves(s, x)
  BY SubmissionFacts
<1>t. /\ act \in [Proposals -> [Submitters -> Acts]] /\ tick \in Ticks /\ "sweep" \in Submitters
      /\ failed \in [Proposals -> Seq(Kinds)] /\ \A p \in Proposals : Len(failed[p]) <= Window
  BY DEF SweepTypeOK, Ticks, Submitters, Kinds
<1>2. PICK a \in Acts : act' = [act EXCEPT ![s][x] = a]
  BY <1>1 DEF SubmissionMoves
<1>3. \A p \in Proposals, y \in Submitters : p # s \/ y # x => act'[p][y] = act[p][y]
  BY <1>t, <1>2, ActSet
<1>4. tick'.at = tick.at /\ tick'.left = tick.left /\ tick'.spent = tick.spent
  BY <1>1, <1>t DEF SubmissionMoves, EndsWell, Ticks
<1>5. CASE UNCHANGED failed /\ act'[s][x].at # "off" /\ act[s][x].at # "off"
  <2>1. \A p \in Proposals : act'[p]["sweep"].at = "off" <=> act[p]["sweep"].at = "off"
    BY <1>t, <1>3, <1>5
  <2> QED BY <1>4, <1>5, <2>1, BudgetKept
<1>6. CASE x = "loop" /\ EndsWell(s, x)
  <2>1. \A p \in Proposals : act'[p]["sweep"].at = "off" <=> act[p]["sweep"].at = "off"
    BY <1>t, <1>3, <1>6
  <2>2. UNCHANGED failed
    BY <1>6 DEF EndsWell
  <2> QED BY <1>4, <2>1, <2>2, BudgetKept
<1>7. CASE x = "sweep" /\ EndsWell(s, x) /\ act[s][x].at # "off"
  <2> SUFFICES ASSUME NEW p \in Proposals PROVE WithinBudget(p)'
    BY DEF BudgetInv
  <2>1. CASE p # s
    <3>1. Losses(p)' = Losses(p) /\ act'[p]["sweep"] = act[p]["sweep"]
      <4>1. failed'[p] = failed[p]
        BY <1>7, <2>1 DEF EndsWell
      <4> QED BY <1>t, <1>3, <2>1, <4>1 DEF Losses
    <3> QED BY <1>4, <3>1 DEF BudgetInv, WithinBudget
  <2>2. CASE p = s
    <3>1. Cardinality(Lost(failed'[s])) <= Cardinality(Lost(failed[s])) + 1
      <4>1. Cardinality(Lost(failed[s])) \in Nat
        BY <1>t, LostCount
      <4>2. CASE failed'[s] = failed[s]
        BY <4>1, <4>2
      <4>3. CASE \E o \in Kinds : failed'[s] = Later(failed[s], o)
        BY <1>t, <4>3, OneMoreLoss
      <4> QED BY <1>7, <4>2, <4>3 DEF EndsWell
    <3>2. Losses(s)' <= Losses(s) + 1 /\ Losses(s) \in Nat /\ Losses(s)' \in Nat
      <4>1. Losses(s)' = Cardinality(Lost(failed'[s]))
        BY DEF Losses, Lost
      <4>2. failed' \in [Proposals -> Seq(Kinds)]
        BY <1>7 DEF EndsWell
      <4> QED BY <1>t, <3>1, <4>1, <4>2, LossesAreLost, LostCount
    <3>3. /\ Losses(s) <= MaxPrestart
          /\ tick.at = "start" /\ s \in tick.left \ tick.spent => Losses(s) < MaxPrestart
      BY <1>7 DEF BudgetInv, WithinBudget
    <3>4. act'[s]["sweep"].at = "off"
      BY <1>7 DEF EndsWell
    <3> QED BY <1>4, <2>2, <3>2, <3>3, <3>4, Sizes DEF WithinBudget
  <2> QED BY <2>1, <2>2
<1> QED BY <1>1, <1>5, <1>6, <1>7 DEF SubmissionMoves, Submitters

\* What happens around the runs starts no child and ends none.
LEMMA AroundChildren ==
    ASSUME SweepTypeOK, NEW s \in Proposals, Around(s)
    PROVE  UNCHANGED failed /\ \A p \in Proposals : act'[p]["sweep"] = act[p]["sweep"]
<1>1. UNCHANGED failed
  BY DEF Around, LoopStarts, LoopIsListed, Flips, LoopSubmits, LoopEnds, Approves, GraceEnds,
     LeaseEnds
<1>2. CASE LoopSubmits(s)
  <2>1. act \in [Proposals -> [Submitters -> Acts]]
    BY DEF SweepTypeOK
  <2>2. act' = [act EXCEPT ![s]["loop"].at = "post"]
    BY <1>2 DEF LoopSubmits
  <2>3. \A p \in Proposals : act'[p]["sweep"] = act[p]["sweep"]
    BY <2>1, <2>2 DEF Submitters
  <2> QED BY <1>1, <2>3
<1>3. CASE UNCHANGED act
  BY <1>1, <1>3
<1> QED BY <1>2, <1>3 DEF Around, LoopStarts, LoopIsListed, Flips, LoopEnds, Approves,
           GraceEnds, LeaseEnds

\* Every step keeps the budget.
LEMMA BudgetStep ==
    ASSUME SweepTypeOK, BudgetInv, [SweepNext]_sweepVars
    PROVE  BudgetInv'
<1>t. tick \in Ticks
  BY DEF SweepTypeOK, Ticks
<1>1. ASSUME NEW s \in Proposals, NEW x \in Places, Pod(s, x)
      PROVE  BudgetInv'
  BY <1>1, PodFacts, BudgetKept DEF PodMoves
<1>2. ASSUME NEW s \in Proposals, Around(s)
      PROVE  BudgetInv'
  <2>1. tick'.at = tick.at /\ tick'.left = tick.left /\ tick'.spent = tick.spent
    BY <1>t, <1>2, AroundTick DEF Ticks
  <2> QED BY <1>2, <2>1, AroundChildren, BudgetKept
<1>3. CASE UNCHANGED sweepVars
  BY <1>3, BudgetKept DEF sweepVars
<1> QED BY <1>1, <1>2, <1>3, SweepSteps, TickBudget, SubmissionBudget

\* The sweep does not go on submitting a proposal whose runs are lost before they start:
\* of the failures it looks back on, at most one more than the budget are losses
\* (implement_sweep.py, count_swept_prestart_failures), for any caps and windows.
THEOREM LossesAlwaysBounded == SweepSpec => []LossesAreBounded
<1>1. SweepInit => BudgetInv
  <2> SUFFICES ASSUME SweepInit, NEW s \in Proposals PROVE WithinBudget(s)
    BY DEF BudgetInv
  <2>1. Losses(s) = 0
    <3>1. Lost(failed[s]) = {}
      BY DEF SweepInit, Lost
    <3> QED BY <3>1, LossesAreLost, FS_EmptySet
  <2>2. act[s]["sweep"].at = "off" /\ tick.at = "idle"
    BY DEF SweepInit, Submitters, Idle
  <2> QED BY <2>1, <2>2, Sizes DEF WithinBudget
<1>2. BudgetInv => LossesAreBounded
  BY DEF BudgetInv, WithinBudget, LossesAreBounded
<1> QED BY <1>1, <1>2, BudgetStep, SweepTypeInit, SweepTypeStep, PTL DEF SweepSpec

-------------------------------------------------------------------------------
(* The sweep: the proposals of live DevLoops.                              *)

\* A loop that has flipped its proposal and is not listed yet has written the file
\* within the grace period; and while a tick is between its reads, the ones it has to
\* leave alone are live, and listed or written as recently.
OwnedInv ==
    /\ \A s \in Proposals :
          loop[s].at \notin {"off", "gate"} => loop[s].listed \/ file[s].recent
    /\ tick.at = "scan" => \A s \in tick.owned : IsLive(s) /\ (s \in tick.ids \/ file[s].recent)
    /\ tick.at # "scan" => tick.owned = {}

\* The scan finds none of them.
LEMMA TickOwned ==
    ASSUME SweepTypeOK, OwnedInv, TickStep
    PROVE  OwnedInv'
<1>t. tick \in Ticks /\ tick' \in Ticks
  BY TickType DEF SweepTypeOK, Ticks
<1>f. UNCHANGED <<file, loop>>
  BY DEF TickStep, Tick, ReadActive, Scan, Count, StartChild, PassOver, TickSkipped
<1> SUFFICES /\ tick'.at = "scan" =>
                   \A s \in tick'.owned : IsLive(s) /\ (s \in tick'.ids \/ file[s].recent)
             /\ tick'.at # "scan" => tick'.owned = {}
  BY <1>f DEF OwnedInv, IsLive
<1>1. CASE ReadActive
  <2>1. /\ tick'.at = "scan"
        /\ tick'.ids = {s \in Proposals : IsLive(s) /\ loop[s].listed}
        /\ tick'.owned = {s \in Proposals : IsLive(s) /\ loop[s].at # "gate"}
    BY <1>t, <1>1 DEF ReadActive, Ticks
  <2> QED BY <2>1 DEF OwnedInv, IsLive
<1>2. CASE Scan
  <2>1. tick' = Idle \/ (tick'.at = "count" /\ tick'.owned = tick.owned \cap Found(tick.ids))
    BY <1>t, <1>2 DEF Scan, Ticks
  <2>2. tick.owned \cap Found(tick.ids) = {}
    BY <1>2 DEF Scan, OwnedInv, Found, IsStranded
  <2> QED BY <2>1, <2>2 DEF Idle
<1>3. CASE Count
  BY <1>t, <1>3 DEF Count, OwnedInv, Ticks
<1>4. ASSUME NEW t \in Ticks, NEW s \in Proposals,
             t.at = "start", t.owned = {}, tick' = AfterThis(t, s)
      PROVE  tick'.at # "scan" /\ tick'.owned = {}
  BY <1>4 DEF AfterThis, Idle, Ticks
<1>5. CASE StartChild
  <2>1. PICK s \in Proposals : /\ IsNext(s) /\ Takes(s)
                               /\ tick' = AfterThis([tick EXCEPT !.sent = @ + 1], s)
    BY <1>5 DEF StartChild
  <2> DEFINE t == [tick EXCEPT !.sent = @ + 1]
  <2>2. tick.sent + 1 \in 0..MaxSubmits
    BY <1>t, <2>1, Sizes DEF Takes, Ticks
  <2>3. t \in Ticks /\ t.at = "start" /\ t.owned = {}
    BY <1>t, <2>1, <2>2 DEF IsNext, OwnedInv, Ticks
  <2> QED BY <1>4, <2>1, <2>3
<1>6. CASE PassOver
  BY <1>t, <1>4, <1>6 DEF PassOver, IsNext, OwnedInv
<1>7. CASE TickSkipped
  BY <1>7 DEF TickSkipped, Idle
<1> QED BY <1>1, <1>2, <1>3, <1>5, <1>6, <1>7 DEF TickStep, Tick

\* A loop whose run ends goes on, or is nobody's owner any more.
LEMMA SubmissionOwned ==
    ASSUME SweepTypeOK, OwnedInv, NEW s \in Proposals, NEW x \in Submitters, Submission(s, x)
    PROVE  OwnedInv'
<1>1. SubmissionMoves(s, x)
  BY SubmissionFacts
<1>t. tick \in Ticks /\ loop \in [Proposals -> Loops]
  BY DEF SweepTypeOK, Ticks
<1>2. /\ UNCHANGED file /\ tick'.at = tick.at /\ tick'.ids = tick.ids
      /\ tick'.owned \subseteq tick.owned
  BY <1>1, <1>t DEF SubmissionMoves, EndsWell, Ticks
<1>3. \A p \in Proposals :
         \/ loop'[p] = loop[p]
         \/ loop'[p].at # "off" /\ loop'[p].listed = loop[p].listed /\ loop[p].at = "implement"
         \/ loop'[p].at = "off" /\ p \notin tick'.owned
  <2> SUFFICES ASSUME NEW p \in Proposals, loop'[p] # loop[p]
               PROVE  \/ /\ loop'[p].at # "off" /\ loop'[p].listed = loop[p].listed
                         /\ loop[p].at = "implement"
                      \/ loop'[p].at = "off" /\ p \notin tick'.owned
    OBVIOUS
  <2>1. EndsWell(s, x) /\ p = s /\ x = "loop"
    BY <1>1 DEF SubmissionMoves, EndsWell, Submitters
  <2> QED BY <2>1 DEF EndsWell
<1>4. tick'.owned \subseteq Proposals
  BY <1>t, <1>2 DEF Ticks
<1> QED BY <1>2, <1>3, <1>4 DEF OwnedInv, IsLive

\* The grace of a file does not end before its loop is listed, and seen by the tick.
LEMMA AroundOwned ==
    ASSUME SweepTypeOK, OwnedInv, NEW s \in Proposals, Around(s)
    PROVE  OwnedInv'
<1>t. /\ tick \in Ticks /\ loop \in [Proposals -> Loops] /\ file \in [Proposals -> Files]
      /\ loop[s] \in Loops /\ file[s] \in Files
  BY DEF SweepTypeOK, Ticks
<1>1. CASE LoopOff(s) /\ UNCHANGED file
  <2>1. /\ \A p \in Proposals \ {s} : loop'[p] = loop[p]
        /\ loop'[s].at = "off"
        /\ tick'.at = tick.at /\ tick'.ids = tick.ids /\ tick'.owned = tick.owned \ {s}
    BY <1>t, <1>1 DEF LoopOff, Ticks, Loops
  <2> QED BY <1>t, <1>1, <2>1 DEF OwnedInv, IsLive, Ticks
<1>2. CASE LoopStarts(s) \/ LoopIsListed(s) \/ LoopSubmits(s)
  <2>1. UNCHANGED <<file, tick>> /\ \A p \in Proposals \ {s} : loop'[p] = loop[p]
    BY <1>t, <1>2 DEF LoopStarts, LoopIsListed, LoopSubmits
  <2>2. \/ loop'[s].at = "gate"
        \/ loop'[s].at = loop[s].at /\ loop'[s].listed
        \/ loop[s].at = "flipped" /\ loop'[s].at = "implement" /\ loop'[s].listed = loop[s].listed
    BY <1>t, <1>2 DEF LoopStarts, LoopIsListed, LoopSubmits, Loops
  <2> QED BY <1>t, <2>1, <2>2 DEF OwnedInv, IsLive, Ticks
<1>3. CASE Flips(s)
  <2>1. [file[s] EXCEPT !.st = "accepted", !.auth = TRUE, !.recent = TRUE] \in Files
    BY <1>t DEF Files
  <2>2. file'[s].recent /\ \A p \in Proposals \ {s} : file'[p] = file[p]
    <3>1. file'[s] = [file[s] EXCEPT !.st = "accepted", !.auth = TRUE, !.recent = TRUE]
          /\ \A p \in Proposals \ {s} : file'[p] = file[p]
      BY <1>t, <1>3, <2>1, FileSet DEF Flips
    <3> QED BY <1>t, <3>1 DEF Files
  <2>3. UNCHANGED tick /\ loop'[s].at = "flipped" /\ \A p \in Proposals \ {s} : loop'[p] = loop[p]
    BY <1>t, <1>3 DEF Flips, Loops
  <2> QED BY <1>t, <2>2, <2>3 DEF OwnedInv, IsLive, Ticks
<1>4. CASE Approves(s)
  <2>1. [file[s] EXCEPT !.st = "accepted", !.auth = TRUE, !.held = FALSE, !.recent = TRUE] \in Files
    BY <1>t DEF Files
  <2>2. file'[s].recent /\ \A p \in Proposals \ {s} : file'[p] = file[p]
    <3>1. /\ file'[s] = [file[s] EXCEPT !.st = "accepted", !.auth = TRUE, !.held = FALSE,
                                        !.recent = TRUE]
          /\ \A p \in Proposals \ {s} : file'[p] = file[p]
      BY <1>t, <1>4, <2>1, FileSet DEF Approves
    <3> QED BY <1>t, <3>1 DEF Files
  <2>3. UNCHANGED <<tick, loop>>
    BY <1>4 DEF Approves
  <2> QED BY <1>t, <2>2, <2>3 DEF OwnedInv, IsLive, Ticks
<1>5. CASE GraceEnds(s)
  <2>1. ~MissedByTick(s) /\ UNCHANGED <<tick, loop>>
    BY <1>5 DEF GraceEnds
  <2>2. \A p \in Proposals \ {s} : file'[p] = file[p]
    BY <1>t, <1>5 DEF GraceEnds, Writes
  <2> QED BY <1>t, <2>1, <2>2 DEF OwnedInv, IsLive, MissedByTick, Ticks
<1>6. CASE LeaseEnds(s)
  <2>1. UNCHANGED <<tick, loop>> /\ \A p \in Proposals : file'[p].recent = file[p].recent
    BY <1>t, <1>6 DEF LeaseEnds, Writes, Files
  <2> QED BY <1>t, <2>1 DEF OwnedInv, IsLive, Ticks
<1> QED BY <1>1, <1>2, <1>3, <1>4, <1>5, <1>6 DEF Around, LoopEnds

\* Every step keeps it.
LEMMA OwnedStep ==
    ASSUME SweepTypeOK, OwnedInv, [SweepNext]_sweepVars
    PROVE  OwnedInv'
<1>1. ASSUME NEW s \in Proposals, NEW x \in Places, Pod(s, x)
      PROVE  OwnedInv'
  <2>1. tick \in Ticks
    BY DEF SweepTypeOK, Ticks
  <2> QED BY <1>1, <2>1, PodFacts DEF PodMoves, OwnedInv, IsLive, Ticks
<1>2. CASE UNCHANGED sweepVars
  BY <1>2 DEF sweepVars, OwnedInv, IsLive
<1> QED BY <1>1, <1>2, SweepSteps, TickOwned, SubmissionOwned, AroundOwned

\* Who starts a child is the tick.
LEMMA OnlyTicksStart ==
    ASSUME SweepTypeOK, [SweepNext]_sweepVars, NEW s \in Proposals,
           act[s]["sweep"].at = "off", act'[s]["sweep"].at = "post"
    PROVE  TickStep
<1>t. act \in [Proposals -> [Submitters -> Acts]] /\ "sweep" \in Submitters
  BY DEF SweepTypeOK, Submitters
<1>1. ASSUME NEW p \in Proposals, NEW x \in Submitters, Submission(p, x)
      PROVE  FALSE
  <2>1. SubmissionMoves(p, x)
    BY <1>1, SubmissionFacts
  <2>2. PICK a \in Acts : act' = [act EXCEPT ![p][x] = a]
    BY <2>1 DEF SubmissionMoves
  <2>3. \A q \in Proposals, y \in Submitters : q # p \/ y # x => act'[q][y] = act[q][y]
    BY <1>t, <2>2, ActSet
  <2>4. p = s /\ x = "sweep"
    BY <1>t, <2>3
  <2> QED BY <2>1, <2>4 DEF SubmissionMoves, EndsWell
<1>2. ASSUME NEW p \in Proposals, NEW x \in Places, Pod(p, x)
      PROVE  FALSE
  BY <1>2, PodFacts DEF PodMoves
<1>3. ASSUME NEW p \in Proposals, Around(p)
      PROVE  FALSE
  BY <1>3, AroundChildren
<1>4. ~UNCHANGED sweepVars
  BY DEF sweepVars
<1> QED BY <1>1, <1>2, <1>3, <1>4, SweepSteps

\* A proposal that a DevLoop had flipped when the tick began, and whose loop runs on, is not
\* submitted by that tick: neither when the listing lags behind, nor when the loop is
\* between its flip and its submit (find_stranded_accepted, list_active_dev_loop_ids).
THEOREM LiveLoopAlwaysLeft == SweepSpec => LiveLoopIsLeft
<1>1. SweepInit => OwnedInv
  BY DEF SweepInit, OwnedInv, Idle
<1>2. ASSUME SweepTypeOK, OwnedInv, [SweepNext]_sweepVars, NEW s \in Proposals,
             act[s]["sweep"].at = "off", act'[s]["sweep"].at = "post"
      PROVE  s \notin tick.owned
  <2>1. TickStep
    BY <1>2, OnlyTicksStart
  <2>2. act' # act
    BY <1>2
  <2>3. StartChild
    BY <2>1, <2>2 DEF TickStep, Tick, ReadActive, Scan, Count, PassOver, TickSkipped
  <2>4. tick.at = "start"
    BY <2>3 DEF StartChild, IsNext
  <2> QED BY <1>2, <2>4 DEF OwnedInv
<1>3. SweepTypeOK /\ OwnedInv /\ [SweepNext]_sweepVars =>
        [\A s \in Proposals :
            act[s]["sweep"].at = "off" /\ act'[s]["sweep"].at = "post"
            => s \notin tick.owned]_sweepVars
  BY <1>2
<1> QED BY <1>1, <1>3, OwnedStep, SweepTypeInit, SweepTypeStep, PTL DEF SweepSpec, LiveLoopIsLeft
===============================================================================

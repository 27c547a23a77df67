---------------------------- MODULE Clarification ----------------------------
(***************************************************************************)
(* The clarification loop of DevLoopWorkflow (`run`, `_await_human_input`, *)
(* `human_input_response` in orchestrator/temporal/workflows/dev_loop.py): *)
(* investigate, read the request the run published, wait for a person's    *)
(* answer, and investigate again with every answer accepted so far, until  *)
(* no request is left and the loop parks for approval.  Executions of the  *)
(* loop follow one another on the same proposal, so a request of an        *)
(* earlier one may still lie there.                                        *)
(***************************************************************************)
EXTENDS Investigation, Sequences

CONSTANT QueueLimit     \* HUMAN_INPUT_RESPONSE_QUEUE_LIMIT

ASSUME QueueAssumption == QueueLimit \in Nat \ {0}

VARIABLES
    execution,      \* the number of the loop execution under way
    pc,             \* where it is
    request,        \* the request it waits on
    resolved,       \* _resolved_question_hashes
    resumes,        \* _human_input_resume_count
    answers,        \* accepted_answers, by the request each one answers
    queue,          \* _input_responses
    abandoned,      \* _abandoned
    expired         \* the requests whose expires_at has passed

loopVars == <<execution, pc, request, resolved, resumes, answers, queue, abandoned>>
vars == <<investigationVars, loopVars, expired>>

Init ==
    /\ InitInvestigation
    /\ execution = 0 /\ pc = "ended"
    /\ request = NoRequest
    /\ resolved = {} /\ resumes = 0 /\ answers = {}
    /\ queue = <<>> /\ abandoned = FALSE
    /\ expired = {}

(* A DevLoop starts on the issue; its clarification state is in memory.    *)
StartLoop ==
    /\ pc \in {"ended", "parked"} /\ execution < MaxLoops
    /\ execution' = execution + 1
    /\ pc' = "investigating"
    /\ request' = NoRequest
    /\ resolved' = {} /\ resumes' = 0 /\ answers' = {}
    /\ queue' = <<>> /\ abandoned' = FALSE
    /\ Submit(execution', {})
    /\ UNCHANGED <<live, aside, staging, stranded, accepted, refused, faults, kills, expired>>

(* The CWFT ends: a run that was skipped exits 0 like one that published.  *)
RunEnds ==
    /\ pc = "investigating" /\ At("done")
    /\ pc' = IF run.result = "failed" THEN "ended" ELSE "reading"
    /\ UNCHANGED <<investigationVars, execution, request, resolved, resumes, answers,
                   queue, abandoned, expired>>

\* A bug: a request an earlier execution left behind is taken for this one's.
RetiredOwn(r) == r = NoRequest \/ r.question \in resolved \/ r \in expired

\* A request that is nobody's to answer now: of another execution, answered
\* before in this one, or already expired when it is read.
Retired(r) ==
    \/ r = NoRequest
    \/ r.question \in resolved
    \/ r.loop # execution
    \/ r \in expired

(* `_await_human_input` up to the wait.  A round past the limit, as the    *)
(* agent or this workflow counts it, fails the loop, and so does a request *)
(* that cannot be read.                                                    *)
ReadRequest ==
    /\ pc = "reading"
    /\ \/ IF Retired(live.ask) THEN pc' = "parked" /\ UNCHANGED request
          ELSE IF live.ask.round > MaxRounds \/ resumes >= MaxRounds
          THEN pc' = "ended" /\ UNCHANGED request
          ELSE pc' = "waiting" /\ request' = live.ask
       \/ live.ask # NoRequest /\ pc' = "ended" /\ UNCHANGED request
    /\ UNCHANGED <<investigationVars, execution, resolved, resumes, answers, queue,
                   abandoned, expired>>

(* A surface delivers an answer: to this request or to another one, fit or *)
(* not (respondent, value).  It is dropped unless the loop waits and there *)
(* is room.                                                                *)
Deliver ==
    /\ pc = "waiting" /\ Len(queue) < QueueLimit
    /\ \E own, fit \in BOOLEAN : queue' = Append(queue, [own |-> own, fit |-> fit])
    /\ UNCHANGED <<investigationVars, execution, pc, request, resolved, resumes, answers,
                   abandoned, expired>>

\* `validate_response` at the time the answer is read.
Valid(answer) == answer.own /\ answer.fit /\ request \notin expired

(* The wait is over: nothing delivered for it may be read by a later one.  *)
Close(next) ==
    /\ pc' = next
    /\ queue' = <<>>
    /\ request' = NoRequest

\* A bug: the continuation is given the latest answer only.
ResumeLatest ==
    /\ pc = "waiting" /\ ~abandoned /\ queue # <<>> /\ Valid(Head(queue))
    /\ resolved' = resolved \cup {request.question}
    /\ resumes' = resumes + 1
    /\ answers' = answers \cup {request}
    /\ Submit(execution, {request})
    /\ Close("investigating")
    /\ UNCHANGED <<live, aside, staging, stranded, accepted, refused, faults, kills,
                   execution, abandoned, expired>>

(* An accepted answer resumes the loop: investigate again, with every      *)
(* answer accepted in this execution.                                      *)
Resume ==
    /\ pc = "waiting" /\ ~abandoned /\ queue # <<>> /\ Valid(Head(queue))
    /\ resolved' = resolved \cup {request.question}
    /\ resumes' = resumes + 1
    /\ answers' = answers \cup {request}
    /\ Submit(execution, answers')
    /\ Close("investigating")
    /\ UNCHANGED <<live, aside, staging, stranded, accepted, refused, faults, kills,
                   execution, abandoned, expired>>

(* An answer that does not fit is pruned, and the wait goes on.            *)
Reject ==
    /\ pc = "waiting" /\ ~abandoned /\ queue # <<>> /\ ~Valid(Head(queue))
    /\ queue' = Tail(queue)
    /\ UNCHANGED <<investigationVars, execution, pc, request, resolved, resumes, answers,
                   abandoned, expired>>

\* A bug: the deadline is looked at only when no answer is queued.
TimeOutWhenQuiet ==
    /\ pc = "waiting" /\ ~abandoned /\ request \in expired /\ queue = <<>>
    /\ Close("ended")
    /\ UNCHANGED <<investigationVars, execution, resolved, resumes, answers, abandoned,
                   expired>>

(* The deadline passes, whatever is still queued.                          *)
TimeOut ==
    /\ pc = "waiting" /\ ~abandoned /\ request \in expired
    /\ Close("ended")
    /\ UNCHANGED <<investigationVars, execution, resolved, resumes, answers, abandoned,
                   expired>>

(* `abandon` arrives at any time; a wait notices it before any answer.     *)
Abandon ==
    /\ pc \in {"investigating", "reading", "waiting"} /\ ~abandoned
    /\ abandoned' = TRUE
    /\ UNCHANGED <<investigationVars, execution, pc, request, resolved, resumes, answers,
                   queue, expired>>

AbandonEnds ==
    /\ pc = "waiting" /\ abandoned
    /\ Close("ended")
    /\ UNCHANGED <<investigationVars, execution, resolved, resumes, answers, abandoned,
                   expired>>

(* Time passes the deadline of a request that was published (external).    *)
Expire ==
    /\ \E r \in {live.ask, request} \ (expired \cup {NoRequest}) :
          expired' = expired \cup {r}
    /\ UNCHANGED <<investigationVars, loopVars>>

Loop == RunEnds \/ ReadRequest \/ Resume \/ Reject \/ TimeOut \/ AbandonEnds

Next ==
    \/ (Work \/ Trouble) /\ UNCHANGED <<loopVars, expired>>
    \/ StartLoop \/ Loop \/ Deliver \/ Abandon \/ Expire

Spec == Init /\ [][Next]_vars

\* Temporal runs the loop and its timers, Argo the pod.
FairSpec ==
    /\ Spec
    /\ WF_vars(Work /\ UNCHANGED <<loopVars, expired>>)
    /\ WF_vars(RunEnds \/ ReadRequest)
    /\ WF_vars(TimeOut)
    /\ WF_vars(AbandonEnds)
    /\ WF_vars(Expire)
-----------------------------------------------------------------------------
Responses == [own : BOOLEAN, fit : BOOLEAN]

TypeOK ==
    /\ InvestigationTypes
    /\ execution \in 0..MaxLoops
    /\ pc \in {"investigating", "reading", "waiting", "parked", "ended"}
    /\ request \in Requests \cup {NoRequest}
    /\ resolved \subseteq Questions
    /\ resumes \in 0..MaxRounds
    /\ answers \subseteq Requests
    /\ queue \in Seq(Responses) /\ Len(queue) <= QueueLimit
    /\ abandoned \in BOOLEAN
    /\ expired \subseteq Requests

(* The loop waits only on a question this execution asked and has not had  *)
(* answered, and the two counts of rounds, the agent's in the request and  *)
(* the workflow's own, agree (`_await_human_input`, `_seal_draft`).        *)
WaitsOnOwnRound ==
    pc = "waiting" =>
        /\ request.loop = execution
        /\ request.question \notin resolved
        /\ request.round = resumes + 1
        /\ Cardinality(answers) = resumes

(* A loop that parks for approval offers documents written with every      *)
(* answer it accepted, unless the last run left the proposal alone because *)
(* it found it accepted, or before there was any answer                    *)
(* (`accepted_answers`, `human_input_responses`).                          *)
AnswersReachTheProposal ==
    pc = "parked" =>
        \/ live.answers = answers
        \/ run.result = "skipped" /\ (live.status = "accepted" \/ answers = {})

(* However often it asks, is answered badly, or loses a run, the loop ends *)
(* or parks for approval (`_await_human_input`'s timers and round limits). *)
LoopEnds == [](pc # "ended" => <>(pc \in {"parked", "ended"}))
=============================================================================

------------------------------ MODULE MergeGate ------------------------------
(***************************************************************************)
(* The merge watch of a DevLoop on one pull request, with the merge gate   *)
(* it runs for a service whose merges need a person: the gate's first      *)
(* activity, the wait for a decision in a child workflow, the gated        *)
(* activity in a worker thread, the receipts in mctl-api, and GitHub.      *)
(* A receipt stands for one head: execution, intent and attempt make its   *)
(* key, and the watch asks under one execution identity.                   *)
(***************************************************************************)
EXTENDS ApprovalContract, Naturals, FiniteSets

CONSTANTS
    Heads,         \* the commits the branch may point at
    FirstHead,     \* the one it is opened with
    NoHead,
    EffectTries,   \* MERGE_EFFECT_ATTEMPTS
    ActivityTries, \* maximum_attempts of the gated activity
    OffPolls,      \* MERGE_GATE_OFF_REPROBE_POLLS
    Grace,         \* pr_lookup_grace_polls
    Confirm,       \* PROPOSAL_TERMINAL_CONFIRM_POLLS
    MaxPushes,     \* bound on pushes
    MaxStray,      \* bound on threads that nobody waits for
    MaxTroubles    \* bound on lost calls and signals, crashes, and switches of the gate

ASSUME GateAssumption ==
    /\ FirstHead \in Heads /\ NoHead \notin Heads
    /\ {EffectTries, ActivityTries, OffPolls, Grace, Confirm} \subseteq Nat \ {0}
    /\ {MaxPushes, MaxStray, MaxTroubles} \subseteq Nat

VARIABLES
    pr,       \* the pull request at GitHub, and whether decide() says merge
    policy,   \* the rule of merges in the worker's environment
    receipt,  \* head -> state of its receipt in mctl-api
    watch,    \* the merge watch's locals and fields
    gate,     \* gate_task: run_gated_action and its child workflow
    job,      \* the gated activity that the gate waits for
    stray,    \* activities still running in threads that nobody waits for
    troubles

vars == <<pr, policy, receipt, watch, gate, job, stray, troubles>>

Trouble == troubles < MaxTroubles /\ troubles' = troubles + 1

-----------------------------------------------------------------------------
(* The gated activity (activities/pr_merge.py with run_gated), in a thread. *)

Working == {"checks", "redeem", "spend", "effect"}
Codes   == {"off", "unmet", "blocked", "pending", "undecided", "denied", "expired",
            "consumed", "refused", "mismatch", "ran", "failed", "error"}

NoJob == [pc |-> "none", head |-> NoHead, known |-> FALSE, tries |-> 0, runs |-> 0]
Started(head, known, runs) ==
    [pc |-> "checks", head |-> head, known |-> known, tries |-> 0, runs |-> runs]

Threads == {j \in stray \cup {job} : j.pc \in Working}
Ends(j, code) == [NoJob EXCEPT !.pc = code]

\* The thread j goes on as next; of a stray thread nobody hears the end.
GoesOn(j, next) ==
    \/ job = j /\ job' = next /\ UNCHANGED stray
    \/ /\ j \in stray /\ UNCHANGED job
       /\ stray' = (stray \ {j}) \cup (IF next.pc \in Working THEN {next} ELSE {})

Ready(head) == pr.state = "open" /\ pr.head = head /\ pr.ready

\* Everything the merge depends on is read again: the gate, the request and its
\* head, and what decide() says of it.
Checked(head) ==
    IF policy = "builtin" THEN "off"
    ELSE IF ~Ready(head) THEN "unmet"
    ELSE IF MergeRule(policy, "merge") = "deny" THEN "blocked" ELSE "redeem"

Checks(j) ==
    /\ j.pc = "checks"
    /\ \/ LET code == Checked(j.head)
          IN GoesOn(j, IF code = "redeem" THEN [j EXCEPT !.pc = "redeem"] ELSE Ends(j, code))
             /\ UNCHANGED troubles
       \/ GoesOn(j, Ends(j, "unmet")) /\ Trouble
    /\ UNCHANGED <<pr, policy, receipt, watch, gate>>

\* mctl-api, external: it knows the receipt by its key or its id, creates it at
\* the first asking, and lets an approved one be spent once.
Reply(state, resp, fault) == [state |-> state, resp |-> resp, fault |-> fault]

Lookups(j) ==
    LET state == IF receipt[j.head] = "none" THEN "pending" ELSE receipt[j.head]
    IN IF ~j.known
       THEN {Reply(receipt[j.head], Response("4xx", "none", "none"), 0)}
       ELSE {Reply(state, Told(state), 0)}
            \cup {Reply(s, r, 1) : s \in {state, receipt[j.head]},
                                   r \in {Silence, Response("2xx", "none", "none")}}

Refused2nd == [s \in ReceiptStates |->
    CASE s = "consumed" -> "approval_consumed"
      [] s = "expired"  -> "approval_expired"
      [] s = "denied"   -> "approval_denied"
      [] OTHER          -> "approval_not_approved"]

Spendings(j) ==
    LET state == receipt[j.head]
    IN IF state = "approved"
       THEN {Reply("consumed", Told("consumed"), 0)}
            \cup {Reply(s, Silence, 1) : s \in {"approved", "consumed"}}
       ELSE {Reply(state, Response("4xx", Refused2nd[state], "none"), 0),
             Reply(state, Silence, 1)}

Replied(head, r) ==
    /\ receipt' = [receipt EXCEPT ![head] = r.state]
    /\ troubles + r.fault <= MaxTroubles /\ troubles' = troubles + r.fault
    /\ UNCHANGED <<pr, policy, watch, gate>>

Redeems(j) ==
    /\ j.pc = "redeem"
    /\ \E r \in Lookups(j) :
          LET code == Lookup(r.resp, "same", "ahead")
          IN /\ Replied(j.head, r)
             /\ GoesOn(j, IF code = "spend" THEN [j EXCEPT !.pc = "spend"] ELSE Ends(j, code))

Spends(j) ==
    /\ j.pc = "spend"
    /\ \E r \in Spendings(j) :
          LET code == Code(SpendAnswer(r.resp))
          IN /\ Replied(j.head, r)
             /\ GoesOn(j, IF code = "approved" THEN [j EXCEPT !.pc = "effect"] ELSE Ends(j, code))

TriesAgain(j) ==
    IF j.tries + 1 = EffectTries THEN Ends(j, "failed") ELSE [j EXCEPT !.tries = @ + 1]

\* Mutant: gh is not told which head to merge.
MergesAnyHead(j) ==
    /\ j.pc = "effect" /\ pr.state = "open"
    /\ pr' = [pr EXCEPT !.state = "merged", !.by = "gate"]
    /\ GoesOn(j, Ends(j, "ran"))
    /\ UNCHANGED <<policy, receipt, watch, gate, troubles>>

\* gh merges the head it is told or none.  The request is looked at before each
\* further try, so that a merge whose answer was lost counts and a new head ends it.
Merges(j) ==
    /\ j.pc = "effect"
    /\ \/ /\ pr.state = "merged"
          /\ GoesOn(j, Ends(j, "ran")) /\ UNCHANGED <<pr, troubles>>
       \/ /\ pr.state # "merged" /\ pr.head # j.head /\ j.tries > 0
          /\ GoesOn(j, Ends(j, "failed")) /\ UNCHANGED <<pr, troubles>>
       \/ /\ pr.state = "open" /\ pr.head = j.head
          /\ pr' = [pr EXCEPT !.state = "merged", !.by = "gate"]
          /\ \/ GoesOn(j, Ends(j, "ran")) /\ UNCHANGED troubles
             \/ GoesOn(j, TriesAgain(j)) /\ Trouble
       \/ /\ \/ pr.state = "closed" /\ pr.head = j.head
             \/ j.tries = 0 /\ (pr.state = "merged" \/ pr.head # j.head)
          /\ GoesOn(j, TriesAgain(j)) /\ UNCHANGED <<pr, troubles>>
       \/ GoesOn(j, TriesAgain(j)) /\ Trouble /\ UNCHANGED pr
    /\ UNCHANGED <<policy, receipt, watch, gate>>

JobStep(j) == Checks(j) \/ Redeems(j) \/ Spends(j) \/ Merges(j)

\* Nobody waits for the thread any more; a cancelled or timed-out activity without
\* heartbeats runs on.
Deserted ==
    IF job.pc \in Working /\ Cardinality(stray) < MaxStray
    THEN stray \cup {[job EXCEPT !.runs = 0]} ELSE stray

\* The activity times out, or its worker is gone; it is started anew from the top.
JobLost ==
    /\ job.pc \in Working /\ Trouble
    /\ job' = IF job.runs = ActivityTries THEN Ends(job, "error")
              ELSE Started(job.head, job.known, job.runs + 1)
    /\ stray' \in {stray, Deserted}
    /\ UNCHANGED <<pr, policy, receipt, watch, gate>>

-----------------------------------------------------------------------------
(* gate_task: the first call without a receipt, and the child workflow that *)
(* waits for the decision (ActionApprovalWaitWorkflow).                     *)

NoGate == [pc |-> "none", head |-> NoHead, known |-> FALSE, wake |-> FALSE,
           retry |-> FALSE, margin |-> FALSE, late |-> FALSE, outcome |-> "none"]

ChildPCs  == {"reads-first", "waiting", "rechecking", "last-recheck"}
GateRuns  == gate.pc = "asking" \/ gate.pc \in ChildPCs
GateSet(g) == gate' = g /\ UNCHANGED <<pr, policy, watch>>

\* A finished child is of no more interest than its outcome.
Done(outcome) == [NoGate EXCEPT !.pc = "done", !.head = gate.head, !.outcome = outcome]

\* What a poll reads: a receipt as it is, or nothing that says what it is.
Reads(state) ==
    /\ state \in {receipt[gate.head], "unknown"}
    /\ IF state = "unknown" THEN Trouble ELSE UNCHANGED troubles

\* The gated activity is called with the receipt.
Rechecks(pc, g) ==
    /\ GateSet([g EXCEPT !.pc = pc, !.wake = FALSE, !.retry = FALSE])
    /\ job' = Started(gate.head, gate.known, 1)
    /\ UNCHANGED <<receipt, stray>>

Keeps(g) == GateSet(g) /\ UNCHANGED <<receipt, job, stray>>

Answered(g) ==
    /\ job.pc \in Codes /\ job' = NoJob
    /\ GateSet(g) /\ UNCHANGED <<receipt, stray, troubles>>

\* Only a decision that waits for a person and names its receipt starts a child.
FirstAnswered ==
    /\ gate.pc = "asking"
    /\ Answered(CASE job.pc = "pending" -> [gate EXCEPT !.pc = "reads-first"]
                  [] OTHER              -> Done(job.pc))

\* The wait ends a margin before the receipt does, if the first read tells when.
ReadsFirst ==
    /\ gate.pc = "reads-first"
    /\ \E state \in ReceiptStates \cup {"unknown"} :
          LET g == [gate EXCEPT !.margin = state # "unknown"]
          IN /\ Reads(state)
             /\ IF state \in DecidedStates THEN Rechecks("rechecking", g)
                ELSE Keeps([g EXCEPT !.pc = "waiting"])

Woken ==
    /\ gate.pc = "waiting" /\ gate.wake /\ UNCHANGED troubles
    /\ Rechecks("rechecking", gate)

\* The timer: of the next poll, or of the back-off after an unanswered re-check.
TimerFires ==
    /\ gate.pc = "waiting" /\ ~gate.wake /\ ~gate.late
    /\ IF gate.retry
       THEN Rechecks("rechecking", gate) /\ UNCHANGED troubles
       ELSE \E state \in ReceiptStates \cup {"unknown"} :
              /\ Reads(state)
              /\ IF state \in DecidedStates THEN Rechecks("rechecking", gate) ELSE Keeps(gate)

\* Mutant: out of time is out of time.
LastLookTimesOut ==
    /\ gate.pc = "waiting" /\ gate.late /\ UNCHANGED troubles
    /\ Keeps(Done("timed-out"))

\* At the deadline one more look, and a re-check if there is a decision.
LastLook ==
    /\ gate.pc = "waiting" /\ gate.late
    /\ \E state \in ReceiptStates \cup {"unknown"} :
          /\ Reads(state)
          /\ IF state \in DecidedStates THEN Rechecks("last-recheck", gate)
             ELSE Keeps(Done(IF state = "unknown" THEN "timed-out-blind" ELSE "timed-out"))

Rechecked ==
    /\ gate.pc = "rechecking"
    /\ Answered(IF job.pc \in KeepsWaiting
                THEN [gate EXCEPT !.pc = "waiting", !.retry = job.pc = "undecided"]
                ELSE Done(job.pc))

LastRechecked ==
    /\ gate.pc = "last-recheck"
    /\ Answered(Done(IF job.pc \in KeepsWaiting THEN "timed-out-blind" ELSE job.pc))

GateStep ==
    \/ FirstAnswered \/ ReadsFirst \/ Woken \/ TimerFires \/ LastLook
    \/ Rechecked \/ LastRechecked

GateLate ==
    /\ gate.pc \in ChildPCs /\ ~gate.late
    /\ Keeps([gate EXCEPT !.late = TRUE]) /\ UNCHANGED troubles

-----------------------------------------------------------------------------
(* The merge watch (_watch_pr).  A poll reads the request and acts on what  *)
(* it read in one step: what it touches no other actor reads in between.    *)

FreshWatch ==
    [pc |-> "top", polled |-> FALSE, off |-> 0, settled |-> NoHead, minted |-> FALSE,
     missing |-> 0, ended |-> 0, sawOpen |-> FALSE]

WatchSet(w) == watch' = w /\ UNCHANGED <<pr, policy, receipt>>

\* _record_gate_result: what is blocked for now is asked again at the next poll.
Recorded(w) ==
    CASE gate.outcome = "off" -> [w EXCEPT !.off = OffPolls]
      [] gate.outcome \in SettledOutcomes -> [w EXCEPT !.settled = gate.head]
      [] OTHER -> w

Top      == watch.pc = "top"
NoChange == UNCHANGED <<gate, job, stray>>

\* Mutant: the last gate is waited for.
LeavesAfterGate ==
    /\ ~GateRuns
    /\ WatchSet([FreshWatch EXCEPT !.pc = "gone"])
    /\ gate' = NoGate /\ stray' = Deserted /\ job' = NoJob

\* The finally block: the gate is cancelled if it runs, and not waited for.
Leaves ==
    /\ WatchSet([FreshWatch EXCEPT !.pc = "gone"])
    /\ gate' = NoGate /\ stray' = Deserted /\ job' = NoJob

\* The deadline passes, or the loop is abandoned: heard between two polls.
RunsOut == Top /\ Leaves /\ UNCHANGED troubles

\* continue-as-new: only between polls and only with no gate in flight; how long a
\* gate that is off stays off is not carried over.  The cap on hops is left out: past
\* it the watch goes on as it does here between two hops.
Hop ==
    /\ Top /\ watch.polled /\ ~GateRuns
    /\ WatchSet([(IF gate.pc = "done" THEN Recorded(watch) ELSE watch)
                    EXCEPT !.off = 0, !.polled = FALSE])
    /\ gate' = NoGate
    /\ UNCHANGED <<job, stray, troubles>>

\* get_pr_state fails: for now, or for good.
PollFails ==
    /\ Top /\ Trouble
    /\ Leaves \/ UNCHANGED <<pr, policy, receipt, watch, gate, job, stray>>

PollEnds ==
    /\ Top /\ pr.state \in {"merged", "closed"}
    /\ Leaves /\ UNCHANGED troubles

\* The proposal's own end counts only while no open request was ever seen.
PollMissing ==
    /\ Top
    /\ IF pr.state = "absent" THEN UNCHANGED troubles ELSE Trouble
    /\ LET ended == IF pr.dropped /\ ~watch.sawOpen THEN watch.ended + 1 ELSE 0
           gone  == ended = Confirm \/ watch.missing + 1 = Grace
       IN IF gone THEN Leaves
          ELSE /\ WatchSet([watch EXCEPT !.polled = TRUE, !.missing = @ + 1, !.ended = ended])
               /\ NoChange

Begins(w, known) ==
    /\ WatchSet(w)
    /\ gate' = [NoGate EXCEPT !.pc = "asking", !.head = pr.head, !.known = known]
    /\ job' = Started(pr.head, known, 1)

\* The identity is minted once and kept; a mint may fail, or not be stored, and
\* then the next attempt mints again.
Asks(w) ==
    \/ Begins([w EXCEPT !.minted = TRUE], TRUE) /\ UNCHANGED troubles
    \/ ~w.minted /\ Begins(w, FALSE) /\ Trouble
    \/ ~w.minted /\ WatchSet(w) /\ gate' = NoGate /\ job' = NoJob /\ Trouble

\* An open request: a gate for another head is cancelled, a finished one is
\* recorded, and if none is left and the head is not settled, one begins.
PollOpen ==
    /\ Top /\ pr.state = "open"
    /\ LET seen  == [watch EXCEPT !.polled = TRUE, !.missing = 0, !.ended = 0, !.sawOpen = TRUE,
                                  !.off = IF @ = 0 THEN 0 ELSE @ - 1]
           w     == IF gate.pc = "done" THEN Recorded(seen) ELSE seen
           keeps == GateRuns /\ gate.head = pr.head
       IN IF keeps
          THEN WatchSet(w) /\ NoChange /\ UNCHANGED troubles
          ELSE /\ stray' = IF GateRuns THEN Deserted ELSE stray
               /\ IF w.off = 0 /\ w.settled # pr.head THEN Asks(w)
                  ELSE WatchSet(w) /\ gate' = NoGate /\ job' = NoJob /\ UNCHANGED troubles

WatchStep ==
    Hop \/ PollFails \/ PollEnds \/ PollMissing \/ PollOpen

-----------------------------------------------------------------------------
(* People, time, GitHub and deployments.                                    *)

PrSet(p) == pr' = p /\ UNCHANGED <<policy, receipt, watch, gate, job, stray, troubles>>

PrOpens == pr.state = "absent" /\ PrSet([pr EXCEPT !.state = "open"])

Push ==
    /\ pr.state = "open" /\ pr.pushes < MaxPushes
    /\ \E h \in Heads \ {pr.head} :
          PrSet([pr EXCEPT !.head = h, !.ready = FALSE, !.pushes = @ + 1])

\* Reviews and checks of the head come in, or are withdrawn.
Judged == pr.state = "open" /\ PrSet([pr EXCEPT !.ready = ~@])

PrEnds ==
    /\ pr.state = "open"
    /\ \E end \in {"merged", "closed"} : PrSet([pr EXCEPT !.state = end, !.by = "person"])

\* The proposal is taken to a terminal status; that matters to the watch only
\* before it has seen an open request.
Dropped == ~pr.dropped /\ ~watch.sawOpen /\ PrSet([pr EXCEPT !.dropped = TRUE])

\* A person decides; mctl-api tells the child, if there is one, or tries to.
Decided(h) ==
    /\ receipt[h] = "pending"
    /\ \E d \in {"approved", "denied"} : receipt' = [receipt EXCEPT ![h] = d]
    /\ \/ /\ gate' = IF gate.pc \in ChildPCs /\ gate.head = h
                     THEN [gate EXCEPT !.wake = TRUE] ELSE gate
          /\ UNCHANGED troubles
       \/ Trouble /\ UNCHANGED gate
    /\ UNCHANGED <<pr, policy, watch, job, stray>>

\* The margin is longer than the last look takes: no receipt expires under a wait
\* that knows when it will.
Expires(h) ==
    /\ receipt[h] \in {"pending", "approved"}
    /\ ~(GateRuns /\ gate.head = h /\ gate.margin)
    /\ receipt' = [receipt EXCEPT ![h] = "expired"]
    /\ UNCHANGED <<pr, policy, watch, gate, job, stray, troubles>>

\* A deployment with another policy restarts the worker; its threads are gone.
Deployed ==
    /\ Trouble
    /\ \E p \in {"builtin", "merge-approval", "misconfigured"} \ {policy} : policy' = p
    /\ stray' = {}
    /\ job' = IF job.pc \in Working THEN Started(job.head, job.known, job.runs) ELSE job
    /\ UNCHANGED <<pr, receipt, watch, gate>>

\* With the watch over and no thread left there is nothing more to see.
Alive == watch.pc = "top" \/ stray # {}

Environment ==
    /\ Alive
    /\ \/ PrOpens \/ Push \/ Judged \/ PrEnds \/ Dropped \/ Deployed
       \/ \E h \in Heads : Decided(h) \/ Expires(h)

-----------------------------------------------------------------------------
Init ==
    /\ pr \in [state : {"absent"}, head : {FirstHead}, ready : {FALSE}, by : {"none"},
               pushes : {0}, dropped : {FALSE}]
    /\ policy = "merge-approval"
    /\ receipt = [h \in Heads |-> "none"]
    /\ watch = FreshWatch
    /\ gate = NoGate
    /\ job = NoJob
    /\ stray = {}
    /\ troubles = 0

Next ==
    \/ WatchStep \/ RunsOut \/ GateStep \/ GateLate \/ Environment
    \/ JobLost \/ \E j \in Threads : JobStep(j)

Spec == Init /\ [][Next]_vars

\* The workers run: polls are made, timers fire, threads come to an end.
FairSpec ==
    /\ Spec
    /\ WF_vars(WatchStep) /\ WF_vars(GateStep) /\ WF_vars(JobStep(job))

-----------------------------------------------------------------------------
PrStates   == [state : {"absent", "open", "merged", "closed"}, head : Heads, ready : BOOLEAN,
               by : {"none", "gate", "person"}, pushes : 0..MaxPushes, dropped : BOOLEAN]
WatchStates == [pc : {"top", "gone"}, polled : BOOLEAN, off : 0..OffPolls,
                settled : Heads \cup {NoHead}, minted : BOOLEAN, missing : 0..Grace - 1,
                ended : 0..Confirm - 1, sawOpen : BOOLEAN]
GateStates == [pc : {"none", "asking", "done"} \cup ChildPCs, head : Heads \cup {NoHead},
               known : BOOLEAN, wake : BOOLEAN, retry : BOOLEAN, margin : BOOLEAN,
               late : BOOLEAN, outcome : Codes \cup {"none", "timed-out", "timed-out-blind"}]
JobStates  == [pc : Working \cup Codes \cup {"none"}, head : Heads \cup {NoHead},
               known : BOOLEAN, tries : 0..EffectTries - 1, runs : 0..ActivityTries]
StrayStates == [pc : Working, head : Heads, known : BOOLEAN, tries : 0..EffectTries - 1,
                runs : {0}]

TypeOK ==
    /\ pr \in PrStates
    /\ policy \in {"builtin", "merge-approval", "misconfigured"}
    /\ receipt \in [Heads -> ReceiptStates \cup {"none"}]
    /\ watch \in WatchStates
    /\ gate \in GateStates
    /\ job \in JobStates
    /\ stray \subseteq StrayStates
    /\ troubles \in 0..MaxTroubles

\* An approval is spent by one thread, and before that thread acts: whoever tries
\* to merge holds the receipt alone (redeem, the activity's retries, and threads
\* that run on after a timeout or a cancel).
SpentOnce ==
    \A j \in Threads : j.pc = "effect" =>
        /\ receipt[j.head] = "consumed"
        /\ \A k \in Threads : k.pc = "effect" /\ k.head = j.head => k = j

\* The gate merges only heads that a person approved as they are, one for each
\* approval.
Approved == INSTANCE ApprovedMerge WITH
    decision <- receipt,
    permits  <- {j.head : j \in {k \in Threads : k.pc = "effect"}},
    merged   <- IF pr.by = "gate" THEN pr.head ELSE NoHead
MergeIsApproved == Approved!Spec

\* A decision that comes while the gate waits, and before its deadline, is acted
\* on although the signal, the answer of a call or a worker may be lost.
\* Not if the last look went unanswered, or the request could not be read.
ApprovedIsUsed ==
    \A h \in Heads :
        (/\ gate.pc \in ChildPCs /\ gate.head = h /\ gate.margin /\ ~gate.late
         /\ receipt[h] = "approved" /\ Ready(h))
        ~> \/ receipt[h] = "consumed" \/ ~Ready(h) \/ policy # "merge-approval"
           \/ watch.pc # "top" \/ gate.outcome \in {"timed-out-blind", "unmet", "error"}

\* The watch ends with the request, and waits for no person and no activity then.
WatchEnds == pr.state \in {"merged", "closed"} ~> watch.pc = "gone"
=============================================================================

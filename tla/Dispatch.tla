------------------------------ MODULE Dispatch ------------------------------
(***************************************************************************)
(* Execution requests of one work item, which is bound to one issue and so *)
(* to one DevLoop id.  A dispatcher claims a request under a lease         *)
(* (Dispatcher.dispatch_once), hands it to the issue's loop with           *)
(* Update-with-Start, and fulfils it, which attaches an execution to the   *)
(* item; the run that took the request binds that execution, works under   *)
(* it and ends it (DevLoopWorkflow).  The intake poller starts runs of the *)
(* same id that attach an execution of their own.                          *)
(*                                                                         *)
(* A dispatcher is one dispatch in progress: the worker's loop, another    *)
(* replica of it, or `dispatch-once` of the CLI.                           *)
(***************************************************************************)
EXTENDS Naturals, FiniteSets

CONSTANTS
    Starts,         \* the requests that ask for a first run
    Resumes,        \* and those that ask for a continuation
    Pinned,         \* the resumes that name an intent
    Dispatchers,
    None,
    LateGiveUp,     \* whether a run gives up at any time
    MaxOverruns,    \* bound: leases that run out under a dispatch at work
    MaxFaults       \* bound: crashes, lost answers, overlaps, terminated and restarted runs

Requests == Starts \cup Resumes

ASSUME RequestsAreKinds ==
    /\ Starts \cap Resumes = {} /\ Pinned \subseteq Resumes
    /\ None \notin Requests \cup Dispatchers \cup {"run"}
    /\ "run" \notin Requests
    /\ LateGiveUp \in BOOLEAN /\ MaxOverruns \in Nat /\ MaxFaults \in Nat

VARIABLES
    req,    \* mctl-api: each request with the holder of its claim
    exec,   \* mctl-api: the executions of the item, by engine ref
    loop,   \* Temporal: the latest run of the issue's loop
    disp,   \* each dispatcher
    ran,    \* the requests that some run has worked for
    late,   \* and those delivered by a dispatch that had lost its lease
    faults

vars == <<req, exec, loop, disp, ran, late, faults>>

\* The engine refs of the item: one of each request (`<loop>#xr_...`), and
\* that of the intake's latest run (`<loop>#run_...`).
Refs == Requests \cup {"run"}

Idle == [pc |-> "idle", r |-> None, ref |-> None]

NoRun == [st |-> "absent", own |-> None, took |-> {}, at |-> "bind", past |-> FALSE,
          fails |-> FALSE, open |-> None, bound |-> FALSE]

Init ==
    /\ req = [r \in Requests |-> [st |-> "unasked", by |-> None, live |-> FALSE, moved |-> FALSE]]
    /\ exec = [x \in Refs |-> "none"]
    /\ loop = NoRun
    /\ disp = [d \in Dispatchers |-> Idle]
    /\ ran = {}
    /\ late = {}
    /\ faults = [overruns |-> 0, others |-> 0]

Fault == /\ faults.others < MaxFaults
         /\ faults' = [faults EXCEPT !.others = @ + 1]

Overrun == /\ faults.overruns < MaxOverruns
           /\ faults' = [faults EXCEPT !.overruns = @ + 1]

Active == {x \in Refs : exec[x] = "open"}

Goes(d, pc) == disp' = [disp EXCEPT ![d].pc = pc]
Stops(d) == disp' = [disp EXCEPT ![d] = Idle]

\* What was read before the delivery is not used after it.
ToDelivery(d) == disp' = [disp EXCEPT ![d].pc = "deliver", ![d].ref = None]

-------------------------------------------------------------------------------
(* mctl-api.                                                               *)

\* A surface asks; a busy item takes no new request.
Asks(r) ==
    /\ req[r].st = "unasked" /\ Active = {}
    /\ req' = [req EXCEPT ![r].st = "pending"]
    /\ UNCHANGED <<exec, loop, disp, ran, late, faults>>

Holds(d) == LET q == req[disp[d].r] IN q.st = "claimed" /\ q.by = d /\ q.live

Claimable(r) == req[r].st = "pending" \/ (req[r].st = "claimed" /\ ~req[r].live)

LeaseEnds(r) == req' = [req EXCEPT ![r].live = FALSE] /\ UNCHANGED <<exec, loop, disp, ran, late>>

Live(r) == req[r].st = "claimed" /\ req[r].live

\* The holder has left the request, or died.
Lapses(r) ==
    /\ Live(r) /\ disp[req[r].by].r # r
    /\ LeaseEnds(r)
    /\ UNCHANGED faults

\* The calls of a dispatch take longer than its lease, and nothing looks at the
\* lease before the delivery.
Overruns(r) ==
    /\ Live(r) /\ disp[req[r].by].r = r /\ Overrun
    /\ LeaseEnds(r)

\* What a fulfilment is refused with, given the claim (the store's codes).
Refusals(r) ==
    (IF req[r].moved \/ (r \in Starts /\ \E x \in Refs : exec[x] = "ended")
     THEN {"state_version_conflict"} ELSE {})
    \cup (IF Active # {} THEN {"execution_active"} ELSE {})

\* attach_execution with a terminal phase: a no-op on an ended one.
Ended(x) == [exec EXCEPT ![x] = IF @ = "open" THEN "ended" ELSE @]

-------------------------------------------------------------------------------
(* The dispatcher (dispatch_once).                                         *)

NobodyDispatches == \A d \in Dispatchers : disp[d] = Idle

\* There is one dispatcher: a second dispatch next to it is an accident, unless it is
\* of a request whose lease ran out under the first.  It does not matter which is idle.
Claims(r) ==
    /\ Claimable(r)
    /\ IF \A d \in Dispatchers : disp[d] = Idle \/ disp[d].r = r
       THEN UNCHANGED faults ELSE Fault
    /\ \E d \in Dispatchers : disp[d] = Idle
    /\ LET d == CHOOSE d \in Dispatchers : disp[d] = Idle IN
          /\ req' = [req EXCEPT ![r].st = "claimed", ![r].by = d, ![r].live = TRUE]
          /\ disp' = [disp EXCEPT ![d] = [pc |-> "claimed", r |-> r, ref |-> None]]
    /\ UNCHANGED <<exec, loop, ran, late>>

\* The answer of the claim says that the text of the intent is gone.
IntentIsGone(d) ==
    /\ disp[d].pc = "claimed" /\ disp[d].r \in Pinned
    /\ Goes(d, "reject")
    /\ UNCHANGED <<req, exec, loop, ran, late, faults>>

\* get of the item: the open execution of another ref has to be judged first.
Reads(d) ==
    /\ disp[d].pc = "claimed"
    /\ \/ /\ Active \subseteq {disp[d].r}
          /\ Goes(d, "deliver")
       \/ \E x \in Active \ {disp[d].r} :
             disp' = [disp EXCEPT ![d].pc = "judge", ![d].ref = x]
    /\ UNCHANGED <<req, exec, loop, ran, late, faults>>

\* holds_execution_request, asked of a run.
HoldsRequest(r) == r \in loop.took

\* A mutation: the intake's run is asked for a request it never took.
IsGoneUnlessTaken(x) == loop.st # "running" \/ ~HoldsRequest(x)

\* _reconcile_closed_loops: no run is left that will end the execution.
IsGone(x) ==
    IF x \notin Requests THEN loop.st # "running"
    ELSE loop.st # "running" \/ ~HoldsRequest(x)

\* A mutation: what a closed loop left open is not looked at.
JudgesNothing(d) ==
    /\ disp[d].pc = "judge"
    /\ ToDelivery(d)
    /\ UNCHANGED <<req, exec, loop, ran, late, faults>>

Judges(d) ==
    /\ disp[d].pc = "judge"
    /\ IF IsGone(disp[d].ref) THEN Goes(d, "fail") ELSE ToDelivery(d)
    /\ UNCHANGED <<req, exec, loop, ran, late, faults>>

FailsStranded(d) ==
    /\ disp[d].pc = "fail"
    /\ ToDelivery(d)
    /\ exec' = IF disp[d].ref = None THEN exec ELSE Ended(disp[d].ref)
    /\ UNCHANGED <<req, loop, ran, late, faults>>

NewRun(r) == [NoRun EXCEPT !.st = "running", !.own = r, !.took = {r} \ {None}]

\* The validator of accept_execution_request.
Verdicts(r) ==
    IF loop.st # "running" \/ r \in loop.took THEN {"accepted"}
    ELSE IF r \in Starts THEN {"refused"}
    ELSE IF loop.at = "leaving" THEN {"deferred"}
    ELSE IF loop.open # None THEN {"refused"}
    ELSE IF loop.at = "gates" THEN {"refused", "deferred"}
    ELSE {"accepted"}

\* accept_execution_request, and the start that goes with it.
Accepted(r) ==
    IF loop.st # "running" THEN NewRun(r)
    ELSE IF r \in loop.took THEN loop
    ELSE [loop EXCEPT !.took = @ \cup {r}, !.open = r, !.bound = FALSE]

\* History: a delivery by a dispatch that does not hold its request any more.
Delivered(d) == late' = IF Holds(d) THEN late ELSE late \cup {disp[d].r}

Delivers(d) ==
    /\ disp[d].pc = "deliver"
    /\ \E v \in Verdicts(disp[d].r) :
          /\ loop' = IF v = "accepted" THEN Accepted(disp[d].r) ELSE loop
          /\ CASE v = "accepted" -> Goes(d, "check")
               [] v = "refused" -> Goes(d, "reject")
               [] OTHER -> Stops(d)
          /\ IF v = "accepted" THEN Delivered(d) ELSE UNCHANGED late
    /\ UNCHANGED <<req, exec, ran, faults>>

\* The update takes effect and does not answer in time.
DeliveryTimesOut(d) ==
    /\ disp[d].pc = "deliver" /\ Fault
    /\ "accepted" \in Verdicts(disp[d].r)
    /\ loop' = Accepted(disp[d].r)
    /\ Delivered(d)
    /\ Stops(d)
    /\ UNCHANGED <<req, exec, ran>>

\* _accepting_run_alive
Alive(r) == loop.st = "running" /\ HoldsRequest(r)

Checks(d) ==
    /\ disp[d].pc = "check"
    /\ IF Alive(disp[d].r) THEN Goes(d, "fulfil") ELSE Stops(d)
    /\ UNCHANGED <<req, exec, loop, ran, late, faults>>

\* The store's own transaction; a resume moves the item on.
Attached(r) ==
    /\ exec' = [exec EXCEPT ![r] = "open"]
    /\ req' = [s \in Requests |->
                  IF s = r THEN [req[s] EXCEPT !.st = "fulfilled"]
                  ELSE [req[s] EXCEPT !.moved = @ \/ (r \in Resumes /\ req[s].st # "unasked")]]

Fulfils(d) ==
    /\ disp[d].pc \in {"fulfil", "again"}
    /\ Holds(d) /\ Refusals(disp[d].r) = {}
    /\ Attached(disp[d].r)
    /\ Goes(d, "orphan")
    /\ UNCHANGED <<loop, ran, late, faults>>

\* Fenced, closed, or refused for good or for now; or the second request is
\* answered with what the first one did.
FulfilAnswered(d) ==
    /\ disp[d].pc \in {"fulfil", "again"}
    /\ LET r == disp[d].r IN
          IF req[r].st = "fulfilled" /\ req[r].by = d THEN Goes(d, "orphan")
          ELSE IF ~Holds(d) THEN Stops(d)
          ELSE /\ Refusals(r) # {}
               /\ IF "state_version_conflict" \in Refusals(r) THEN Goes(d, "reject") ELSE Stops(d)
    /\ UNCHANGED <<req, exec, loop, ran, late, faults>>

\* The answer is lost, whether the store acted or not: once more, then defer.
FulfilUnanswered(d) ==
    /\ disp[d].pc \in {"fulfil", "again"} /\ Fault
    /\ \/ /\ Holds(d) /\ Refusals(disp[d].r) = {}
          /\ Attached(disp[d].r)
       \/ UNCHANGED <<req, exec>>
    /\ IF disp[d].pc = "fulfil" THEN Goes(d, "again") ELSE Stops(d)
    /\ UNCHANGED <<loop, ran, late>>

\* _end_if_orphaned
Looks(d) ==
    /\ disp[d].pc = "orphan"
    /\ IF Alive(disp[d].r) THEN Stops(d) ELSE Goes(d, "end")
    /\ UNCHANGED <<req, exec, loop, ran, late, faults>>

EndsOrphan(d) ==
    /\ disp[d].pc = "end"
    /\ exec' = Ended(disp[d].r)
    /\ Stops(d)
    /\ UNCHANGED <<req, loop, ran, late, faults>>

\* _reject
Rejects(d) ==
    /\ disp[d].pc = "reject"
    /\ req' = IF Holds(d) THEN [req EXCEPT ![disp[d].r].st = "rejected"] ELSE req
    /\ Stops(d)
    /\ UNCHANGED <<exec, loop, ran, late, faults>>

\* The store or Temporal does not answer, the query of the run does not, or
\* the process dies: the dispatch is left where it is.  What is asked before
\* the delivery and before the fulfilment is then not done at all.
Defers(d) ==
    /\ disp[d] # Idle /\ Fault
    /\ \/ Stops(d)
       \/ disp[d].pc \in {"judge", "fail"} /\ ToDelivery(d)
       \/ disp[d].pc = "check" /\ loop.st = "running" /\ Goes(d, "fulfil")
    /\ UNCHANGED <<req, exec, loop, ran, late>>

-------------------------------------------------------------------------------
(* The runs of the issue's loop (DevLoopWorkflow).                         *)

Run(r) == loop' = r /\ UNCHANGED <<req, disp>>

\* start_dev_loop_workflow: a first run, or one after a failed run.
PollerStarts ==
    /\ loop.st \in {"absent", "failed"}
    /\ Run(NewRun(None))
    /\ UNCHANGED <<exec, ran, late, faults>>

\* restart_if_restartable: one after a run that ended before its implementer.
OperatorRestarts ==
    /\ loop.st = "ended" /\ Fault
    /\ Run(NewRun(None))
    /\ UNCHANGED <<exec, ran, late>>

\* The execution that the run works under.
OwnRef == IF loop.own = None THEN "run" ELSE loop.own

\* A run in a final state; where it was is not asked for any more.
Closed(l, st) == [l EXCEPT !.st = st, !.at = "leaving", !.past = FALSE, !.fails = FALSE,
                           !.open = None, !.bound = FALSE]

(***************************************************************************)
(* A run that is through closes as soon as its deliveries are settled; how *)
(* it closed decides who may start the next one.                           *)
(***************************************************************************)
Leaving(l) ==
    IF l.open # None THEN [l EXCEPT !.at = "leaving"]
    ELSE Closed(l, IF l.fails THEN "failed" ELSE IF l.past THEN "completed" ELSE "ended")

Refused == Run(Leaving([loop EXCEPT !.fails = TRUE]))

Settled(l) ==
    LET none == [l EXCEPT !.open = None, !.bound = FALSE]
    IN  IF l.at = "leaving" THEN Leaving(none) ELSE none

\* A mutation: the run does not wait for its fulfilment.
BindsUnfulfilled ==
    /\ loop.st = "running" /\ loop.at = "bind" /\ loop.own # None
    /\ Run([loop EXCEPT !.at = "work"])
    /\ ran' = ran \cup {loop.own}
    /\ UNCHANGED <<exec, late, faults>>

\* _bind_dispatched_execution: it works under an execution that the store
\* takes to Running, and never under one that has ended.
Binds ==
    /\ loop.st = "running" /\ loop.at = "bind" /\ loop.own # None
    /\ \/ /\ req[loop.own].st = "fulfilled" /\ exec[loop.own] = "open"
          /\ Run([loop EXCEPT !.at = "work"])
          /\ ran' = ran \cup {loop.own}
       \/ /\ req[loop.own].st = "rejected" \/ exec[loop.own] = "ended"
          /\ Refused
          /\ UNCHANGED ran
    /\ UNCHANGED <<exec, late, faults>>

\* A wait for the fulfilment that runs out under the dispatcher's hands, or
\* between two polls of the store, is rare: it counts as a fault.
WaitEnds(r) ==
    IF LateGiveUp \/ (req[r].st # "fulfilled" /\ NobodyDispatches)
    THEN UNCHANGED faults ELSE Fault

\* Its FULFILMENT_WAIT runs out.
GivesUp ==
    /\ loop.st = "running" /\ loop.at = "bind" /\ loop.own # None
    /\ WaitEnds(loop.own)
    /\ Refused
    /\ UNCHANGED <<exec, ran, late>>

\* ensure_issue_execution: the execution of a dead run of the intake makes
\* room, every other one does not.  The attached ref is new: what a dispatcher
\* read as the ref of the dead run (None from here on) has ended.
Ensures ==
    /\ loop.st = "running" /\ loop.at = "bind" /\ loop.own = None
    /\ IF Active \subseteq {"run"}
       THEN /\ exec' = [exec EXCEPT !["run"] = "open"]
            /\ loop' = [loop EXCEPT !.at = "work"]
            /\ disp' = [d \in Dispatchers |->
                           IF disp[d].ref = "run" THEN [disp[d] EXCEPT !.ref = None] ELSE disp[d]]
            /\ UNCHANGED req
       ELSE Refused /\ UNCHANGED exec
    /\ UNCHANGED <<ran, late, faults>>

\* The approve flip (_end_canonical_execution).
Flips ==
    /\ loop.st = "running" /\ loop.at = "work"
    /\ Run([loop EXCEPT !.at = "gates", !.past = TRUE])
    /\ exec' = Ended(OwnRef)
    /\ UNCHANGED <<ran, late, faults>>

\* run: what is still open ends with it, then the deliveries are settled.
Leaves ==
    /\ loop.st = "running" /\ loop.at \in {"work", "gates"}
    /\ Run(Leaving(loop))
    /\ exec' = Ended(OwnRef)
    /\ UNCHANGED <<ran, late, faults>>

\* The store does not take the end of the execution; the flip tries again
\* when the run leaves.
EndIsLost ==
    /\ loop.st = "running" /\ Fault
    /\ \/ loop.at = "work" /\ Run([loop EXCEPT !.at = "gates", !.past = TRUE])
       \/ loop.at \in {"work", "gates"} /\ Run(Leaving(loop))
       \/ loop.at = "leaving" /\ loop.bound /\ Run(Settled(loop))
    /\ UNCHANGED <<exec, ran, late>>

\* _deliver binds a resume taken by a running loop.
DeliveryBinds ==
    /\ loop.st = "running" /\ loop.open # None /\ ~loop.bound
    /\ \/ /\ req[loop.open].st = "fulfilled" /\ exec[loop.open] = "open"
          /\ Run([loop EXCEPT !.bound = TRUE])
       \/ /\ req[loop.open].st = "rejected" \/ exec[loop.open] = "ended"
          /\ Run(Settled(loop))
    /\ UNCHANGED <<exec, ran, late, faults>>

\* And ends it with the decision, or with the run (_land_delivery).
DeliveryLands ==
    /\ loop.st = "running" /\ loop.bound /\ loop.at \in {"gates", "leaving"}
    /\ Run(Settled(loop))
    /\ exec' = Ended(loop.open)
    /\ UNCHANGED <<ran, late, faults>>

\* DELIVERY_EXIT_GRACE runs out without a fulfilment.
DeliveryIsDropped ==
    /\ loop.st = "running" /\ loop.at = "leaving" /\ loop.open # None /\ ~loop.bound
    /\ WaitEnds(loop.open)
    /\ Run(Settled(loop))
    /\ UNCHANGED <<exec, ran, late>>

\* Terminated: no code of the run ends what it held.
Dies ==
    /\ loop.st = "running" /\ Fault
    /\ Run(Closed(loop, "failed"))
    /\ UNCHANGED <<exec, ran, late>>

-------------------------------------------------------------------------------
DispatchActs(d) ==
    \/ IntentIsGone(d) \/ Reads(d) \/ Judges(d) \/ FailsStranded(d) \/ Delivers(d)
    \/ Checks(d) \/ Fulfils(d) \/ FulfilAnswered(d) \/ Looks(d) \/ EndsOrphan(d) \/ Rejects(d)

RunActs ==
    \/ Binds \/ GivesUp \/ Ensures \/ Flips \/ Leaves
    \/ DeliveryBinds \/ DeliveryLands \/ DeliveryIsDropped

Next ==
    \/ \E r \in Requests : Asks(r) \/ Lapses(r) \/ Overruns(r) \/ Claims(r)
    \/ \E d \in Dispatchers :
          DispatchActs(d) \/ DeliveryTimesOut(d) \/ FulfilUnanswered(d) \/ Defers(d)
    \/ RunActs \/ EndIsLost \/ Dies \/ PollerStarts \/ OperatorRestarts

Spec == Init /\ [][Next]_vars

(***************************************************************************)
(* A dispatcher runs again and again: its steps end, every request's lease *)
(* runs out in the end and every claimable request is claimed in the end   *)
(* (a tick takes several).  A dispatch meets a run that is still alive, and*)
(* an idle item, if they are there again and again: a run waits thirty     *)
(* minutes, a lease is two.  A run ends: its parks are bounded.            *)
(***************************************************************************)
Fairness ==
    /\ WF_vars(\E r \in Requests : Lapses(r))
    /\ \A r \in Requests : SF_vars(Claims(r))
    /\ \A d \in Dispatchers : WF_vars(DispatchActs(d))
    /\ SF_vars(\E d \in Dispatchers : Checks(d) /\ Alive(disp[d].r))
    /\ SF_vars(\E d \in Dispatchers : Fulfils(d))
    /\ WF_vars(RunActs) /\ SF_vars(GivesUp \/ DeliveryIsDropped)

FairSpec == Spec /\ Fairness

-------------------------------------------------------------------------------
(* Properties.                                                             *)

RequestStates == [st : {"unasked", "pending", "claimed", "fulfilled", "rejected"},
                  by : Dispatchers \cup {None}, live : BOOLEAN, moved : BOOLEAN]
LoopStates    == [st : {"absent", "running", "failed", "ended", "completed"},
                  own : Requests \cup {None}, took : SUBSET Requests,
                  at : {"bind", "work", "gates", "leaving"}, past : BOOLEAN, fails : BOOLEAN,
                  open : Resumes \cup {None}, bound : BOOLEAN]
EarlyPCs      == {"claimed", "judge", "fail", "deliver"}
DispatchPCs   == EarlyPCs \cup {"check", "fulfil", "again", "orphan", "end", "reject"}
Dispatches    == [pc : DispatchPCs, r : Requests, ref : Refs \cup {None}]
Counts        == [overruns : 0..MaxOverruns, others : 0..MaxFaults]

TypeOK ==
    /\ req \in [Requests -> RequestStates]
    /\ exec \in [Refs -> {"none", "open", "ended"}]
    /\ loop \in LoopStates
    /\ disp \in [Dispatchers -> Dispatches \cup {Idle}]
    /\ ran \subseteq Requests /\ late \subseteq Requests
    /\ faults \in Counts

\* The item has at most one execution that has not ended, and a request has an
\* execution if it is fulfilled and not otherwise.
OneIsOpen ==
    /\ Cardinality(Active) <= 1
    /\ \A r \in Requests : exec[r] # "none" <=> req[r].st = "fulfilled"

\* While a run works, the execution it works under is open: no dispatcher
\* takes it for the execution of a loop that is gone, whatever it read
\* before and whatever runs followed each other under the one id
\* (_reconcile_closed_loops, _end_if_orphaned).  The one exception is a request
\* that was delivered by a dispatch that had lost its lease: nothing looks at
\* the lease between the claim and the delivery.
WorkedIsOpen ==
    loop.st = "running" /\ loop.at = "work" => exec[OwnRef] = "open" \/ OwnRef \in late

\* A run that works for a request is the first that does, although any closed
\* run may be followed by a new one and a delivery may be repeated, unless the
\* request was delivered by a dispatch that had lost its lease.
FirstWork(r) == loop.at = "bind" /\ loop'.at = "work" /\ loop'.own = r => r \notin ran

RunsOnce == [][\A r \in Requests \ late : FirstWork(r)]_vars

\* "It cannot run one request twice" (start.py:36-41), which is what the code
\* says of every request, and not so for one that was delivered late.
NeverRunsTwice == [][\A r \in Requests : FirstWork(r)]_vars

\* Every request is fulfilled or rejected in the end, whatever the loop was
\* doing when it came, whichever dispatch died over it, and although a
\* terminated run left the item busy, also when a later run of the same id
\* hides that (_reconcile_closed_loops).
RequestsEnd ==
    \A r \in Requests : req[r].st = "pending" ~> req[r].st \in {"fulfilled", "rejected"}

\* The execution of every fulfilled request ends.
FulfilledEnds == \A r \in Requests : exec[r] = "open" ~> exec[r] = "ended"
===============================================================================

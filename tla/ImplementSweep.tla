--------------------------- MODULE ImplementSweep ---------------------------
(***************************************************************************)
(* The implement sweep: a tick every 15 minutes lists the live DevLoops,   *)
(* scans the status files for accepted proposals that nothing owns, reads  *)
(* how many of their swept runs were lost before they started, and starts  *)
(* a child workflow for as many as the cap allows                          *)
(* (implement_sweep.py, stranded.py, visibility.py).  A child, and a       *)
(* DevLoop's own implement step, is one submit_and_wait (argo.py): a POST  *)
(* that creates an Argo workflow and polls until it ends, retried by       *)
(* Temporal from its last heartbeat.  The Argo workflow runs the           *)
(* implementer, which writes the status file.                              *)
(***************************************************************************)
EXTENDS Naturals, Sequences, FiniteSets, SequencesExt

CONSTANTS
    Slugs,         \* the proposals, in tree order
    LoopSlugs,     \* those that come from an issue and may have a DevLoop
    MaxSubmits,    \* IMPLEMENT_SWEEP_MAX_SUBMITS
    MaxPrestart,   \* MAX_SWEEP_PRESTART_ATTEMPTS
    Window,        \* _MAX_EXAMINED_PER_ID
    MaxRequeues,   \* MAX_PRESTART_REQUEUES of a DevLoop
    MaxTries,      \* attempts of the submit_and_wait activity
    MaxLoops,      \* DevLoops started for one proposal
    MaxTroubles,   \* faults, people's changes and runs without effect, all together
    Barren         \* proposals whose runs may quit without effect time and again

ASSUME SizesAreNumbers ==
    /\ {MaxSubmits, MaxPrestart, Window, MaxTries} \subseteq Nat \ {0}
    /\ {MaxRequeues, MaxLoops, MaxTroubles} \subseteq Nat
    /\ MaxPrestart < Window
ASSUME SlugsInOrder ==
    /\ Slugs \in Seq(ToSet(Slugs)) /\ IsInjective(Slugs)
    /\ LoopSlugs \cup Barren \subseteq ToSet(Slugs)

VARIABLES
    file,      \* proposal -> what .status.yaml says
    loop,      \* proposal -> its DevLoop
    act,       \* proposal, submitter -> the submit_and_wait activity
    run,       \* proposal, submitter -> the Argo workflow it created
    failed,    \* proposal -> the last failed executions of its child, newest first
    tick,      \* the sweep
    troubles

sweepVars == <<file, loop, act, run, failed, tick, troubles>>

Proposals == ToSet(Slugs)
Submitters == {"loop", "sweep"}
Places == Submitters \cup {"stray"}      \* a stray run is one that nobody polls

Files == [st : {"proposed", "accepted", "in-progress", "implemented", "needs-triage"},
          pr : BOOLEAN,       \* does it carry a `pr:`?
          lease : BOOLEAN,    \* is attempt.expires_at in the future?
          recent : BOOLEAN,   \* was it updated within the grace period?
          held : BOOLEAN,     \* blocked, or unrunnable as written
          auth : BOOLEAN]     \* does it record who approved, and the grant?
Loops == [at : {"off", "gate", "flipped", "implement", "watch"},
          listed : BOOLEAN,   \* has Temporal's visibility store caught up?
          requeues : 0..MaxRequeues, starts : 0..MaxLoops]
Acts == [at : {"off", "post", "poll"}, ran : {"unknown", "no", "yes"},
         tries : 0..(MaxTries - 1)]

\* An Argo workflow: waiting for the mutex or for a node, its implementer pod up,
\* at work under its lease; over and done, or over and lost before the pod
\* started, with a failed pod, or with a pod that succeeded and a failed wrap-up.
Unfinished == {"waiting", "up", "working"}
Over == {"done", "lost", "failed", "unsaved"}
Runs == {"none"} \cup Unfinished \cup Over

Idle == [at |-> "idle", ids |-> {}, left |-> {}, spent |-> {}, sent |-> 0, owned |-> {}]

\* Of the proposals that no issue asked for some are approved already.
SweepInit ==
    /\ \E approved \in SUBSET (Proposals \ LoopSlugs) :
       file = [s \in Proposals |->
                 [st |-> IF s \in LoopSlugs THEN "proposed" ELSE "accepted",
                  pr |-> FALSE, lease |-> FALSE, recent |-> FALSE,
                  held |-> FALSE, auth |-> s \in approved]]
    /\ loop = [s \in Proposals |-> [at |-> "off", listed |-> FALSE,
                                    requeues |-> 0, starts |-> 0]]
    /\ act = [s \in Proposals |-> [x \in Submitters |->
                [at |-> "off", ran |-> "unknown", tries |-> 0]]]
    /\ run = [s \in Proposals |-> [x \in Places |-> "none"]]
    /\ failed = [s \in Proposals |-> <<>>]
    /\ tick = Idle
    /\ troubles = 0

Trouble == troubles < MaxTroubles /\ troubles' = troubles + 1

-------------------------------------------------------------------------------
(* The scan, and the budget of the runs that were lost before they started *)

\* Mutant: a proposal written just now counts as stranded.
IsStrandedAtOnce(f) == f.st = "accepted" /\ ~f.pr /\ ~f.lease /\ ~f.held /\ f.auth

\* What is left of an accepted proposal for a sweep to do: nothing if it has a
\* request, a lease, a marker, no authorization, or was written just now.
IsStranded(f) ==
    /\ f.st = "accepted"
    /\ ~f.pr /\ ~f.lease /\ ~f.held
    /\ f.auth
    /\ ~f.recent

Found(ids) == {s \in Proposals : IsStranded(file[s]) /\ s \notin ids}

Losses(s) == Cardinality({i \in DOMAIN failed[s] : failed[s][i] = "pre_start"})

IsLive(s) == loop[s].at # "off"

\* list_active_dev_loop_ids: the running loops the visibility store knows of.
\* owned is what really is the case, for the properties.
ReadActive ==
    /\ tick.at = "idle"
    /\ tick' = [tick EXCEPT !.at = "scan",
                  !.ids = {s \in Proposals : IsLive(s) /\ loop[s].listed},
                  !.owned = {s \in Proposals : IsLive(s) /\ loop[s].at # "gate"}]
    /\ UNCHANGED <<file, loop, act, run, failed, troubles>>

Scan ==
    /\ tick.at = "scan"
    /\ LET found == Found(tick.ids) IN
       tick' = IF found = {} THEN Idle
               ELSE [tick EXCEPT !.at = "count", !.left = found, !.ids = {},
                                 !.owned = @ \cap found]
    /\ UNCHANGED <<file, loop, act, run, failed, troubles>>

\* count_swept_prestart_failures, one query for all of them.
Count ==
    /\ tick.at = "count"
    /\ tick' = [tick EXCEPT !.at = "start",
                  !.spent = {s \in tick.left : Losses(s) >= MaxPrestart}]
    /\ UNCHANGED <<file, loop, act, run, failed, troubles>>

\* Any of the three fails: the tick submits nothing.
TickSkipped ==
    /\ tick.at \in {"idle", "scan", "count"}
    /\ Trouble
    /\ tick' = Idle
    /\ UNCHANGED <<file, loop, act, run, failed>>

\* Mutant: the budget is not looked at.
TakesAgain(s) == tick.sent < MaxSubmits /\ act[s]["sweep"].at = "off"

\* The next candidate: passed over when its budget is spent, when the cap is
\* reached, and when its child is still running (WorkflowAlreadyStartedError).
Takes(s) ==
    /\ s \notin tick.spent
    /\ tick.sent < MaxSubmits
    /\ act[s]["sweep"].at = "off"

\* The candidates come in tree order.
IsNext(s) ==
    /\ tick.at = "start" /\ s \in tick.left
    /\ \A i, j \in DOMAIN Slugs : Slugs[i] = s /\ Slugs[j] \in tick.left => i <= j

AfterThis(t, s) == IF t.left = {s} THEN Idle
                   ELSE [t EXCEPT !.left = @ \ {s}, !.spent = @ \ {s}, !.owned = @ \ {s}]

StartChild ==
    \E s \in Proposals :
       /\ IsNext(s) /\ Takes(s)
       /\ act' = [act EXCEPT ![s]["sweep"].at = "post"]
       /\ tick' = AfterThis([tick EXCEPT !.sent = @ + 1], s)
       /\ UNCHANGED <<file, loop, run, failed, troubles>>

\* Mutant: a candidate that is passed over takes a turn of the cap.
PassOverCounted ==
    \E s \in Proposals :
       /\ IsNext(s) /\ ~Takes(s)
       /\ tick' = AfterThis([tick EXCEPT !.sent = IF @ < MaxSubmits THEN @ + 1 ELSE @], s)
       /\ UNCHANGED <<file, loop, act, run, failed, troubles>>

PassOver ==
    \E s \in Proposals :
       /\ IsNext(s) /\ ~Takes(s)
       /\ tick' = AfterThis(tick, s)
       /\ UNCHANGED <<file, loop, act, run, failed, troubles>>

-------------------------------------------------------------------------------
(* How an implementation ends for the one that submitted it                *)

NoAct == [at |-> "off", ran |-> "unknown", tries |-> 0]

\* classify(): the phase of the Argo workflow, and what was seen of the pod.
Outcome(end, ran) ==
    CASE end = "done"                     -> "success"
      [] end # "done" /\ ran = "no"       -> "pre_start"
      [] end = "unsaved" /\ ran = "yes"   -> "finalization"
      [] OTHER                            -> "execution"

\* The child fails with the type of its outcome; the visibility store keeps it.
ChildEnds(s, outcome) ==
    /\ failed' = IF outcome = "success" THEN failed
                 ELSE [failed EXCEPT ![s] =
                         SubSeq(<<IF outcome = "pre_start" THEN "pre_start" ELSE "other">> \o @,
                                1, IF Len(@) < Window THEN Len(@) + 1 ELSE Window)]
    /\ act' = [act EXCEPT ![s]["sweep"] = NoAct]
    /\ UNCHANGED <<loop, tick>>

\* The end of a DevLoop; what a tick knows of it from before no longer matters.
LoopOff(s) ==
    /\ loop' = [loop EXCEPT ![s] = [@ EXCEPT !.at = "off", !.listed = FALSE, !.requeues = 0]]
    /\ tick' = [tick EXCEPT !.owned = @ \ {s}]

\* DevLoopWorkflow._implement: a run that was lost before it started is asked
\* for again, a few times; any other failure fails the loop.
LoopRunEnds(s, outcome) ==
    /\ UNCHANGED failed
    /\ \/ /\ outcome = "pre_start" /\ loop[s].requeues < MaxRequeues
          /\ loop' = [loop EXCEPT ![s].requeues = @ + 1]
          /\ act' = [act EXCEPT ![s]["loop"] = [NoAct EXCEPT !.at = "post"]]
          /\ UNCHANGED tick
       \/ /\ outcome = "success"
          /\ loop' = [loop EXCEPT ![s].at = "watch"]
          /\ act' = [act EXCEPT ![s]["loop"] = NoAct]
          /\ UNCHANGED tick
       \/ /\ outcome # "success"
          /\ outcome = "pre_start" => loop[s].requeues = MaxRequeues
          /\ LoopOff(s)
          /\ act' = [act EXCEPT ![s]["loop"] = NoAct]

SubmitterEnds(s, x, outcome) ==
    IF x = "sweep" THEN ChildEnds(s, outcome) ELSE LoopRunEnds(s, outcome)

-------------------------------------------------------------------------------
(* submit_and_wait                                                         *)

Retries(s, x) == act[s][x].tries + 1 < MaxTries

\* The attempt is over, and the next one starts where its heartbeat left it: at
\* the POST without a name, at the poll with one.  Of what was observed only
\* that the pod ran survives.
RetryAt(s, x, at) ==
    /\ act' = [act EXCEPT ![s][x] = [at |-> at, tries |-> @.tries + 1,
                 ran |-> IF @.ran = "yes" /\ at = "poll" THEN "yes" ELSE "unknown"]]
    /\ UNCHANGED <<loop, failed, tick>>

Posts(s, x) ==
    /\ act[s][x].at = "post"
    /\ act' = [act EXCEPT ![s][x].at = "poll"]
    /\ run' = [run EXCEPT ![s][x] = "waiting"]
    /\ UNCHANGED <<file, loop, failed, tick, troubles>>

\* The POST fails and created nothing.
PostFails(s, x) ==
    /\ act[s][x].at = "post"
    /\ Trouble
    /\ IF Retries(s, x) THEN RetryAt(s, x, "post") ELSE SubmitterEnds(s, x, "error")
    /\ UNCHANGED <<file, run>>

\* The worker dies between the POST and the heartbeat that records the name:
\* the next attempt posts again, and nobody polls what was created.
NameLost(s, x) ==
    /\ act[s][x].at = "post" /\ run[s]["stray"] = "none"
    /\ Trouble
    /\ run' = [run EXCEPT ![s]["stray"] = "waiting"]
    /\ IF Retries(s, x) THEN RetryAt(s, x, "post") ELSE SubmitterEnds(s, x, "error")
    /\ UNCHANGED file

\* The answer to the POST has no name in it: every further attempt refuses.
NameUnreadable(s, x) ==
    /\ act[s][x].at = "post" /\ run[s]["stray"] = "none"
    /\ Trouble
    /\ run' = [run EXCEPT ![s]["stray"] = "waiting"]
    /\ SubmitterEnds(s, x, "error")
    /\ UNCHANGED file

Seen(r) == IF r \in {"waiting", "lost"} THEN "no" ELSE "yes"

\* _merge_observations: once seen, a pod stays seen.
Merged(best, latest) == IF "yes" \in {best, latest} THEN "yes"
                        ELSE IF latest = "unknown" THEN best ELSE latest

\* A poll that finds the workflow unfinished.
Polls(s, x) ==
    /\ act[s][x].at = "poll" /\ run[s][x] \in Unfinished
    /\ act' = [act EXCEPT ![s][x].ran = Merged(@, Seen(run[s][x]))]
    /\ act' # act
    /\ UNCHANGED <<file, loop, run, failed, tick, troubles>>

\* More than MAX_CONSECUTIVE_POLL_ERRORS, or the worker is gone.
PollsFail(s, x) ==
    /\ act[s][x].at = "poll"
    /\ Trouble
    /\ \/ /\ Retries(s, x)
          /\ RetryAt(s, x, "poll")
          /\ UNCHANGED run
       \/ /\ ~Retries(s, x) /\ run[s]["stray"] = "none"
          /\ SubmitterEnds(s, x, "error")
          /\ run' = [run EXCEPT ![s][x] = "none", ![s]["stray"] = run[s][x]]
    /\ UNCHANGED file

\* A poll that finds it over; the nodes of a finished workflow may be gone.
Returns(s, x) ==
    /\ act[s][x].at = "poll" /\ run[s][x] \in Over
    /\ \E latest \in {Seen(run[s][x]), "unknown"} :
          /\ IF latest = "unknown" THEN Trouble ELSE UNCHANGED troubles
          /\ SubmitterEnds(s, x, Outcome(run[s][x], Merged(act[s][x].ran, latest)))
    /\ run' = [run EXCEPT ![s][x] = "none"]
    /\ UNCHANGED file

-------------------------------------------------------------------------------
(* The Argo workflow and its implementer                                   *)

RunGoes(s, x, to) == run' = [run EXCEPT ![s][x] = IF x = "stray" /\ to \in Over
                                                  THEN "none" ELSE to]
Writes(s, f) == file' = [file EXCEPT ![s] = f]

PodStarts(s, x) ==
    /\ run[s][x] = "waiting"
    /\ RunGoes(s, x, "up")
    /\ UNCHANGED <<file, loop, act, failed, tick, troubles>>

\* Killed at a deadline while it waits for the mutex or for a node.
LostBeforeStart(s, x) ==
    /\ run[s][x] = "waiting"
    /\ RunGoes(s, x, "lost")
    /\ UNCHANGED <<file, loop, act, failed, tick, troubles>>

\* The pod takes an accepted proposal up, and writes its lease.
Stamps(s, x) ==
    /\ run[s][x] = "up"
    /\ file[s].st = "accepted" /\ ~file[s].lease /\ ~file[s].held
    /\ RunGoes(s, x, "working")
    /\ Writes(s, [file[s] EXCEPT !.st = "in-progress", !.lease = TRUE, !.recent = TRUE])
    /\ UNCHANGED <<loop, act, failed, tick, troubles>>

\* There is nothing for it to take up.
NothingToDo(s, x) ==
    /\ run[s][x] = "up"
    /\ file[s].st # "accepted" \/ file[s].lease \/ file[s].held
    /\ RunGoes(s, x, "done")
    /\ UNCHANGED <<file, loop, act, failed, tick, troubles>>

\* It gives up before the stamp: with a marker, or without a word.
Quits(s, x) ==
    /\ run[s][x] = "up"
    /\ RunGoes(s, x, "failed")
    /\ \/ /\ Trouble
          /\ Writes(s, [file[s] EXCEPT !.held = TRUE, !.recent = TRUE])
       \/ /\ IF s \in Barren THEN UNCHANGED troubles ELSE Trouble
          /\ UNCHANGED file
    /\ UNCHANGED <<loop, act, failed, tick>>

Implements(s, x) ==
    /\ run[s][x] = "working"
    /\ RunGoes(s, x, "done")
    /\ Writes(s, [file[s] EXCEPT !.st = "implemented", !.pr = TRUE, !.recent = TRUE])
    /\ UNCHANGED <<loop, act, failed, tick, troubles>>

\* Handed back to try again, or left for a person; or the wrap-up that saves the
\* file fails.
FallsShort(s, x) ==
    /\ run[s][x] = "working"
    /\ Trouble
    /\ \/ /\ RunGoes(s, x, "failed")
          /\ \E st \in {"accepted", "needs-triage"} :
                Writes(s, [file[s] EXCEPT !.st = st, !.recent = TRUE])
       \/ RunGoes(s, x, "unsaved") /\ UNCHANGED file
    /\ UNCHANGED <<loop, act, failed, tick>>

-------------------------------------------------------------------------------
(* The DevLoop, as far as it submits; people; the clock                    *)

LoopStarts(s) ==
    /\ s \in LoopSlugs /\ loop[s].at = "off" /\ loop[s].starts < MaxLoops
    /\ loop' = [loop EXCEPT ![s].at = "gate", ![s].starts = @ + 1]
    /\ UNCHANGED <<file, act, run, failed, tick, troubles>>

LoopIsListed(s) ==
    /\ IsLive(s) /\ ~loop[s].listed
    /\ loop' = [loop EXCEPT ![s].listed = TRUE]
    /\ UNCHANGED <<file, act, run, failed, tick, troubles>>

\* The approve flip, which writes who approved.
Flips(s) ==
    /\ loop[s].at = "gate" /\ file[s].st \in {"proposed", "accepted"}
    /\ loop' = [loop EXCEPT ![s].at = "flipped"]
    /\ Writes(s, [file[s] EXCEPT !.st = "accepted", !.auth = TRUE, !.recent = TRUE])
    /\ UNCHANGED <<act, run, failed, tick, troubles>>

LoopSubmits(s) ==
    /\ loop[s].at = "flipped"
    /\ loop' = [loop EXCEPT ![s].at = "implement"]
    /\ act' = [act EXCEPT ![s]["loop"].at = "post"]
    /\ UNCHANGED <<file, run, failed, tick, troubles>>

\* Refused or abandoned at a gate, or its watch is over.
LoopEnds(s) ==
    /\ loop[s].at \in {"gate", "flipped", "watch"}
    /\ LoopOff(s)
    /\ UNCHANGED <<file, act, run, failed, troubles>>

\* A person approves outside a loop, or takes a proposal up again.
Approves(s) ==
    /\ \/ file[s].st = "accepted" /\ ~file[s].auth
       \/ file[s].st = "needs-triage"
       \/ file[s].held
    /\ Trouble
    /\ Writes(s, [file[s] EXCEPT !.st = "accepted", !.auth = TRUE, !.held = FALSE,
                                 !.recent = TRUE])
    /\ UNCHANGED <<loop, act, run, failed, tick>>

\* The grace period outlasts the lag of the visibility store and the two reads.
MissedByTick(s) == IsLive(s) /\ (~loop[s].listed \/ (tick.at = "scan" /\ s \notin tick.ids))

GraceEnds(s) ==
    /\ file[s].recent /\ ~MissedByTick(s)
    /\ Writes(s, [file[s] EXCEPT !.recent = FALSE])
    /\ UNCHANGED <<loop, act, run, failed, tick, troubles>>

\* A working pod renews its lease.
LeaseEnds(s) ==
    /\ file[s].lease /\ \A x \in Places : run[s][x] # "working"
    /\ Writes(s, [file[s] EXCEPT !.lease = FALSE])
    /\ UNCHANGED <<loop, act, run, failed, tick, troubles>>

-------------------------------------------------------------------------------
Tick == ReadActive \/ Scan \/ Count \/ StartChild \/ PassOver

Activity(s, x) == Posts(s, x) \/ Returns(s, x)

Pod(s, x) == \/ PodStarts(s, x) \/ LostBeforeStart(s, x) \/ Stamps(s, x)
             \/ NothingToDo(s, x) \/ Quits(s, x) \/ Implements(s, x) \/ FallsShort(s, x)

SweepNext ==
    \/ Tick
    \/ TickSkipped
    \/ \E s \in Proposals :
          \/ \E x \in Submitters :
                \/ Activity(s, x)
                \/ Polls(s, x)
                \/ PostFails(s, x)
                \/ NameLost(s, x)
                \/ NameUnreadable(s, x)
                \/ PollsFail(s, x)
          \/ \E x \in Places : Pod(s, x)
          \/ LoopStarts(s)
          \/ LoopIsListed(s)
          \/ Flips(s)
          \/ LoopSubmits(s)
          \/ LoopEnds(s)
          \/ Approves(s)
          \/ GraceEnds(s)
          \/ LeaseEnds(s)

SweepSpec == SweepInit /\ [][SweepNext]_sweepVars

\* The schedule fires again, an activity and a pod go on, the clock ticks, the
\* visibility store catches up.  Nothing is assumed of people, nor of a loop
\* that waits for one.
FairSweepSpec ==
    /\ SweepSpec
    /\ WF_sweepVars(Tick)
    /\ \A s \in Proposals :
          /\ WF_sweepVars(\E x \in Submitters : Activity(s, x))
          /\ WF_sweepVars(\E x \in Places : Pod(s, x))
          /\ WF_sweepVars(LoopIsListed(s) \/ LoopSubmits(s) \/ GraceEnds(s) \/ LeaseEnds(s))

-------------------------------------------------------------------------------
(* Properties                                                              *)

SweepTypeOK ==
    /\ file \in [Proposals -> Files]
    /\ loop \in [Proposals -> Loops]
    /\ act \in [Proposals -> [Submitters -> Acts]]
    /\ run \in [Proposals -> [Places -> Runs]]
    /\ failed \in [Proposals -> Seq({"pre_start", "other"})]
    /\ \A s \in Proposals : Len(failed[s]) <= Window
    /\ tick \in [at : {"idle", "scan", "count", "start"}, ids : SUBSET Proposals,
                 left : SUBSET Proposals, spent : SUBSET Proposals, sent : 0..MaxSubmits,
                 owned : SUBSET Proposals]
    /\ troubles \in 0..MaxTroubles
    \* an activity that polls has a run, one that does not has none
    /\ \A s \in Proposals, x \in Submitters : (act[s][x].at = "poll") <=> (run[s][x] # "none")
    /\ \A s \in Proposals : (loop[s].at = "implement") <=> (act[s]["loop"].at # "off")

\* The sweep does not keep submitting a proposal whose runs are lost before they
\* start: among the runs it looks back on there are never more losses than the
\* budget and one more, that of a child which was lost between the count and the
\* start of the next.
LossesAreBounded == \A s \in Proposals : Losses(s) <= MaxPrestart + 1

\* A proposal that a DevLoop had flipped when the tick began, and whose loop has
\* run ever since, is not submitted by that tick: neither when the loop has not
\* come up in the listing yet, nor when it is between its flip and its submit.
LiveLoopIsLeft ==
    [][\A s \in Proposals :
          act[s]["sweep"].at = "off" /\ act'[s]["sweep"].at = "post" => s \notin tick.owned]_sweepVars

\* A proposal that is accepted and authorized, with nothing and nobody to take it
\* up, is swept one day, unless its budget is spent and a person has to look: no
\* proposal before it in the order of the tree takes its turn for ever.
IsLeftAlone(s) == IsStranded(file[s]) /\ ~IsLive(s) /\ act[s]["sweep"].at = "off"

StrandedIsSwept ==
    \A s \in Proposals : IsLeftAlone(s) ~> (~IsLeftAlone(s) \/ Losses(s) >= MaxPrestart)
=============================================================================

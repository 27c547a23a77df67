------------------------------ MODULE Ownership ------------------------------
(***************************************************************************)
(* One ownership row of mctl-api (a pull request under review), and those  *)
(* who write it: the merge watch of a DevLoop (dev_loop.py), the adoption  *)
(* of a pull request by the shepherd (pr_adoption.py), and the reconciler  *)
(* (activities/lifecycle_reconcile.py).  A call has its effect in one step *)
(* and its answer, or what is left of it, is read in a later one.          *)
(***************************************************************************)
EXTENDS OwnershipContract, FiniteSets, Sequences

CONSTANTS
    Loops,          \* workflow ids of DevLoops that watch this pull request
    Adopter,        \* the shepherd as an owner of its own
    Sweeps,         \* workflow ids of the reconciler's scheduled runs
    Rollout,        \* LIFECYCLE_ROLLOUT_MODE of the workers and the shepherd
    HeartbeatEvery, \* polls from one heartbeat to the next
    UnknownLimit,   \* unanswered writes before a loop backs off
    HeartbeatLimit, \* unanswered heartbeats before it gives its claim up
    BackoffPolls,   \* polls before a refused claim is tried again
    RefusalLimit,   \* refusals by one owner before it never asks again
    MaxTroubles,    \* bound on lost calls, lapses, restarts, adoptions, handoffs
    MaxHead         \* bound on pushes

ASSUME OwnersAssumption ==
    /\ NoOne \notin Loops \cup Sweeps \cup {Adopter}
    /\ Adopter \notin Loops \cup Sweeps
    /\ Loops \cap Sweeps = {}
ASSUME RolloutAssumption == Rollout \in {"off", "observe", "enforce", "only"}
ASSUME OwnershipLimits ==
    /\ {HeartbeatEvery, UnknownLimit, HeartbeatLimit, BackoffPolls, RefusalLimit}
          \subseteq Nat \ {0}
    /\ MaxTroubles \in Nat /\ MaxHead \in Nat \ {0}

VARIABLES
    row,     \* the row in the store
    pr,      \* the pull request: its state, its head, whether a proposal lists it
    loop,    \* workflow id -> the merge watch's fields
    call,    \* workflow id -> the answer on its way to the watch
    rec,     \* the reconciler's sweep
    shep,    \* the shepherd's adoption
    troubles \* how much has gone wrong so far

vars == <<row, pr, loop, call, rec, shep, troubles>>

Owners == Loops \cup Sweeps \cup {Adopter}
LoopPCs == {"poll", "acquiring", "progressing", "beat-due", "beating", "over",
            "closing", "leaving", "letting-go", "gone"}

Least(a, b) == IF a < b THEN a ELSE b

\* records_writes and computes_new_answer: off, the default, asks and writes nothing.
Recording == Rollout # "off"
\* new_answer_may_veto: below, what the reconciler decides is reported only.
MayVeto   == Rollout \in {"enforce", "only"}

-----------------------------------------------------------------------------
(* The store, external.  It is known by what its clients rely on: a row has *)
(* one owner; a write names owner and epoch and is refused if they are not  *)
(* the row's; acquire takes a free row or refreshes one's own; recover      *)
(* takes a dead one; every change of owner raises the epoch.                *)

Free == row.state \in {"none", "released"}
Held(who, epoch) == row.state = "active" /\ row.owner = who /\ row.epoch = epoch

Granted(op, who, epoch) ==
    CASE op = "acquire"  -> Free \/ (row.state = "active" /\ row.owner = who)
      [] op = "recover"  -> row.state \in HoldingStates /\ row.dead /\ row.epoch = epoch
      [] op = "complete" -> row.state = "handing-off" /\ row.epoch = epoch /\ row.target = who
      [] OTHER           -> Held(who, epoch)

NewGeneration(who, version) ==
    [owner |-> who, epoch |-> row.epoch + 1, state |-> "active", dead |-> FALSE,
     stuck |-> FALSE, target |-> NoOne, version |-> version]

After(op, who, version) ==
    CASE op = "acquire" /\ row.owner = who /\ row.state = "active" ->
            [row EXCEPT !.dead = FALSE, !.version = version]
      [] op = "progress" -> [row EXCEPT !.dead = FALSE, !.stuck = FALSE, !.version = version]
      [] op = "release"  -> [row EXCEPT !.state = "released", !.dead = FALSE, !.stuck = FALSE]
      [] op = "terminal" -> [row EXCEPT !.state = "terminal", !.dead = FALSE, !.stuck = FALSE]
      [] OTHER           -> NewGeneration(who, version)

Reply(after, resp) == [row |-> after, resp |-> resp, fault |-> 0]
Fault(after, resp) == [row |-> after, resp |-> resp, fault |-> 1]

\* A record in the answer may be as it was before the write cleared its flags.
Told(op, who, epoch, version) ==
    IF Granted(op, who, epoch)
    THEN LET after == After(op, who, version)
         IN {Reply(after, Response("2xx", after, FALSE, FALSE)),
             Reply(after, Response("2xx", [after EXCEPT !.dead = row.dead /\ row.owner = who],
                                   FALSE, FALSE))}
    ELSE {Reply(row, Response("409", row, FALSE, TRUE)),
          Reply(row, Response("other", NoRecord, FALSE, TRUE))}

\* Refused without saying by whom, lost, cut short, or told in a state that is
\* newer than the client.
Garbled(op, who, epoch, version) ==
    IF troubles = MaxTroubles THEN {}
    ELSE IF ~Granted(op, who, epoch)
    THEN {Fault(row, Response("409", NoRecord, FALSE, TRUE)),
          Fault(row, Response("other", NoRecord, TRUE, FALSE))}
    ELSE LET after == After(op, who, version)
         IN {Fault(row, Response("other", NoRecord, TRUE, FALSE)),
             Fault(after, Response("other", NoRecord, TRUE, FALSE)),
             Fault(after, Response("2xx", NoRecord, TRUE, FALSE)),
             Fault(after, Response("2xx", [after EXCEPT !.state = "newer"], FALSE, FALSE))}

\* With the rollout off a write is skipped and answers that it does not know.
Replies(op, who, epoch, version) ==
    IF Recording
    THEN Told(op, who, epoch, version) \cup Garbled(op, who, epoch, version)
    ELSE {Reply(row, Response("other", NoRecord, TRUE, FALSE))}

\* missing: the status of a read that finds no row, told as such.
Readings(missing) ==
    {Reply(row, Response(IF IsRecord(row) THEN "2xx" ELSE missing, row, FALSE, TRUE))}
    \cup (IF troubles = MaxTroubles THEN {}
          ELSE {Fault(row, Response("other", NoRecord, TRUE, FALSE))})

\* What a call leaves behind when r becomes of it.
Happens(r) == row' = r.row /\ troubles' = troubles + r.fault

-----------------------------------------------------------------------------
(* The merge watch's side of ownership (DevLoopWorkflow).                   *)

NoAnswer == AnswerFrom("read", Response("other", NoRecord, TRUE, FALSE), NoOne)

Fresh ==
    [pc |-> "poll", owned |-> FALSE, epoch |-> 0, head |-> 0, seen |-> 0,
     beat |-> 0, unAcq |-> 0, unPro |-> 0, unBeat |-> 0,
     refused |-> FALSE, wait |-> 0, by |-> NoOne, refusals |-> 0,
     over |-> FALSE]

\* No watch runs under this workflow id: whatever one knew is gone with it.
Gone == [Fresh EXCEPT !.pc = "gone"]

BeatDue(w) == w.beat = 0
\* Mutant: backed off is backed off.
BackedOffForGood(w, unanswered) == unanswered >= UnknownLimit

\* Even then one try in HeartbeatEvery polls is made.
BackedOff(w, unanswered) == unanswered >= UnknownLimit /\ ~BeatDue(w)

\* A refusal is forgotten for a re-test when its back-off is over, but not after
\* RefusalLimit of them by the same owner.
RefusalHolds(w) == w.refused /\ (w.refusals >= RefusalLimit \/ w.wait > 0)
GaveUp(w)       == w.refused /\ w.refusals >= RefusalLimit

Lost(l, a)  == a.verdict = "owned-by-other" /\ a.rec.owner \notin {NoOne, l}
Mine(a)     == a.verdict = "owned-by-me"
\* Accepted, in a state this image does not know.
Newer(a)    == a.accepted /\ a.verdict = "unknown" /\ IsRecord(a.rec)
\* Accepted, and nothing came with it.
Bare(a)     == a.accepted /\ a.verdict = "unknown" /\ ~IsRecord(a.rec)
SameType(a) == a.rec.owner \in Loops

Refused(w, owner) ==
    [w EXCEPT !.refused = TRUE, !.wait = BackoffPolls, !.by = owner,
              !.refusals = IF w.by = owner THEN Least(@ + 1, RefusalLimit) ELSE 1]

ForgetRefusal(w) == [w EXCEPT !.refused = FALSE, !.wait = 0, !.by = NoOne, !.refusals = 0]

DropClaim(w) == [w EXCEPT !.owned = FALSE, !.epoch = 0, !.head = 0, !.unPro = 0]
LoseClaim(w, owner) == Refused(DropClaim(w), owner)

Advance(w) == [w EXCEPT !.head = w.seen, !.unPro = 0, !.unBeat = 0]

\* Mutant: a refusal is taken for a claim that another try already made.
OnAcquireAnyRecord(l, w, a) ==
    IF IsRecord(a.rec)
    THEN ForgetRefusal([w EXCEPT !.owned = TRUE, !.epoch = a.rec.epoch, !.head = w.seen,
                                 !.unAcq = 0])
    ELSE [w EXCEPT !.unAcq = Least(@ + 1, UnknownLimit)]

OnAcquire(l, w, a) ==
    CASE Mine(a) ->
            ForgetRefusal([w EXCEPT !.owned = TRUE, !.epoch = a.rec.epoch,
                                    !.head = w.seen, !.unAcq = 0])
      [] ~Mine(a) /\ Lost(l, a) -> Refused(w, a.rec.owner)
      [] OTHER -> [w EXCEPT !.unAcq = Least(@ + 1, UnknownLimit)]

\* The poll is done: the watch goes on, closes its row, or is over.
Tracked(w) ==
    CASE ~w.over             -> [w EXCEPT !.seen = 0, !.pc = "poll"]
      [] w.over /\ w.owned   -> [w EXCEPT !.pc = "over"]
      [] w.over /\ ~w.owned  -> Gone

\* Mutant: a head counts as reported once it was sent.
OnProgressSent(l, w, a) ==
    IF Mine(a) THEN Tracked([Advance(w) EXCEPT !.epoch = a.rec.epoch])
    ELSE IF Lost(l, a) THEN Tracked(LoseClaim(w, a.rec.owner)) ELSE Tracked(Advance(w))

\* Without an answer that settles it, the poll may still owe a heartbeat.
OnProgress(l, w, a) ==
    CASE Mine(a) -> Tracked([Advance(w) EXCEPT !.epoch = a.rec.epoch])
      [] Bare(a) -> Tracked(Advance(w))
      [] Lost(l, a) -> Tracked(LoseClaim(w, a.rec.owner))
      [] a.accepted /\ a.verdict = "owned-by-other" /\ SameType(a) /\ ~Lost(l, a) ->
            Tracked(Advance(w))
      [] OTHER ->
            LET u == [w EXCEPT !.unPro = Least(@ + 1, UnknownLimit)]
            IN IF BeatDue(w) THEN [u EXCEPT !.pc = "beat-due"] ELSE Tracked(u)

\* Mutant: gives up one unanswered heartbeat later.
GiveUpOneLater(w) ==
    IF w.unBeat > HeartbeatLimit THEN [DropClaim(w) EXCEPT !.unBeat = 0] ELSE w

GiveUpIfUnanswered(w) ==
    IF w.unBeat >= HeartbeatLimit THEN [DropClaim(w) EXCEPT !.unBeat = 0] ELSE w

OnHeartbeat(l, w, a) ==
    CASE Mine(a) -> [w EXCEPT !.epoch = a.rec.epoch, !.unBeat = 0]
      [] Lost(l, a) -> LoseClaim(w, a.rec.owner)
      [] a.verdict = "unowned" -> [DropClaim(w) EXCEPT !.unBeat = 0]
      [] a.accepted /\ ~Newer(a) /\ a.verdict # "unowned" /\ ~Mine(a) /\ ~Lost(l, a)
            /\ (a.verdict # "owned-by-other" \/ SameType(a)) -> [w EXCEPT !.unBeat = 0]
      [] OTHER -> GiveUpIfUnanswered([w EXCEPT !.unBeat = @ + 1])

\* A relinquishing write that landed ends the claim; otherwise it is kept, for the
\* last attempt of the finally block.
FinishClaim(w, a) ==
    IF a.accepted THEN [w EXCEPT !.owned = FALSE, !.epoch = 0] ELSE w

Set(l, w) == loop' = [loop EXCEPT ![l] = w]

\* A call is sent, and has its effect if it has one; its answer is read later.
\* An acquire names no epoch, every other write does.
Calls(l, w, op, pc) ==
    \E r \in Replies(op, l, w.epoch, w.seen) :
        /\ Happens(r)
        /\ call' = [call EXCEPT ![l] = AnswerFrom(op, r.resp, l)]
        /\ Set(l, [w EXCEPT !.pc = pc])
        /\ UNCHANGED <<pr, rec, shep>>

Answered(l, w) ==
    /\ Set(l, w)
    /\ call' = [call EXCEPT ![l] = NoAnswer]
    /\ UNCHANGED <<row, pr, rec, shep, troubles>>

Moves(l, w) == Set(l, w) /\ UNCHANGED <<row, pr, call, rec, shep, troubles>>

\* What a poll that found the pull request starts with.
Polled(w) == [w EXCEPT !.seen = pr.head, !.over = pr.state # "open",
                       !.beat = (@ + 1) % HeartbeatEvery,
                       !.wait = IF @ > 0 THEN @ - 1 ELSE 0]

AskForClaim(l) ==
    LET w == Polled(loop[l]) IN
    /\ loop[l].pc = "poll" /\ ~w.owned
    /\ ~BackedOff(w, w.unAcq) /\ ~RefusalHolds(w)
    /\ Calls(l, [w EXCEPT !.refused = FALSE], "acquire", "acquiring")

StayAway(l) ==
    LET w == Polled(loop[l]) IN
    /\ loop[l].pc = "poll" /\ ~w.owned
    /\ BackedOff(w, w.unAcq) \/ RefusalHolds(w)
    /\ Moves(l, Tracked(w))

ClaimAnswered(l) ==
    /\ loop[l].pc = "acquiring"
    /\ Answered(l, Tracked(OnAcquire(l, loop[l], call[l])))

ReportsHead(w) == w.seen # w.head /\ ~BackedOff(w, w.unPro)

ReportProgress(l) ==
    LET w == Polled(loop[l]) IN
    /\ loop[l].pc = "poll" /\ w.owned /\ ReportsHead(w)
    /\ Calls(l, w, "progress", "progressing")

ProgressAnswered(l) ==
    /\ loop[l].pc = "progressing"
    /\ Answered(l, OnProgress(l, loop[l], call[l]))

NothingNew(l) ==
    LET w == Polled(loop[l]) IN
    /\ loop[l].pc = "poll" /\ w.owned /\ ~ReportsHead(w) /\ ~BeatDue(w)
    /\ Moves(l, Tracked(w))

Heartbeat(l) ==
    LET w == Polled(loop[l]) IN
    \/ /\ loop[l].pc = "poll" /\ w.owned /\ ~ReportsHead(w) /\ BeatDue(w)
       /\ Calls(l, w, "acquire", "beating")
    \/ /\ loop[l].pc = "beat-due"
       /\ Calls(l, loop[l], "acquire", "beating")

HeartbeatAnswered(l) ==
    /\ loop[l].pc = "beating"
    /\ Answered(l, Tracked(OnHeartbeat(l, loop[l], call[l])))

\* _watch_pr after the tracking: a merged or closed request closes the row.
CloseClaim(l) ==
    /\ loop[l].pc = "over"
    /\ Calls(l, loop[l], "terminal", "closing")

Leaving(w) == IF w.owned THEN [w EXCEPT !.pc = "leaving"] ELSE Gone

CloseAnswered(l) ==
    /\ loop[l].pc = "closing"
    /\ Answered(l, Leaving(FinishClaim(loop[l], call[l])))

\* Abandoned, out of time, or the request cannot be looked up any more.
StopWatching(l) ==
    /\ loop[l].pc = "poll"
    /\ Moves(l, Leaving(loop[l]))

\* The finally block: the last chance to let go of the row.
LetGo(l) ==
    /\ loop[l].pc = "leaving"
    /\ Calls(l, loop[l], IF loop[l].over THEN "terminal" ELSE "release", "letting-go")

LetGoAnswered(l) ==
    /\ loop[l].pc = "letting-go"
    /\ Answered(l, Gone)

LoopStep(l) ==
    \/ AskForClaim(l) \/ StayAway(l) \/ ClaimAnswered(l)
    \/ ReportProgress(l) \/ ProgressAnswered(l) \/ NothingNew(l)
    \/ Heartbeat(l) \/ HeartbeatAnswered(l)
    \/ CloseClaim(l) \/ CloseAnswered(l) \/ LetGo(l) \/ LetGoAnswered(l)

Watching(l) == loop[l] # Gone

\* The workflow is terminated: no finally block runs.
Terminated(l) ==
    /\ Watching(l) /\ troubles < MaxTroubles
    /\ Answered(l, Gone)

\* A new run of the workflow id watches again, with nothing remembered.  It finds
\* its pull request in the proposal's status.
Restart(l) ==
    /\ ~Watching(l) /\ pr.listed /\ troubles < MaxTroubles
    /\ Set(l, Fresh)
    /\ troubles' = troubles + 1
    /\ UNCHANGED <<row, pr, call, rec, shep>>

-----------------------------------------------------------------------------
(* The reconciler: one sweep reads the proposals' statuses (a request no    *)
(* proposal lists is not looked at), the running workflows and GitHub, then *)
(* the rows, and writes last.  Which of the first two it read first makes   *)
(* no difference to a write: a running workflow only decides an escalation. *)

Idle == [pc |-> "idle", me |-> NoOne, live |-> NoOne, terminal |-> FALSE,
         to |-> NoOne, epoch |-> 0, then |-> "none"]

RecSet(r) == rec' = r

Live == {l \in Loops : Watching(l)}

\* The entity is terminal if the request is over, or by the proposal's status: a
\* review-stuck one may have an open request.
SweepLooks(me) ==
    /\ Recording /\ pr.listed
    /\ rec.pc = "idle"
    /\ \E live \in Live \cup {NoOne}, terminal \in {pr.state # "open", TRUE} :
          /\ live = NoOne => Live = {}
          /\ RecSet([Idle EXCEPT !.pc = "looked", !.me = me, !.live = live,
                                 !.terminal = terminal])
    /\ UNCHANGED <<row, pr, loop, call, shep, troubles>>

\* A record carries a workflow id when a workflow or a sweep holds it.
Observation(resp) ==
    LET a == BatchAnswer(resp)
    IN [verdict |-> a.verdict, rec |-> a.rec, terminal |-> rec.terminal,
        needsOwner |-> ~rec.terminal /\ rec.live # NoOne, live |-> rec.live,
        recorded |-> IF a.rec.owner = Adopter THEN NoOne ELSE a.rec.owner]

Mutates(d) == d.action \in {"recover", "complete"}

SweepReads ==
    /\ rec.pc = "looked"
    /\ \E r \in Readings("2xx") :
          LET d == Classify(Observation(r.resp), rec.me)
          IN /\ Happens(r)
             /\ RecSet(IF Mutates(d) /\ MayVeto
                       THEN [rec EXCEPT !.pc = d.action, !.to = d.to, !.epoch = d.epoch,
                                        !.then = d.then]
                       ELSE Idle)
    /\ UNCHANGED <<pr, loop, call, shep>>

SweepCompletes ==
    /\ rec.pc = "complete"
    /\ \E r \in Replies("complete", rec.to, rec.epoch, pr.head) : Happens(r)
    /\ RecSet(Idle)
    /\ UNCHANGED <<pr, loop, call, shep>>

\* The recovery is asked for at the epoch that was read; what follows it names
\* the epoch of the answer.
SweepRecovers ==
    /\ rec.pc = "recover"
    /\ \E r \in Replies("recover", rec.me, rec.epoch, pr.head) :
          LET a == AnswerFrom("recover", r.resp, rec.me)
          IN /\ Happens(r)
             /\ RecSet(IF a.accepted THEN [rec EXCEPT !.pc = "follow", !.epoch = a.rec.epoch]
                       ELSE Idle)
    /\ UNCHANGED <<pr, loop, call, shep>>

SweepFollows ==
    /\ rec.pc = "follow"
    /\ \E r \in Replies(rec.then, rec.me, rec.epoch, pr.head) : Happens(r)
    /\ RecSet(Idle)
    /\ UNCHANGED <<pr, loop, call, shep>>

SweepStep ==
    \/ \E me \in Sweeps : SweepLooks(me)
    \/ SweepReads \/ SweepCompletes \/ SweepRecovers \/ SweepFollows

-----------------------------------------------------------------------------
(* Adoption of a pull request by the shepherd (pr_adoption.py): it looks    *)
(* for a DevLoop and at the row, acquires, and closes the row once the      *)
(* request needs no more work.  Nothing refreshes the row in between.       *)

ShepSet(pc, epoch) == shep' = [pc |-> pc, epoch |-> epoch]

\* _refusal_reason: no proposal has the request (by its list or by its branch), no
\* loop watches it, and the store has no other owner.  Drafts, forks and services
\* with a lifecycle of their own are never adopted and not modelled.
Adoptable ==
    /\ shep.pc = "idle" /\ troubles < MaxTroubles
    /\ pr.state = "open" /\ ~pr.listed /\ \A l \in Loops : ~Watching(l)
    /\ \E r \in Readings("404") :
          AnswerFrom("read", r.resp, Adopter).verdict \in {"unowned", "owned-by-me"}
    /\ ShepSet("adoptable", 0)
    /\ troubles' = troubles + 1
    /\ UNCHANGED <<row, pr, loop, call, rec>>

Adopt ==
    /\ shep.pc = "adoptable"
    /\ \E r \in Replies("acquire", Adopter, 0, pr.head) :
          /\ Happens(r)
          /\ ShepSet(IF ~Recording \/ Mine(AnswerFrom("acquire", r.resp, Adopter))
                     THEN "adopted" ELSE "idle", 0)
    /\ UNCHANGED <<pr, loop, call, rec>>

\* release_ownership: the row is looked at, and closed if it reads as one's own.
ReleaseReads ==
    /\ shep.pc = "adopted"
    /\ \E r \in Readings("404") :
          LET a == AnswerFrom("read", r.resp, Adopter)
          IN /\ Happens(r)
             /\ IF Mine(a) THEN ShepSet("releasing", a.rec.epoch) ELSE ShepSet("done", 0)
    /\ UNCHANGED <<pr, loop, call, rec>>

ReleaseWrites ==
    /\ shep.pc = "releasing"
    /\ \E r \in Replies("terminal", Adopter, shep.epoch, pr.head) : Happens(r)
    /\ ShepSet("done", 0)
    /\ UNCHANGED <<pr, loop, call, rec>>

ShepherdStep == Adoptable \/ Adopt \/ ReleaseReads \/ ReleaseWrites

-----------------------------------------------------------------------------
(* Time, GitHub, and actors outside this repository.                        *)

\* Owners whose own polls refresh the row.
Refreshing == {l \in Loops : Watching(l) /\ ~GaveUp(loop[l])}
Holding    == row.state \in HoldingStates

RowSet(r) == row' = r /\ UNCHANGED <<pr, loop, call, rec, shep>>

Dies ==
    /\ Holding /\ ~row.dead /\ row.owner \notin Refreshing
    /\ RowSet([row EXCEPT !.dead = TRUE]) /\ UNCHANGED troubles

\* A worker may be down for longer than the bound.
Lapse ==
    /\ Holding /\ ~row.dead /\ row.owner \in Refreshing /\ troubles < MaxTroubles
    /\ RowSet([row EXCEPT !.dead = TRUE])
    /\ troubles' = troubles + 1

GetsStuck ==
    /\ Holding /\ ~row.stuck /\ troubles < MaxTroubles
    /\ RowSet([row EXCEPT !.stuck = TRUE])
    /\ troubles' = troubles + 1

\* Nothing in this repository starts a handoff; another client may, of its row.
HandoffStarts ==
    /\ row.state = "active" /\ row.owner = Adopter /\ troubles < MaxTroubles
    /\ \E l \in Loops : RowSet([row EXCEPT !.state = "handing-off", !.target = l])
    /\ troubles' = troubles + 1

HeadMoves ==
    /\ pr.state = "open" /\ pr.head < MaxHead
    /\ pr' = [pr EXCEPT !.head = @ + 1]
    /\ UNCHANGED <<row, loop, call, rec, shep, troubles>>

PrEnds ==
    /\ pr.state = "open"
    /\ pr' = [pr EXCEPT !.state = "ended"]
    /\ UNCHANGED <<row, loop, call, rec, shep, troubles>>

\* A proposal's status comes to name the request; it keeps doing so.
GetsListed ==
    /\ ~pr.listed
    /\ pr' = [pr EXCEPT !.listed = TRUE]
    /\ UNCHANGED <<row, loop, call, rec, shep, troubles>>

Environment ==
    Dies \/ Lapse \/ GetsStuck \/ HandoffStarts \/ HeadMoves \/ PrEnds \/ GetsListed

-----------------------------------------------------------------------------
Init ==
    /\ row = NoRecord
    /\ pr \in [state : {"open"}, head : {1}, listed : BOOLEAN]
    /\ loop \in [Loops -> IF pr.listed THEN {Fresh, Gone} ELSE {Gone}]
    /\ call = [l \in Loops |-> NoAnswer]
    /\ rec = Idle
    /\ shep = [pc |-> "idle", epoch |-> 0]
    /\ troubles = 0

Next ==
    \/ \E l \in Loops : LoopStep(l) \/ StopWatching(l) \/ Terminated(l) \/ Restart(l)
    \/ SweepStep \/ ShepherdStep \/ Environment

Spec == Init /\ [][Next]_vars

\* The worker and the schedule keep running, the store answers all but MaxTroubles
\* calls, a silent owner is dead in the end.  Nothing is assumed of the adoption.
FairSpec ==
    /\ Spec
    /\ \A l \in Loops : WF_vars(LoopStep(l))
    /\ WF_vars(SweepStep) /\ WF_vars(Dies)

-----------------------------------------------------------------------------
\* The row, the request and what each watch remembers, within its limits.
TypeOK ==
    /\ row \in [owner : Owners \cup {NoOne}, epoch : Nat,
                state : {"none"} \cup HoldingStates \cup FreeStates,
                dead : BOOLEAN, stuck : BOOLEAN, target : Loops \cup {NoOne},
                version : 0..MaxHead]
    /\ pr \in [state : {"open", "ended"}, head : 1..MaxHead, listed : BOOLEAN]
    /\ loop \in [Loops ->
          [pc : LoopPCs, owned : BOOLEAN, epoch : Nat, head : 0..MaxHead, seen : 0..MaxHead,
           beat : 0..HeartbeatEvery - 1, unAcq : 0..UnknownLimit, unPro : 0..UnknownLimit,
           unBeat : 0..HeartbeatLimit - 1, refused : BOOLEAN, wait : 0..BackoffPolls,
           by : Owners \cup {NoOne}, refusals : 0..RefusalLimit, over : BOOLEAN]]
    /\ troubles \in 0..MaxTroubles

\* What a loop takes for its claim was granted to it: the store has since gone to
\* a later epoch, or the row still names the loop (_owned_entity_id with
\* _owner_epoch, over lost, late and partial answers).
BeliefIsGranted ==
    \A l \in Loops : loop[l].owned =>
        /\ row.epoch >= loop[l].epoch
        /\ row.epoch = loop[l].epoch => row.owner = l

\* The head a loop holds for reported is in the row it was reported to: evidence
\* of progress is sent again until it has landed (_owned_head_sha).
HeadIsRecorded ==
    \A l \in Loops :
        loop[l].owned /\ row.epoch = loop[l].epoch => row.version >= loop[l].head

\* From enforce on, a row of a request that a proposal lists and whose owner has
\* stopped asking is taken from it and freed, or closed (_observe, classify, _apply).
\* Of a row that only an adoption knows nothing of the kind holds: see below.
SilentIsFreed ==
    (Holding /\ row.owner \notin Refreshing /\ pr.listed /\ MayVeto)
        ~> (~Holding \/ row.owner \in Refreshing)

\* A loop that has lost its row finds out, or gets it back, and one that holds it
\* comes to know, though answers are lost and what they say may be dated.
BeliefSettles ==
    \A l \in Loops :
        LET Holds == Holding /\ row.owner = l
        IN (Watching(l) /\ loop[l].owned # Holds) ~> (~Watching(l) \/ loop[l].owned = Holds)

\* release_ownership closes the row that _adopt acquired once the request is
\* terminal, and nothing else ever does (pr_adoption.py, its docstring).  It does
\* not, when the row reads as dead: nothing refreshed it since the adoption.
AdoptedIsClosed == shep.pc = "done" => ~(Holding /\ row.owner = Adopter)
=============================================================================

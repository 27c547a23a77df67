------------------------------- MODULE DevLoop -------------------------------
(***************************************************************************)
(* One DevLoop workflow from its start to its end: the approval it parks   *)
(* for, the resumes that may arrive between any two of its steps, and the  *)
(* continue-as-new of its merge watch                                      *)
(* (orchestrator/temporal/workflows/dev_loop.py).                          *)
(*                                                                         *)
(* The workflow is one coroutine (pc), a task per accepted delivery (dlv), *)
(* and handlers that run between two awaits.  The approval grants, the     *)
(* execution requests and the proposal's text live elsewhere.  A step that *)
(* follows an await reads what it captured before it (call) and what the   *)
(* handlers made of the rest meanwhile.  The loop is a canonical one, with *)
(* every patch marker set: the other branches only replay old histories.   *)
(***************************************************************************)
EXTENDS Integers, FiniteSets

CONSTANTS
    Requests,        \* execution requests that may be delivered to the loop
    Surfaces,        \* surfaces, with an actor each, that resumes come from
    NoSurface,       \* the loop was started without provenance
    NoRef,           \* no approval ref
    MaxSupersedes,   \* MAX_GRANT_SUPERSEDES
    MaxResumes,      \* bound: signalled resumes taken over by one run
    MaxRewrites,     \* bound: rewrites of one proposal directory
    MaxHops,         \* bound: continue-as-new
    Replaced         \* may the proposal directory be replaced by another?

ASSUME SurfaceAssumption == NoSurface \notin Surfaces
ASSUME LimitAssumption == /\ MaxSupersedes \in Nat /\ MaxResumes \in Nat
                          /\ MaxRewrites \in Nat /\ MaxHops \in Nat
                          /\ Replaced \in BOOLEAN

VARIABLES
    pc,       \* where run() is
    back,     \* which park asked, or checks, and is returned to
    call,     \* what the activity in flight was given
    flipSlug, \* the directory looked up for the flip
    why,      \* DevLoopResult.ended
    apr,      \* the approval fields of the workflow
    res,      \* its resume fields
    flags,    \* _abandoned, _gates_passed, _hopping, _exiting
    dlv,      \* request -> open delivery and its task
    gap       \* the res that is carried to the next run, with what resumed since

VARIABLES
    grants,   \* mctl-api: grants asked, decided by a human, and spent
    text,     \* gitops: the current directory, and the version of each
    xr,       \* mctl-api: request -> state of it, and phase of its execution
    ended,    \* history: the attempt the latest transition ended
    used      \* of the bounds: hops and resume signals so far

runVars  == <<pc, back, call, flipSlug, why>>
elsewhere == <<grants, text, xr>>
vars == <<runVars, apr, res, flags, dlv, gap, elsewhere, ended, used>>

Slugs     == IF Replaced THEN {1, 2} ELSE {1}
Digest(s) == <<s, text.version[s]>>
Digests   == Slugs \X (0 .. MaxRewrites)

OwnExecution == 1

\* The key of a grant: the intent (execution, slug, digest) and the attempt.
Grants == [att : Nat, ex : Nat, slug : Slugs, dig : Digests]
ASSUME RefAssumption == NoRef \notin Grants

NoCall == [attempt |-> 0, ex |-> OwnExecution, slug |-> 1, ref |-> NoRef,
           approved |-> FALSE]

NoApproval ==
    [ok |-> FALSE, ref |-> NoRef, requested |-> NoRef, signalled |-> {},
     superseded |-> {}, digest |-> <<>>, slug |-> 0, attempt |-> 0, count |-> 0,
     refresh |-> FALSE, note |-> FALSE]

NoResume(execs) ==
    [surface |-> NoSurface, pending |-> FALSE, mark |-> 0, execs |-> execs]

NoDelivery == [job |-> "none", phase |-> "none", tr |-> FALSE, bound |-> FALSE]

Init ==
    /\ pc = "investigate" /\ back = "park"
    /\ call = NoCall
    /\ flipSlug = 1 /\ why = "none"
    /\ apr = NoApproval
    /\ res = NoResume(1)
    /\ flags = [abandoned |-> FALSE, gates |-> FALSE, hopping |-> FALSE,
                exiting |-> FALSE]
    /\ dlv = [r \in Requests |-> NoDelivery]
    /\ gap = NoResume(1)
    /\ grants = [asked |-> {}, decided |-> {}, spent |-> {}]
    /\ text = [dir |-> 1, version |-> [s \in Slugs |-> 0]]
    /\ xr = [r \in Requests |-> [state |-> "claimed", phase |-> "none"]]
    /\ ended = -1
    /\ used = [hops |-> 0, resumes |-> 0]

\* _is_approved: the grant that was signalled, and nothing else.
IsApproved == apr.ok /\ apr.ref # NoRef

Open == {r \in Requests : dlv[r].job # "none"}

-------------------------------------------------------------------------------
(* Handlers: approve, abandon, resume, accept_execution_request.           *)

Running == pc # "done"

\* Only the ref this loop asked for in this attempt, never a superseded one.
ApproveWith(ref) ==
    IF ref \in apr.superseded THEN [apr EXCEPT !.ok = TRUE]
    ELSE [apr EXCEPT !.ok = TRUE,
                     !.signalled = @ \cup {ref},
                     !.ref = IF ref = apr.requested THEN ref ELSE @]

\* mctl-api signals a decided grant, maybe late and more than once.
ApproveSignal ==
    /\ Running
    /\ \E ref \in grants.decided : apr' = ApproveWith(ref)
    /\ res' = [res EXCEPT !.pending = FALSE]
    /\ UNCHANGED <<runVars, flags, dlv, gap, elsewhere, ended, used>>

\* A signal without a ref.
BareApproveSignal ==
    /\ Running
    /\ apr' = [apr EXCEPT !.ok = TRUE]
    /\ res' = [res EXCEPT !.pending = FALSE]
    /\ UNCHANGED <<runVars, flags, dlv, gap, elsewhere, ended, used>>

AbandonSignal ==
    /\ Running
    /\ flags' = [flags EXCEPT !.abandoned = TRUE]
    /\ UNCHANGED <<runVars, apr, res, dlv, gap, elsewhere, ended, used>>

\* What a transition leaves of the approval: the decision, the grant asked for
\* and the refs signalled so far all belong to the attempt it ended.
Rearmed ==
    [apr EXCEPT !.ok = FALSE, !.ref = NoRef, !.requested = NoRef,
                !.signalled = {}, !.refresh = TRUE, !.attempt = @ + 1]

\* _take_resume_provenance, for a resume that adds n executions right away.
TakeProvenance(s, n) ==
    IF s # res.surface
    THEN /\ apr' = Rearmed
         /\ ended' = apr.attempt
         /\ res' = [surface |-> s, pending |-> TRUE, mark |-> res.execs,
                    execs |-> res.execs + n]
    ELSE /\ res' = [res EXCEPT !.execs = @ + n]
         /\ UNCHANGED <<apr, ended>>

\* One resume of the gap, against what the run before left.
TakeGap(c, s) ==
    IF c.pending THEN c
    ELSE [c EXCEPT !.execs = @ + 1, !.surface = s,
                   !.pending = s # c.surface]

\* The resume signal.  Between two runs it meets the empty state of a workflow
\* object that has not been rehydrated, and is taken over with what is carried.
ResumeSignal ==
    /\ Running
    /\ ~res.pending
    /\ pc # "gap" => Open = {}
    /\ used.resumes < MaxResumes
    /\ used' = [used EXCEPT !.resumes = @ + 1]
    /\ \E s \in Surfaces :
        /\ TakeProvenance(s, 1)
        /\ gap' = IF pc = "gap" THEN TakeGap(gap, s) ELSE gap
    /\ UNCHANGED <<runVars, flags, dlv, elsewhere>>

\* _validate_execution_request, for a request the loop has not accepted yet
\* and with a known provenance.  After the gates every resume is turned down.
MayAccept(r) ==
    /\ Running /\ pc # "gap"
    /\ ~flags.exiting /\ ~flags.hopping /\ ~flags.abandoned /\ ~flags.gates
    /\ Open = {} /\ ~res.pending
    /\ xr[r].state = "claimed"

\* accept_execution_request: the approval is cleared at acceptance.
AcceptRequest(r) ==
    /\ MayAccept(r)
    /\ xr' = [xr EXCEPT ![r].state = "accepted"]
    /\ \E s \in Surfaces :
        /\ TakeProvenance(s, 0)
        /\ dlv' = [dlv EXCEPT ![r] = [NoDelivery EXCEPT !.job = "bind",
                                                        !.tr = s # res.surface]]
    /\ UNCHANGED <<runVars, flags, gap, grants, text, used>>

-------------------------------------------------------------------------------
(* The task of a delivery: bind the execution, wait for a decision, land.  *)

taskFrame == <<runVars, apr, flags, gap, grants, text, ended, used>>

Job(r, job) == dlv' = [dlv EXCEPT ![r].job = job]

Land(r, phase) == dlv' = [dlv EXCEPT ![r].job = "land", ![r].phase = phase]

Terminal == {"Succeeded", "Failed"}

Advanced(r, phase) ==
    IF xr[r].phase \in Terminal THEN xr ELSE [xr EXCEPT ![r].phase = phase]

\* _end_delivery: the window a transition opened closes with it.
EndDelivery(r) ==
    /\ dlv' = [dlv EXCEPT ![r] = NoDelivery]
    /\ res' = IF dlv[r].tr THEN [res EXCEPT !.pending = FALSE] ELSE res

\* A carried delivery that is bound again has its execution on record.
BindDelivery(r) ==
    /\ dlv[r].job = "bind" /\ ~flags.hopping
    /\ xr[r].state = "fulfilled"
    /\ xr' = Advanced(r, "Running")
    /\ \/ /\ dlv' = [dlv EXCEPT ![r].job = "wait", ![r].bound = TRUE]
          /\ res' = IF dlv[r].bound THEN res ELSE [res EXCEPT !.execs = @ + 1]
       \/ /\ Land(r, "Failed")            \* minted for us, not to be run
          /\ UNCHANGED res
    /\ UNCHANGED taskFrame

\* Rejected, fulfilled for another loop, or not answered in the last grace.
DropDelivery(r) ==
    /\ dlv[r].job = "bind" /\ ~flags.hopping
    /\ xr[r].state = "rejected" \/ flags.exiting
    /\ EndDelivery(r)
    /\ UNCHANGED <<taskFrame, xr>>

\* Unbound at the hop: still open, the next run goes on with it.
CarryDelivery(r) ==
    /\ dlv[r].job = "bind" /\ flags.hopping
    /\ Job(r, "carried")
    /\ UNCHANGED <<taskFrame, xr, res>>

\* Mutant: ended with the loop is decided.
DecidedAtExit == (IsApproved \/ flags.gates \/ flags.exiting) /\ ~flags.abandoned

Decided == (IsApproved \/ flags.gates) /\ ~flags.abandoned

\* A run hops after its gates only, so a hop finds every delivery decided.
DecideDelivery(r) ==
    /\ dlv[r].job = "wait"
    /\ Decided \/ flags.abandoned \/ flags.exiting
    /\ Land(r, IF Decided THEN "Succeeded" ELSE "Failed")
    /\ UNCHANGED <<taskFrame, xr, res>>

LandDelivery(r) ==
    /\ dlv[r].job = "land"
    /\ xr' = Advanced(r, dlv[r].phase)
    /\ EndDelivery(r)
    /\ UNCHANGED taskFrame

\* No answer: try again, carry it over the hop, or give up with the loop.
LandFails(r) ==
    /\ dlv[r].job = "land"
    /\ xr' \in {xr, Advanced(r, dlv[r].phase)}
    /\ IF flags.exiting THEN EndDelivery(r)
       ELSE /\ Job(r, IF flags.hopping THEN "carried" ELSE "land")
            /\ UNCHANGED res
    /\ UNCHANGED taskFrame

-------------------------------------------------------------------------------
(* The coroutine: leaving, asking for a grant, checking that it is fresh.  *)
(* pc names the awaits; what runs between two of them is one step.  A step *)
(* says with `a` what it makes of the approval fields on its way.          *)

runFrame  == <<res, flags, dlv, gap, xr, ended, used>>
waitFrame == <<runFrame, grants, text>>

Approved(a) == a.ok /\ a.ref # NoRef

NoLongerCalls == call' = NoCall /\ back' = "park"

Goto(to, a) ==
    /\ pc' = to
    /\ apr' = a
    /\ NoLongerCalls
    /\ UNCHANGED <<flipSlug, why>>

\* return DevLoopResult(..., ended=reason), or an exception.
Exit(reason, a) ==
    /\ pc' = "exit"
    /\ why' = reason
    /\ apr' = a
    /\ NoLongerCalls
    /\ UNCHANGED flipSlug

Asks(from, a) ==
    /\ pc' = "ask"
    /\ back' = from
    /\ apr' = [a EXCEPT !.refresh = FALSE]
    /\ call' = [NoCall EXCEPT !.ex = IF from = "gatepark" THEN res.execs
                                                         ELSE OwnExecution]
    /\ UNCHANGED why

\* The investigation ends, well or not, maybe with a proposal past approval.
Investigated ==
    /\ pc = "investigate"
    /\ \/ Asks("park", apr) /\ UNCHANGED flipSlug
       \/ Exit("failed", apr)
    /\ UNCHANGED waitFrame

\* _request_canonical_approval up to the request: the directory is looked up,
\* a decision without a grant is dropped, and the attempt is remembered.
Ask ==
    /\ pc = "ask"
    /\ \/ /\ pc' = "asking"
          /\ apr' = IF apr.ref = NoRef THEN [apr EXCEPT !.ok = FALSE] ELSE apr
          /\ call' = [call EXCEPT !.attempt = apr.attempt, !.slug = text.dir]
          /\ UNCHANGED <<back, flipSlug, why>>
       \/ Exit("failed", apr)
    /\ UNCHANGED waitFrame

\* The grant the request stands for.
Asked == [att |-> call.attempt, ex |-> call.ex,
          slug |-> call.slug, dig |-> Digest(call.slug)]

GrantAsked == grants' = [grants EXCEPT !.asked = @ \cup {Asked}]

\* Mutant: whatever the answer is, it is adopted.
AdoptAnyAnswer == TRUE

\* The answer belongs to the attempt it was asked in.
AnswerIsCurrent == call.attempt = apr.attempt

\* The grant of the answer is the one to wait for, and to keep fresh.
Adopted == [apr EXCEPT !.slug = call.slug, !.requested = Asked,
                       !.digest = Digest(call.slug), !.note = FALSE]

\* It was decided already, or its signal overtook the answer.
DecidedAlready(a, ref, approved) ==
    IF approved \/ ref \in a.signalled THEN [a EXCEPT !.ref = ref, !.ok = TRUE]
                                       ELSE a

\* The grant is found or created.  After a supersede the issue is told of it
\* first.  (An attempt that was superseded is never asked for again, so the
\* answer is never a superseded grant.)
Answer ==
    /\ pc = "asking"
    /\ GrantAsked
    /\ LET approved == Asked \in grants.decided IN
       IF ~AnswerIsCurrent THEN Goto(back, apr)
       ELSE IF ~apr.note THEN Goto(back, DecidedAlready(Adopted, Asked, approved))
       ELSE /\ pc' = "posting"
            /\ apr' = Adopted
            /\ call' = [call EXCEPT !.ref = Asked, !.approved = approved]
            /\ UNCHANGED <<back, flipSlug, why>>
    /\ UNCHANGED <<runFrame, text>>

\* The comment is posted, or not; the attempt is not compared again.
CommentEnds ==
    /\ pc = "posting"
    /\ Goto(back, DecidedAlready(apr, call.ref, call.approved))
    /\ UNCHANGED waitFrame

\* Refused, unreadable, or no answer although the grant is there now.
AnswerFails ==
    /\ pc = "asking"
    /\ GrantAsked \/ UNCHANGED grants
    /\ Exit("failed", apr)
    /\ UNCHANGED <<runFrame, text>>

\* _supersede_grant_if_stale reads the directory `slug` for `from`.
Checks(slug, from) ==
    /\ pc' = "checking"
    /\ back' = from
    /\ apr' = apr
    /\ call' = [NoCall EXCEPT !.attempt = apr.attempt, !.slug = slug,
                              !.ref = IF apr.ref # NoRef THEN apr.ref
                                                         ELSE apr.requested]
    /\ UNCHANGED why

\* Without a grant there is nothing to check, and it counts as fresh.
NothingToCheck == apr.requested = NoRef

Superseded ==
    [NoApproval EXCEPT !.superseded = apr.superseded \cup {call.ref},
                       !.slug = apr.slug, !.attempt = apr.attempt + 1,
                       !.count = apr.count + 1, !.refresh = TRUE, !.note = TRUE]

\* A refusal that smells of a stale grant: the grant is checked with the
\* directory of the flip; one that cannot be checked ends the loop.
FlipRefused(slug) ==
    IF NothingToCheck
    THEN pc' = "exit" /\ why' = "failed" /\ apr' = apr /\ NoLongerCalls
    ELSE Checks(slug, "retry")

\* The grant goes out with no await since the check.
SendsFlip(slug) ==
    /\ pc' = "flipping"
    /\ back' = "park"
    /\ call' = [NoCall EXCEPT !.slug = slug, !.ref = apr.ref]
    /\ UNCHANGED <<apr, why>>

\* _delegated_approve: not for another directory than the grant was asked for.
SubmitFlip(slug) ==
    IF slug = apr.slug THEN SendsFlip(slug) ELSE FlipRefused(slug)

\* _ensure_fresh_grant, with an approval.
Ensures(slug) == IF NothingToCheck THEN SubmitFlip(slug) ELSE Checks(slug, "ensure")

\* The top of the loop of _await_canonical_reapproval before the flip.  With
\* an approval it leads on to _ensure_fresh_grant; without one it asks, unless
\* it was only a tick.
ReapprovalTop(a, ticked) ==
    IF flags.abandoned THEN Exit("abandoned", a)
    ELSE IF Approved(a) THEN Ensures(flipSlug) /\ UNCHANGED flipSlug
    ELSE IF ticked /\ ~a.refresh THEN Goto("prepark", a)
    ELSE Asks("prepark", a) /\ UNCHANGED flipSlug

IsFresh == Digest(call.slug) = apr.digest

CheckIsFresh ==
    /\ pc = "checking"
    /\ call.attempt = apr.attempt /\ IsFresh
    /\ CASE back = "park"    -> Goto("park", apr)
         [] back = "prepark" -> ReapprovalTop(apr, TRUE)
         [] back = "ensure"  -> SubmitFlip(flipSlug) /\ UNCHANGED flipSlug
         [] back = "retry"   -> Exit("failed", apr)
    /\ UNCHANGED waitFrame

\* A transition cleared the grant while the read ran, or the text changed.
CheckSupersedes ==
    /\ pc = "checking"
    /\ call.attempt # apr.attempt \/ ~IsFresh
    /\ LET a == IF call.attempt # apr.attempt THEN apr ELSE Superseded
       IN  IF a.count > MaxSupersedes THEN Exit("capped", a)
           ELSE IF back = "park" THEN Goto("park", a)
           ELSE ReapprovalTop(a, FALSE)
    /\ UNCHANGED waitFrame

CheckUnreadable ==
    /\ pc = "checking"
    /\ CASE back = "park"    -> Goto("park", apr)
         [] back = "prepark" -> ReapprovalTop(apr, TRUE)
         [] back = "ensure"  -> Goto("unreadable", apr)
         [] back = "retry"   -> Exit("failed", apr)
    /\ UNCHANGED waitFrame

-------------------------------------------------------------------------------
(* The first park.  Its deadline may pass at any time.                     *)

Wakes == flags.abandoned \/ IsApproved \/ apr.refresh

ParkWakes ==
    /\ pc = "park"
    /\ \/ flags.abandoned /\ Exit("abandoned", apr)
       \/ IsApproved /\ ~flags.abandoned /\ Goto("admit", apr)
       \/ /\ apr.refresh /\ ~IsApproved /\ ~flags.abandoned
          /\ Asks("park", apr) /\ UNCHANGED flipSlug
    /\ UNCHANGED waitFrame

\* Every interval the issue is read, and the grant is checked.
ParkTicks ==
    /\ pc = "park" /\ ~Wakes
    /\ \/ Exit("closed", apr)
       \/ ~NothingToCheck /\ Checks(apr.slug, "park") /\ UNCHANGED flipSlug
    /\ UNCHANGED waitFrame

ParkExpires ==
    /\ pc = "park"
    /\ IF flags.abandoned THEN Exit("abandoned", apr)
       ELSE IF IsApproved THEN Goto("admit", apr) ELSE Exit("expired", apr)
    /\ UNCHANGED waitFrame

-------------------------------------------------------------------------------
(* From the first park to the flip.                                        *)

\* The issue must still be open; the directory is looked up for the flip.
Admit ==
    /\ pc = "admit"
    /\ \/ Exit("closed", apr)
       \/ flags.abandoned /\ Exit("abandoned", apr)
       \/ /\ ~flags.abandoned
          /\ flipSlug' = text.dir
          /\ IF IsApproved THEN Ensures(text.dir) ELSE Asks("prepark", apr)
    /\ UNCHANGED waitFrame

ReparkWakes ==
    /\ pc = "prepark" /\ Wakes
    /\ ReapprovalTop(apr, FALSE)
    /\ UNCHANGED waitFrame

ReparkTicks ==
    /\ pc = "prepark" /\ ~Wakes
    /\ ~NothingToCheck
    /\ Checks(apr.slug, "prepark") /\ UNCHANGED flipSlug
    /\ UNCHANGED waitFrame

ReparkExpires ==
    /\ pc = "prepark"
    /\ ~IsApproved /\ ~flags.abandoned
    /\ Exit("expired", apr)
    /\ UNCHANGED waitFrame

\* _ensure_fresh_grant goes round again: a grant that a resume cleared is
\* missing, not fresh.
EnsureAgain ==
    /\ pc = "unreadable"
    /\ IF flags.abandoned THEN Exit("abandoned", apr)
       ELSE IF IsApproved \/ ~apr.refresh
            THEN Ensures(flipSlug) /\ UNCHANGED flipSlug
       ELSE Asks("prepark", apr) /\ UNCHANGED flipSlug
    /\ UNCHANGED waitFrame

EnsureExpires ==
    /\ pc = "unreadable"
    /\ Exit("failed", apr)
    /\ UNCHANGED waitFrame

Spend == grants' = [grants EXCEPT !.spent = @ \cup {call.ref}]

\* mctl-api exercises a decided grant once; the workflow it starts compares
\* the digest.
FlipSucceeds ==
    /\ pc = "flipping"
    /\ call.ref \in grants.decided \ grants.spent
    /\ Digest(call.slug) = call.ref.dig
    /\ Spend
    /\ Goto("own-end", apr)
    /\ UNCHANGED <<runFrame, text>>

\* The flip workflow failed, or a refusal that smells of a stale grant: a
\* grant that is stale is asked for again, anything else ends the loop.
FlipFails ==
    /\ pc = "flipping"
    /\ Spend \/ UNCHANGED grants
    /\ FlipRefused(flipSlug)
    /\ UNCHANGED flipSlug
    /\ UNCHANGED <<runFrame, text>>

\* The loop's own execution ends with the flip; if that does not land it is
\* tried once more at the exit, so only the await matters here.
EndOwnExecution ==
    /\ pc = "own-end"
    /\ Goto("resolve", apr)
    /\ UNCHANGED waitFrame

-------------------------------------------------------------------------------
(* _await_canonical_reapproval after the flip, and past the gates.         *)

\* The execution the latest transition opened is the first recorded after it.
Opened == res.execs > res.mark

Undecided == ~flags.abandoned /\ ~IsApproved

PassGates ==
    /\ pc \in {"resolve", "gatepark"}
    /\ ~flags.abandoned /\ IsApproved
    /\ flags' = [flags EXCEPT !.gates = TRUE]
    /\ Goto("implement", apr)
    /\ UNCHANGED <<res, dlv, gap, elsewhere, ended, used>>

\* No grant is asked before the execution it is asked on is there.
GateAsks ==
    /\ pc \in {"resolve", "gatewait", "gatepark"}
    /\ pc = "gatepark" => apr.refresh
    /\ Undecided
    /\ IF Opened THEN Asks("gatepark", apr) /\ UNCHANGED flipSlug
       ELSE pc # "gatewait" /\ Goto("gatewait", apr)
    /\ UNCHANGED waitFrame

\* Mutant: the wait for the resumed execution has no deadline.
GateWaits ==
    /\ pc = "gatepark"
    /\ Undecided
    /\ Exit("expired", apr)
    /\ UNCHANGED waitFrame

GateExpires ==
    /\ \/ pc = "gatewait" /\ ~Opened
       \/ pc = "gatepark"
    /\ Undecided
    /\ Exit("expired", apr)
    /\ UNCHANGED waitFrame

GateAbandoned ==
    /\ pc \in {"resolve", "gatewait", "gatepark"}
    /\ flags.abandoned
    /\ Exit("abandoned", apr)
    /\ UNCHANGED waitFrame

\* The release of the implementer cannot be resolved, or the implementer or
\* the delegated flip ended otherwise.
Fails ==
    /\ pc \in {"flipping", "resolve", "implement"}
    /\ Exit("failed", apr)
    /\ UNCHANGED waitFrame

\* The implementer ran to its end.
Implemented ==
    /\ pc = "implement"
    /\ IF flags.abandoned THEN Exit("abandoned", apr) ELSE Goto("watch", apr)
    /\ UNCHANGED waitFrame

\* _watch_pr returns: the request merged or closed, abandoned, or given up.
WatchEnds ==
    /\ pc = "watch"
    /\ Exit("watched", apr)
    /\ UNCHANGED waitFrame

-------------------------------------------------------------------------------
(* continue-as-new in the watch, and the end of the loop.                  *)

TasksDone == \A r \in Requests : dlv[r].job \in {"none", "carried"}

Hop ==
    /\ pc = "watch"
    /\ used.hops < MaxHops
    /\ used' = [used EXCEPT !.hops = @ + 1]
    /\ flags' = [flags EXCEPT !.hopping = TRUE]
    /\ Goto("hop", apr)
    /\ UNCHANGED <<res, dlv, gap, elsewhere, ended>>

\* A new workflow object: what is not carried is gone.
ContinueAsNew ==
    /\ pc = "hop" /\ TasksDone
    /\ Goto("gap", NoApproval)
    /\ gap' = res
    /\ res' = NoResume(0)
    /\ flags' = [flags EXCEPT !.hopping = FALSE]
    /\ UNCHANGED <<dlv, elsewhere, ended, used>>

\* Mutant: a carried delivery is restored and nobody works on it.
RehydrateOnly ==
    /\ pc = "gap"
    /\ Goto("watch", [apr EXCEPT !.ok = TRUE])
    /\ res' = gap
    /\ gap' = NoResume(1)
    /\ UNCHANGED <<dlv, flags, elsewhere, ended, used>>

\* _rehydrate_work_context; the tasks of the carried deliveries start again.
Rehydrate ==
    /\ pc = "gap"
    /\ Goto("watch", [apr EXCEPT !.ok = TRUE])
    /\ res' = gap
    /\ gap' = NoResume(1)
    /\ dlv' = [r \in Requests |->
                 IF dlv[r].job # "carried" THEN dlv[r]
                 ELSE [dlv[r] EXCEPT !.job = IF dlv[r].phase = "none" THEN "bind"
                                                                      ELSE "land"]]
    /\ UNCHANGED <<flags, elsewhere, ended, used>>

\* The loop ends its own execution; then nothing is accepted any more and
\* _settle_deliveries waits for the tasks.
EndLoop ==
    /\ pc = "exit"
    /\ Goto("drain", apr)
    /\ flags' = [flags EXCEPT !.exiting = TRUE]
    /\ UNCHANGED <<res, dlv, gap, elsewhere, ended, used>>

Close ==
    /\ pc = "drain"
    /\ TasksDone
    /\ Goto("done", apr)
    /\ UNCHANGED waitFrame

-------------------------------------------------------------------------------
(* Elsewhere: humans, mctl-api, the dispatcher.  What they do once the     *)
(* gates are passed, or the loop is over, no step of it reads.             *)

Over == {"exit", "drain", "done"}

Decide ==
    /\ ~flags.gates /\ pc \notin Over
    /\ \E g \in grants.asked \ grants.decided :
          grants' = [grants EXCEPT !.decided = @ \cup {g}]
    /\ UNCHANGED <<runVars, apr, res, flags, dlv, gap, text, xr, ended, used>>

Rewrite ==
    /\ ~flags.gates /\ pc \notin Over
    /\ \E s \in Slugs :
        /\ text.version[s] < MaxRewrites
        /\ text' = [text EXCEPT !.version[s] = @ + 1]
    /\ UNCHANGED <<runVars, apr, res, flags, dlv, gap, grants, xr, ended, used>>

\* The proposal is rejected and investigated again into another directory.
Replace ==
    /\ ~flags.gates /\ pc \notin Over
    /\ text.dir + 1 \in Slugs
    /\ text' = [text EXCEPT !.dir = @ + 1]
    /\ UNCHANGED <<runVars, apr, res, flags, dlv, gap, grants, xr, ended, used>>

\* The dispatcher fulfils an accepted request, or the platform rejects it.
Fulfil(r) ==
    /\ xr[r].state = "accepted"
    /\ \/ xr' = [xr EXCEPT ![r] = [state |-> "fulfilled", phase |-> "Pending"]]
       \/ xr' = [xr EXCEPT ![r].state = "rejected"]
    /\ UNCHANGED <<runVars, apr, res, flags, dlv, gap, grants, text, ended, used>>

-------------------------------------------------------------------------------
(* The specification.                                                      *)

Expiry == ParkExpires \/ ReparkExpires \/ EnsureExpires \/ GateExpires

Coroutine ==
    \/ Investigated \/ Ask \/ Answer \/ AnswerFails \/ CommentEnds
    \/ CheckIsFresh \/ CheckSupersedes \/ CheckUnreadable
    \/ ParkWakes \/ ParkTicks \/ Admit \/ ReparkWakes \/ ReparkTicks
    \/ EnsureAgain \/ FlipSucceeds \/ FlipFails \/ EndOwnExecution
    \/ PassGates \/ GateAsks \/ GateAbandoned \/ Implemented \/ Fails
    \/ WatchEnds \/ Hop \/ ContinueAsNew \/ Rehydrate \/ EndLoop \/ Close

Task(r) == \/ BindDelivery(r) \/ DropDelivery(r) \/ CarryDelivery(r)
           \/ DecideDelivery(r) \/ LandDelivery(r) \/ LandFails(r)

Handlers ==
    \/ ApproveSignal \/ BareApproveSignal \/ AbandonSignal \/ ResumeSignal
    \/ \E r \in Requests : AcceptRequest(r)

Next ==
    \/ Coroutine \/ Expiry \/ Handlers
    \/ Decide \/ Rewrite \/ Replace
    \/ \E r \in Requests : Task(r) \/ Fulfil(r)

Spec == Init /\ [][Next]_vars

\* The worker runs the coroutine and the tasks; activities end, as each has a
\* timeout; deadlines pass (a park that ticks keeps its deadline, hence strong
\* fairness); the record of a phase lands in the end; a watch ends.  Nothing
\* is assumed of humans, of the dispatcher, or of who signals.
Fairness ==
    /\ WF_vars(Coroutine) /\ SF_vars(Expiry) /\ WF_vars(WatchEnds)
    /\ \A r \in Requests : WF_vars(Task(r)) /\ WF_vars(LandDelivery(r))

FairSpec == Spec /\ Fairness

-------------------------------------------------------------------------------
(* Properties.                                                             *)

Pcs == {"investigate", "ask", "asking", "posting", "checking", "park", "admit", "prepark",
        "unreadable", "flipping", "own-end", "resolve", "gatewait", "gatepark",
        "implement", "watch", "hop", "gap", "exit", "drain", "done"}

Refs == Grants \cup {NoRef}

Calls == [attempt : Nat, ex : Nat, slug : Slugs, ref : Refs, approved : BOOLEAN]

Approvals == [ok : BOOLEAN, ref : Refs, requested : Refs, signalled : SUBSET Grants,
              superseded : SUBSET Grants, digest : Digests \cup {<<>>},
              slug : Slugs \cup {0}, attempt : Nat, count : Nat, refresh : BOOLEAN,
              note : BOOLEAN]

Deliveries == [job : {"none", "bind", "wait", "land", "carried"},
               phase : {"none"} \cup Terminal, tr : BOOLEAN, bound : BOOLEAN]

Flags == [abandoned : BOOLEAN, gates : BOOLEAN, hopping : BOOLEAN, exiting : BOOLEAN]

ResumeFields == [surface : Surfaces \cup {NoSurface}, pending : BOOLEAN,
                 mark : Nat, execs : Nat]

Backs == {"park", "prepark", "gatepark", "ensure", "retry"}
Whys  == {"none", "failed", "closed", "expired", "abandoned", "capped", "watched"}

\* The types of the fields of the workflow and of what it talks to.
TypeOK ==
    /\ pc \in Pcs /\ back \in Backs /\ call \in Calls
    /\ flipSlug \in Slugs /\ why \in Whys
    /\ apr \in Approvals
    /\ apr.count \in 0 .. MaxSupersedes + 1
    /\ res \in ResumeFields /\ gap \in ResumeFields
    /\ flags \in Flags
    /\ dlv \in [Requests -> Deliveries]
    /\ grants \in [asked : SUBSET Grants, decided : SUBSET Grants, spent : SUBSET Grants]
    /\ grants.decided \cup grants.spent \subseteq grants.asked
    /\ text \in [dir : Slugs, version : [Slugs -> 0 .. MaxRewrites]]
    /\ ended \in Nat \cup {-1}

Flips == pc' = "flipping" /\ pc # "flipping"
PassesGates == flags'.gates /\ ~flags.gates

\* Both releases of a loop are a human's decision that no transition to another
\* surface or actor has ended (if no grant was superseded: AdoptedIsCurrent says
\* why).  The flip goes out with a grant that was decided on this loop's own
\* execution and not superseded; the implementer starts on the grant the flip
\* has spent, or on one asked for after the flip on another execution, and
\* never for an abandoned loop.
HumanDecides ==
    [][/\ Flips \/ PassesGates =>
             /\ apr.ref \in grants.decided
             /\ apr.count = 0 => apr.ref.att > ended
       /\ Flips => apr.ref \notin apr.superseded /\ apr.ref.ex = OwnExecution
       /\ PassesGates =>
             /\ apr.ref \in grants.spent \/ apr.ref.ex # OwnExecution
             /\ ~flags.abandoned]_vars

\* The answer to a request that was in flight when a transition landed "is then
\* the ended attempt's, and is not adopted".
AdoptedIsCurrent ==
    [][apr'.ref \notin {NoRef, apr.ref} => apr'.ref.att = apr'.attempt]_vars

\* _ensure_fresh_grant: "returns None only when the approved grant is bound to
\* the current proposal digest".
FlipIsFresh == [][Flips => apr.ref.dig = Digest(flipSlug)]_vars

\* At most one resume is open, and no execution of a resume that came from
\* another surface or actor ends Succeeded on a decision made before it (if no
\* grant was superseded).
ResumeIsDecided ==
    /\ Cardinality(Open) <= 1
    /\ \A r \in Requests :
         dlv[r].tr /\ dlv[r].phase = "Succeeded" /\ ~flags.gates /\ apr.count = 0
             => \E g \in grants.decided : g.att > ended

\* Every approval park is bounded, also the ones that ask again after a grant
\* was superseded: the loop passes its gates or it ends; and whatever it waits
\* for, an abandoned loop ends.
ParksEnd ==
    /\ pc = "park" ~> (flags.gates \/ pc = "done")
    /\ flags.abandoned ~> pc = "done"

\* An accepted resume is settled.
DeliveryEnds == \A r \in Requests : dlv[r].job # "none" ~> dlv[r].job = "none"
==============================================================================

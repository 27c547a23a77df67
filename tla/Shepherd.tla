------------------------------ MODULE Shepherd ------------------------------
(***************************************************************************)
(* The review and fix loop of Tier 3 (run_shepherd.py) on one proposal     *)
(* with an open pull request.  A pass lists the status file, takes a       *)
(* snapshot of the request, reads its reviews and checks, decides, and     *)
(* acts: waits, counts, pays for a follow-up run of the implementer,       *)
(* merges or declares the review stuck.  Passes overlap with the reconcile *)
(* pass, with people and bots on GitHub, and with a pod that is killed.    *)
(* What a pass writes it computes from what it listed.                     *)
(***************************************************************************)
EXTENDS Naturals, Sequences, FiniteSets

CONSTANTS
    Passes,             \* shepherd runs that may overlap
    MaxReviewAttempts,  \* MAX_REVIEW_ATTEMPTS
    MaxRefusals,        \* MAX_REFUSALS
    MaxHarness,         \* MAX_HARNESS_FAILURES
    InfraMax,           \* SHEPHERD_CI_INFRA_RERUN_MAX
    ProbeMax,           \* SHEPHERD_CI_PROBE_FAILURES_MAX
    UnknownMax,         \* SHEPHERD_MERGE_UNKNOWN_MAX
    MaxHead,            \* pushes after the first, by runs and by people
    Posted,             \* the kinds of posts the gating bots make
    MaxPosts,           \* posts of the bots on one head
    MaxTroubles,        \* kills, fenced and transient runs, all together
    PersonDecides       \* what a person's review may decide on GitHub

\* A review that approves or requests changes, a comment on a line, and on the
\* request a comment without and one with findings.
Kinds == {"approve", "request", "inline", "clean", "remark"}

ASSUME CapsAreNumbers ==
    /\ {MaxReviewAttempts, MaxRefusals, MaxHarness, ProbeMax, UnknownMax} \subseteq Nat \ {0}
    /\ {InfraMax, MaxHead, MaxPosts, MaxTroubles} \subseteq Nat
    /\ PersonDecides \subseteq {"approved", "changes"}
    /\ Posted \subseteq Kinds

VARIABLES
    file,       \* what .status.yaml says
    pr,         \* the pull request
    posts,      \* what the gating bots posted on the current head, oldest first
    pass,       \* where each shepherd pass is and what it has read
    rec,        \* the reconcile pass
    charged,    \* follow-up runs that did work since the file last started at zero
    troubles

vars == <<file, pr, posts, pass, rec, charged, troubles>>

Heads == 0..MaxHead
NoHead == MaxHead + 1

Statuses == {"in-progress", "implemented", "review-fixing", "review-stuck",
             "needs-triage", "merged", "rejected"}

-------------------------------------------------------------------------------
(* Reading the reviews: three listings, each of which may fail on its own  *)
(* and then counts as empty.                                               *)

Channel(kind) == CASE kind \in {"approve", "request"} -> "reviews"
                   [] kind = "inline" -> "comments"
                   [] OTHER -> "issue"

IsFinding(kind) == kind \in {"request", "inline", "remark"}

\* inline and remark are findings of the connector, which never counts as the
\* response of the review bot.
Review(answered) ==
    LET seen == {i \in DOMAIN posts : Channel(posts[i]) \in answered}
        verdicts == {i \in seen : posts[i] \in {"approve", "request", "clean"}}
    IN [responded |-> verdicts # {},
        findings  |-> \E i \in seen : IsFinding(posts[i]),
        verdict   |-> IF \E i \in verdicts : /\ posts[i] # "request"
                                             /\ \A j \in verdicts : j <= i
                      THEN "approved" ELSE IF verdicts = {} THEN "none" ELSE "changes"]

Reviews == [responded : BOOLEAN, findings : BOOLEAN, verdict : {"none", "changes", "approved"}]

\* What else a pass observes: the required checks (unknown: the probe failed),
\* the merge state, the rollup and the age of the head.
Observations == [ci : {"unknown", "infra", "failing", "pending", "passed"},
                 state : {"mergeable", "unknown", "other"},
                 draft : BOOLEAN, green : BOOLEAN, settled : BOOLEAN]

MergeDecision(o, fixOnly) ==
    IF o.state # "mergeable"
    THEN IF o.state = "unknown" /\ ~fixOnly /\ o.green /\ o.settled
         THEN "merge-state-unknown" ELSE "wait"
    ELSE IF ~o.green \/ ~o.settled THEN "wait"
    ELSE IF fixOnly THEN "defer-merge" ELSE "merge"

\* decide() for an open request
Decide(r, o, fixOnly) ==
    IF o.draft \/ ~r.responded THEN "wait"
    ELSE IF r.findings \/ o.ci = "failing" THEN "address-review"
    ELSE IF o.ci = "infra" THEN "ci-infra"
    ELSE IF o.ci = "unknown" THEN "ci-unknown"
    ELSE IF r.verdict # "approved" \/ o.ci = "pending" THEN "wait"
    ELSE MergeDecision(o, fixOnly)

\* What can be decided, and whether the probe of the checks answered.
Decisions == [r \in Reviews |-> [dirty \in BOOLEAN |-> [fixOnly \in BOOLEAN |->
    {[what |-> Decide(r, o, fixOnly), known |-> o.ci # "unknown"] :
        o \in {x \in Observations : dirty => x.state # "mergeable"}}]]]

-------------------------------------------------------------------------------
Nowhere == [pc |-> "idle"]

Fresh == [st |-> "implemented", review |-> 0, harness |-> 0,
          refusals |-> 0, refusalsHead |-> NoHead,
          infra |-> 0, infraHead |-> NoHead, probe |-> 0,
          unknown |-> 0, unknownHead |-> NoHead,
          prior |-> 0]

Init ==
    /\ file \in {Fresh, [Fresh EXCEPT !.st = "in-progress"]}
    /\ pr = [state |-> "open", head |-> 0, dirty |-> FALSE, approved |-> FALSE,
             by |-> "nobody", passed |-> FALSE]
    /\ posts = <<>>
    /\ pass = [p \in Passes |-> Nowhere]
    /\ rec = Nowhere
    /\ charged = 0
    /\ troubles = 0

Moves(p, s) == pass' = [pass EXCEPT ![p] = s]
Stops(p) == Moves(p, Nowhere)

\* The counters a decided proposal no longer needs.
Cleared(f) == [Fresh EXCEPT !.st = f.st, !.prior = f.prior]

-------------------------------------------------------------------------------
(* A shepherd pass.                                                        *)

\* _discover_refs; --fix-only and the mode of the service are given.
List(p) ==
    /\ pass[p].pc = "idle"
    /\ file.st \in {"implemented", "review-fixing", "in-progress"}
    /\ \E fixOnly \in BOOLEAN :
          Moves(p, [pc |-> "listed", ref |-> file, fixOnly |-> fixOnly])
    /\ UNCHANGED <<file, pr, posts, rec, charged, troubles>>

\* A merged or a closed request ends the proposal at once.
Flips(p) ==
    /\ pass[p].pc = "listed"
    /\ pr.state # "open"
    /\ file' = [Cleared(file) EXCEPT !.st = IF pr.state = "merged" THEN "merged" ELSE "rejected"]
    /\ Stops(p)
    /\ UNCHANGED <<pr, posts, rec, charged, troubles>>

\* No snapshot, or an attempt whose lease is fresh.
Skips(p) ==
    /\ pass[p].pc = "listed"
    /\ Stops(p)
    /\ UNCHANGED <<file, pr, posts, rec, charged, troubles>>

\* The snapshot of an open request, its reviews, its checks, and the decision.
\* The probe of the checks and the unknown merge state start over here.
\* standing is what FindingsGate compares with: was there a finding?
Looks(p) ==
    /\ pass[p].pc = "listed"
    /\ pr.state = "open"
    /\ \E answered \in SUBSET {"reviews", "comments", "issue"} :
       \E d \in Decisions[Review(answered)][pr.dirty][pass[p].fixOnly] :
          LET ref == pass[p].ref
              st == IF ref.st = "in-progress" THEN "implemented" ELSE ref.st
              clears == d.what # "merge-state-unknown" /\ ref.unknown > 0
              writes == d.known \/ clears \/ st # ref.st
              Reset(f) == [f EXCEPT !.st = st,
                              !.probe = IF d.known /\ ref.probe > 0 THEN 0 ELSE @,
                              !.unknown = IF clears THEN 0 ELSE @,
                              !.unknownHead = IF clears THEN NoHead ELSE @]
          IN /\ file' = IF writes THEN Reset(file) ELSE file
             /\ IF d.what = "wait" THEN Stops(p)
                ELSE Moves(p, [pc |-> d.what, ref |-> Reset(ref), head |-> pr.head,
                               standing |-> d.what = "merge" /\ \E i \in DOMAIN posts : IsFinding(posts[i])])
    /\ UNCHANGED <<pr, posts, rec, charged, troubles>>

\* One more; at the limit, where nothing depends on the number any longer, the
\* model stops counting.
OneMore(n, limit) == IF n < limit THEN n + 1 ELSE limit


\* One more on the same head, or the first on a new one.
Counted(n, on, head, limit) == IF on \in {NoHead, head} THEN OneMore(n, limit) ELSE 1

\* The three outages that are nobody's fault: an unknown merge state, required
\* checks that failed with their runner, and checks that cannot be read.
WaitsForMergeState(p) ==
    LET ref == pass[p].ref
        n == Counted(ref.unknown, ref.unknownHead, pass[p].head, UnknownMax)
    IN /\ pass[p].pc = "merge-state-unknown"
       /\ file' = [file EXCEPT !.st = IF n >= UnknownMax THEN "review-stuck" ELSE ref.st,
                               !.unknown = n, !.unknownHead = pass[p].head]
       /\ Stops(p)
       /\ UNCHANGED <<pr, posts, rec, charged, troubles>>

RerunsChecks(p) ==
    LET ref == pass[p].ref
        n == Counted(ref.infra, ref.infraHead, pass[p].head, InfraMax + 1)
    IN /\ pass[p].pc = "ci-infra"
       /\ file' = [file EXCEPT !.st = IF n > InfraMax THEN "review-stuck" ELSE ref.st,
                               !.infra = n, !.infraHead = pass[p].head]
       /\ Stops(p)
       /\ UNCHANGED <<pr, posts, rec, charged, troubles>>

WaitsForChecks(p) ==
    LET ref == pass[p].ref
        n == OneMore(ref.probe, ProbeMax)
    IN /\ pass[p].pc = "ci-unknown"
       /\ file' = [file EXCEPT !.st = IF n >= ProbeMax THEN "review-stuck" ELSE ref.st,
                               !.probe = n]
       /\ Stops(p)
       /\ UNCHANGED <<pr, posts, rec, charged, troubles>>

\* A clean request whose merge is someone else's.
Defers(p) ==
    /\ pass[p].pc = "defer-merge"
    /\ file' = [file EXCEPT !.st = pass[p].ref.st]
    /\ Stops(p)
    /\ UNCHANGED <<pr, posts, rec, charged, troubles>>

\* _update_status_if_changed with the status of the listing
Keeps(p, changes) == file' = [changes EXCEPT !.st = pass[p].ref.st]

-------------------------------------------------------------------------------
(* Addressing a review: a paid run of the implementer.                     *)

GivesUpReview(p) ==
    /\ pass[p].pc = "address-review"
    /\ pass[p].ref.review >= MaxReviewAttempts
    /\ file' = [file EXCEPT !.st = "review-stuck"]
    /\ Stops(p)
    /\ UNCHANGED <<pr, posts, rec, charged, troubles>>

StartsRun(p) ==
    /\ pass[p].pc = "address-review"
    /\ pass[p].ref.review < MaxReviewAttempts
    /\ Moves(p, [pass[p] EXCEPT !.pc = "working"])
    /\ UNCHANGED <<file, pr, posts, rec, charged, troubles>>

Charge == charged' = IF charged < MaxReviewAttempts THEN charged + 1 ELSE charged

\* A new head: what was posted belongs to the old one.
NewHead ==
    /\ pr.state = "open" /\ pr.head < MaxHead
    /\ \E dirty \in {pr.dirty, FALSE}, approved \in {pr.approved, FALSE} :
          pr' = [pr EXCEPT !.head = @ + 1, !.dirty = dirty,
                           !.approved = approved, !.passed = FALSE]
    /\ posts' = <<>>

\* The run pushed its fix, or failed in a way that is the proposal's fault.
RunSucceeds(p) ==
    /\ pass[p].pc = "working"
    /\ NewHead
    /\ Charge
    /\ Moves(p, [pass[p] EXCEPT !.pc = "charging"])
    /\ UNCHANGED <<file, rec, troubles>>

RunFails(p) ==
    /\ pass[p].pc = "working"
    /\ Charge
    /\ IF pass[p].ref.review + 1 >= MaxReviewAttempts
       THEN /\ file' = [file EXCEPT !.st = "review-stuck", !.review = pass[p].ref.review + 1]
            /\ Stops(p)
       ELSE /\ Moves(p, [pass[p] EXCEPT !.pc = "charging"])
            /\ UNCHANGED file
    /\ UNCHANGED <<pr, posts, rec, troubles>>

\* The run is written down in two steps.
Charges(p) ==
    /\ pass[p].pc = "charging"
    /\ file' = [file EXCEPT !.st = "review-fixing", !.review = pass[p].ref.review + 1,
                            !.harness = 0, !.refusals = 0, !.refusalsHead = NoHead]
    /\ Moves(p, [pass[p] EXCEPT !.pc = "charged"])
    /\ UNCHANGED <<pr, posts, rec, charged, troubles>>

Returns(p) ==
    /\ pass[p].pc = "charged"
    /\ file' = [file EXCEPT !.st = "implemented"]
    /\ Stops(p)
    /\ UNCHANGED <<pr, posts, rec, charged, troubles>>

\* The implementer declined to act: counted per head, never charged.
RunRefuses(p) ==
    LET n == Counted(pass[p].ref.refusals, pass[p].ref.refusalsHead, pass[p].head,
                     MaxRefusals)
    IN /\ pass[p].pc = "working"
       /\ file' = [file EXCEPT
                     !.st = IF n >= MaxRefusals THEN "review-stuck" ELSE pass[p].ref.st,
                     !.refusals = n, !.refusalsHead = pass[p].head, !.harness = 0]
       /\ Stops(p)
       /\ UNCHANGED <<pr, posts, rec, charged, troubles>>

\* Mutant: a lost run is charged as a review attempt.
HarnessFailsCharged(p) ==
    LET n == OneMore(pass[p].ref.harness, MaxHarness)
    IN /\ pass[p].pc = "working"
       /\ file' = [file EXCEPT
                     !.st = IF n >= MaxHarness THEN "review-stuck" ELSE pass[p].ref.st,
                     !.harness = n, !.review = pass[p].ref.review + 1]
       /\ Stops(p)
       /\ UNCHANGED <<pr, posts, rec, charged, troubles>>

\* The platform lost the run.
HarnessFails(p) ==
    LET n == OneMore(pass[p].ref.harness, MaxHarness)
    IN /\ pass[p].pc = "working"
       /\ file' = [file EXCEPT
                     !.st = IF n >= MaxHarness THEN "review-stuck" ELSE pass[p].ref.st,
                     !.harness = n]
       /\ Stops(p)
       /\ UNCHANGED <<pr, posts, rec, charged, troubles>>

\* Fenced by a claim check or failed transiently: nothing is counted.  The
\* model admits MaxTroubles of them, together with the kills.
RunIsLost(p) ==
    /\ pass[p].pc = "working"
    /\ troubles < MaxTroubles
    /\ troubles' = troubles + 1
    /\ Stops(p)
    /\ UNCHANGED <<file, pr, posts, rec, charged>>

-------------------------------------------------------------------------------
(* Merging.                                                                *)

\* Mutant: whatever the head is by now.
MergesAnyHead(p) ==
    /\ pass[p].pc = "merge"
    /\ pr.state = "open" /\ ~pr.dirty
    /\ pr' = [pr EXCEPT !.state = "merged", !.by = "shepherd"]
    /\ Moves(p, [pass[p] EXCEPT !.pc = "merged"])
    /\ Keeps(p, file)
    /\ UNCHANGED <<posts, rec, charged, troubles>>

\* GitHub merges the head of the snapshot (--match-head-commit) or nothing.
Merges(p) ==
    /\ pass[p].pc = "merge"
    /\ pr.state = "open" /\ ~pr.dirty
    /\ pr.head = pass[p].head
    /\ pr' = [pr EXCEPT !.state = "merged", !.by = "shepherd"]
    /\ Moves(p, [pass[p] EXCEPT !.pc = "merged"])
    /\ Keeps(p, file)
    /\ UNCHANGED <<posts, rec, charged, troubles>>

\* The policy or GitHub refuses, or the merge needs a person, which is told
\* once for a head.
MergeRefused(p) ==
    /\ pass[p].pc = "merge"
    /\ Keeps(p, file)
    /\ Stops(p)
    /\ UNCHANGED <<pr, posts, rec, charged, troubles>>

RecordsMerge(p) ==
    /\ pass[p].pc = "merged"
    /\ file' = [Cleared(file) EXCEPT !.st = "merged"]
    /\ Stops(p)
    /\ UNCHANGED <<pr, posts, rec, charged, troubles>>

Killed(p) ==
    /\ pass[p].pc # "idle"
    /\ troubles < MaxTroubles
    /\ troubles' = troubles + 1
    /\ Stops(p)
    /\ UNCHANGED <<file, pr, posts, rec, charged>>

-------------------------------------------------------------------------------
(* The reconcile pass (--reconcile) on a proposal with a request.          *)

\* A pass that listed the file some time before it gets to the proposal.
RecLists ==
    /\ rec.pc = "idle"
    /\ file.st # "merged"
    /\ troubles < MaxTroubles
    /\ troubles' = troubles + 1
    /\ rec' = [pc |-> "project", st |-> file.st]
    /\ UNCHANGED <<file, pr, posts, pass, charged>>

RecReady == rec.pc = "project" \/ file.st # "merged"

Listed == IF rec.pc = "project" THEN rec.st ELSE file.st

RecEnds(f) == file' = f /\ rec' = Nowhere /\ UNCHANGED <<pr, posts, pass, troubles>>

NoReview(f) == [f EXCEPT !.review = 0, !.harness = 0, !.refusals = 0, !.refusalsHead = NoHead]

\* Mutant: only what the shepherd would look at is projected.
RecFlipsUnlessStuck ==
    /\ RecReady
    /\ pr.state # "open"
    /\ RecEnds(IF Listed \in {"review-stuck", "needs-triage"} THEN file
               ELSE [NoReview(file) EXCEPT
                   !.st = IF pr.state = "merged" THEN "merged" ELSE "rejected",
                   !.unknown = 0, !.unknownHead = NoHead, !.prior = pr.head])
    /\ UNCHANGED charged

RecFlips ==
    /\ RecReady
    /\ pr.state # "open"
    /\ RecEnds([NoReview(file) EXCEPT
                   !.st = IF pr.state = "merged" THEN "merged" ELSE "rejected",
                   !.unknown = 0, !.unknownHead = NoHead, !.prior = pr.head])
    /\ UNCHANGED charged

\* A confirmed conflict stays until another head is seen to be mergeable.
KeepsConflict(state) ==
    /\ Listed = "needs-triage"
    /\ state # "dirty"
    /\ state # "mergeable" \/ file.prior = pr.head

Lifts == Listed = "review-stuck" /\ (pr.approved \/ file.prior # pr.head)

Target == IF Lifts \/ Listed \in {"in-progress", "needs-triage", "rejected"}
          THEN "implemented" ELSE Listed

RecProjects ==
    /\ RecReady
    /\ pr.state = "open"
    /\ \E state \in {IF pr.dirty THEN "dirty" ELSE "mergeable", "other"} :
          \/ KeepsConflict(state) /\ RecEnds(file) /\ UNCHANGED charged
          \/ /\ state = "dirty"
             /\ RecEnds([file EXCEPT !.st = "needs-triage", !.prior = pr.head])
             /\ UNCHANGED charged
          \/ /\ state # "dirty" /\ ~KeepsConflict(state)
             /\ RecEnds([IF Lifts THEN NoReview(file) ELSE file EXCEPT
                            !.st = Target, !.prior = pr.head])
             /\ charged' = IF Lifts THEN 0 ELSE charged

\* GitHub could not be read.
RecSkips ==
    /\ rec.pc = "project"
    /\ RecEnds(file)
    /\ UNCHANGED charged

-------------------------------------------------------------------------------
(* GitHub: bots, people, the base branch.                                  *)

BotPosts ==
    /\ pr.state = "open"
    /\ Len(posts) < MaxPosts
    /\ \E k \in Posted :
          /\ posts' = Append(posts, k)
          /\ pr' = [pr EXCEPT !.passed = @ \/ k \in {"approve", "clean"}]
    /\ UNCHANGED <<file, pass, rec, charged, troubles>>

PersonPushes == NewHead /\ UNCHANGED <<file, pass, rec, charged, troubles>>

PersonEnds ==
    /\ pr.state = "open"
    /\ \E s \in {"merged", "closed"} : pr' = [pr EXCEPT !.state = s, !.by = "person"]
    /\ UNCHANGED <<file, posts, pass, rec, charged, troubles>>

PersonReviews ==
    /\ pr.state = "open"
    /\ \E decision \in PersonDecides : pr' = [pr EXCEPT !.approved = (decision = "approved")]
    /\ UNCHANGED <<file, posts, pass, rec, charged, troubles>>

BaseMoves ==
    /\ pr.state = "open" /\ ~pr.dirty
    /\ pr' = [pr EXCEPT !.dirty = TRUE]
    /\ UNCHANGED <<file, posts, pass, rec, charged, troubles>>

-------------------------------------------------------------------------------
RunEnds(p) == RunSucceeds(p) \/ RunFails(p) \/ RunRefuses(p) \/ HarnessFails(p)

Acts(p) ==
    \/ List(p) \/ Flips(p) \/ Looks(p)
    \/ WaitsForMergeState(p) \/ RerunsChecks(p) \/ WaitsForChecks(p) \/ Defers(p)
    \/ GivesUpReview(p) \/ StartsRun(p) \/ RunEnds(p) \/ Charges(p) \/ Returns(p)
    \/ Merges(p) \/ MergeRefused(p) \/ RecordsMerge(p)

RecActs == RecFlips \/ RecProjects

Next ==
    \/ \E p \in Passes : Acts(p) \/ Skips(p) \/ RunIsLost(p) \/ Killed(p)
    \/ RecLists \/ RecActs \/ RecSkips
    \/ BotPosts \/ PersonPushes \/ PersonEnds \/ PersonReviews \/ BaseMoves

Spec == Init /\ [][Next]_vars

(***************************************************************************)
(* Both passes are scheduled again and again and their steps end; GitHub   *)
(* can be read from time to time.  Nothing is assumed of people and bots.  *)
(***************************************************************************)
Fairness ==
    /\ \A p \in Passes : WF_vars(Acts(p)) /\ SF_vars(Flips(p))
    /\ WF_vars(RecActs) /\ SF_vars(RecFlips)

FairSpec == Spec /\ Fairness

-------------------------------------------------------------------------------
(* Properties.                                                             *)

Numbers == Heads \cup {NoHead}

Files == [st : Statuses, review : 0..MaxReviewAttempts, harness : Nat,
          refusals : Nat, refusalsHead : Numbers,
          infra : Nat, infraHead : Numbers, probe : Nat,
          unknown : Nat, unknownHead : Numbers, prior : Numbers]

Requests == [state : {"open", "merged", "closed"}, head : Heads, dirty : BOOLEAN,
             approved : BOOLEAN, by : {"nobody", "shepherd", "person"}, passed : BOOLEAN]

Deeds == {"merge-state-unknown", "ci-infra", "ci-unknown", "address-review",
          "defer-merge", "merge"}

Working == {"working", "charging", "charged", "merged"}

PassStates == {Nowhere} \cup [pc : {"listed"}, ref : Files, fixOnly : BOOLEAN]
                \cup [pc : Deeds \cup Working, ref : Files, head : Heads, standing : BOOLEAN]

\* Every variable has its type, and nobody pays for more runs than allowed.
TypeOK ==
    /\ file \in Files /\ pr \in Requests
    /\ posts \in Seq(Kinds) /\ Len(posts) <= MaxPosts
    /\ pass \in [Passes -> PassStates]
    /\ rec \in {Nowhere} \cup [pc : {"project"}, st : Statuses]
    /\ charged \in 0..MaxReviewAttempts /\ troubles \in 0..MaxTroubles

\* The shepherd merges only a head on which the review bot approved, also when
\* somebody pushes between its snapshot and its merge, and when listings of
\* the reviews fail (decide, merge_pr_unchecked).
MergesApproved == [][pr'.by = "shepherd" /\ pr.by # "shepherd" => pr.passed]_vars

\* "the proposal is blameless, so it must not be charged an attempt": the
\* attempts on record are follow-up runs that pushed or failed by their own
\* fault since the last reset, whatever refusals, outages and lost runs came
\* between (process_one).
BlamelessIsFree == file.review <= charged


\* A merge, by whomever, ends up in the status file and stays there, whatever
\* is written from an older listing (process_one, reconcile_one).
MergeIsRecorded == <>[](pr.state = "merged" => file.st = "merged")

\* run_shepherd.py:153-155 says that findings of the connector on the current
\* head "gate the merge exactly like" those of the review bot.
FindingsGate ==
    [][pr'.by = "shepherd" /\ pr.by # "shepherd" =>
          \A p \in Passes : pass[p].pc = "merge" /\ pass'[p].pc = "merged" => ~pass[p].standing]_vars

\* run_shepherd.py:495-500 says that a series of refusals on one head "is a
\* standoff" and "converges to `review-stuck`".
StandoffConverges == <>[](\A p \in Passes : pass[p].pc # "working")
===============================================================================

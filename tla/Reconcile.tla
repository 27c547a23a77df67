------------------------------ MODULE Reconcile ------------------------------
(***************************************************************************)
(* The implementer pods together with the reconcile pass of Tier 3         *)
(* (run_shepherd.py --reconcile), which projects what GitHub says onto the *)
(* same status file.  The pass reads the status of every proposal first    *)
(* and handles them one by one, so what it read may be old when it writes. *)
(***************************************************************************)
EXTENDS Implementer

VARIABLE rec   \* where the pass is and what it has read, or is about to write

allVars == <<vars, rec>>

RecNowhere == [pc |-> "idle", st |-> "accepted", fail |-> "none"]

RecInit == Init /\ rec = RecNowhere

-------------------------------------------------------------------------------
(* The reconcile pass: _discover_refs, then reconcile_one per proposal.    *)

RecIdle == rec' = RecNowhere

\* Mutant: rejected counts as over.
RecDiscoverUndecided ==
    /\ rec.pc \in {"idle", "died"}
    /\ status.st \notin {"merged", "rejected"}
    /\ rec' = [pc |-> "look", st |-> status.st, fail |-> "none"]
    /\ UNCHANGED vars

\* Every status but proposed and merged; a pass that died starts over.
RecDiscover ==
    /\ rec.pc \in {"idle", "died"}
    /\ status.st # "merged"
    /\ rec' = [pc |-> "look", st |-> status.st, fail |-> "none"]
    /\ UNCHANGED vars

\* The pass has made up its mind; a failure it does not give is "kept".
RecDecides(st, fail) == rec' = [pc |-> "write", st |-> st, fail |-> fail]

Repaired == {"accepted", "in-progress", "needs-triage", "rejected"}

\* Without a new head, which is not modelled, a merge conflict may stay.
KeepsConflict == rec.st = "needs-triage" /\ status.fail = "conflict" /\ pr \in OpenPR

RecProjects ==
    \/ pr = "merged" /\ RecDecides("merged", "none")
    \/ pr = "closed" /\ RecDecides("rejected", "none")
    \/ pr = "dirty" /\ RecDecides("needs-triage", "conflict")
    \/ pr = "open" /\ RecDecides("implemented", IF rec.st \in Repaired THEN "none" ELSE "kept")
    \/ KeepsConflict /\ RecIdle

\* The failure is read again here, the status is the one of the discovery; the
\* failure counts for what was in triage then.
RecLook ==
    /\ rec.pc = "look"
    /\ IF pr # "none" THEN RecProjects
       ELSE IF rec.st \in {"merged", "rejected"} THEN RecIdle
       ELSE /\ branch = NoOne
            /\ rec' = [rec EXCEPT !.pc = "absent",
                          !.fail = IF rec.st = "needs-triage" THEN status.fail ELSE "none"]
    /\ UNCHANGED vars

\* GitHub unreadable, or the policy checkpoint refuses to open the request.
RecGivesUp ==
    /\ rec.pc = "look"
    /\ RecIdle
    /\ UNCHANGED vars

\* A branch without commits of its own.
RecRejects ==
    /\ rec.pc = "look"
    /\ pr = "none" /\ branch # NoOne
    /\ rec.st \notin {"merged", "rejected"}
    /\ status' = [To("needs-triage") EXCEPT !.fail = "run"]
    /\ RecIdle
    /\ UNCHANGED <<claim, hubVars, podVars>>

\* A pushed branch without a request: _open_pr_for_branch gets the shepherd's
\* ProposalRef, _mark_grant_executed reads its grant_id, and there is none.
RecOpensPR ==
    /\ rec.pc = "look"
    /\ pr = "none" /\ branch # NoOne
    /\ rec.st \notin {"merged", "rejected"}
    /\ rec' = [rec EXCEPT !.pc = "died", !.st = "accepted"]
    /\ UNCHANGED vars

\* Mutants: an outage frees every attempt; an attempt on record is never free.
FreshIfKnown(verdict) ==
    IF NewAnswerMayVeto /\ status.att # NoOne
    THEN verdict \in {"held-by-me", "held-by-other"} \/ status.fresh
    ELSE status.fresh

FreshIfRecorded(verdict) == status.att # NoOne \/ status.fresh

\* _attempt_is_fresh for one answer of the claim service
AttemptIsFresh(verdict) ==
    IF NewAnswerMayVeto /\ status.att # NoOne
    THEN \/ verdict \in {"held-by-me", "held-by-other"}
         \/ verdict = "unknown" /\ BlocksOnUnknown
         \/ ~NewAnswerDecides /\ status.fresh
    ELSE status.fresh

FreshnessVerdicts ==
    IF status.att = NoOne THEN {"unknown"}
    ELSE {ClientVerdict("check", r.answer) : r \in Ask("check", status.att)}

\* Failures other than these say more than "there is no request".
Preserved == rec.st = "needs-triage" /\ rec.fail \notin {"none", "absent"}

\* The source issue is read last; a diagnosis already on record stays when that
\* read fails.
RecLeaves ==
    /\ rec.pc = "absent"
    /\ \/ rec.st = "accepted"
       \/ rec.st = "needs-triage" /\ rec.fail # "none"
       \/ /\ rec.st = "in-progress"
          /\ \E v \in FreshnessVerdicts : AttemptIsFresh(v)
    /\ RecIdle
    /\ UNCHANGED vars

RecFindsNobody ==
    /\ rec.pc = "absent"
    /\ rec.st # "accepted" /\ ~Preserved
    /\ rec.st = "in-progress" => \E v \in FreshnessVerdicts : ~AttemptIsFresh(v)
    /\ RecDecides("needs-triage", "absent")
    /\ UNCHANGED vars

\* _update_status_if_changed, from what was read before.
RecWrites ==
    /\ rec.pc = "write"
    /\ status' = [status EXCEPT !.st = rec.st, !.fail = IF rec.fail = "kept" THEN @ ELSE rec.fail]
    /\ RecIdle
    /\ UNCHANGED <<claim, hubVars, podVars>>

-------------------------------------------------------------------------------
RecStep ==
    \/ RecDiscover \/ RecLook \/ RecGivesUp \/ RecRejects \/ RecOpensPR
    \/ RecLeaves \/ RecFindsNobody \/ RecWrites

RecNext == RecStep \/ (Next /\ UNCHANGED rec)

RecSpec == RecInit /\ [][RecNext]_allVars

(***************************************************************************)
(* The pass is scheduled again and again, GitHub and the claim service     *)
(* answer from time to time, and time passes: leases run out.  Nothing is  *)
(* assumed of the pods, which may hang or die anywhere.                    *)
(***************************************************************************)
Time == LeaseLapses \/ \E p \in Attempts : Expire(p)

Fairness ==
    /\ WF_allVars(RecStep)
    /\ SF_allVars(RecLook)
    /\ SF_allVars(RecFindsNobody)
    /\ WF_allVars(Time /\ UNCHANGED rec)

FairRecSpec == RecSpec /\ Fairness

-------------------------------------------------------------------------------
(* Properties.                                                             *)

\* At enforce the pass never concludes that a proposal it saw in-progress is
\* abandoned while the attempt its status names holds a live claim, also when
\* the claim service does not answer (_attempt_is_fresh).
LiveAttemptIsKept ==
    [][Enforced /\ rec.st = "in-progress" /\ rec.pc = "absent" /\ rec'.pc = "write"
       => status.att \notin Active]_allVars

\* An attempt that hangs or dies without a result does not keep its proposal
\* in-progress for ever (reconcile_one).
StrandedIsTriaged ==
    status.st = "in-progress" /\ branch = NoOne
        ~> status.st # "in-progress" \/ branch # NoOne

\* A merge on GitHub reaches the status file, whatever stale write of a pod
\* comes between (reconcile_one).
MergeIsRecorded == pr = "merged" ~> status.st = "merged"

\* run_shepherd.py calls handing its own ProposalRef to the preflight "safe at
\* runtime"; the pass must survive every proposal it meets.
PassSurvives == rec.pc # "died"
===============================================================================

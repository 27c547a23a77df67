---------------------------- MODULE Investigation ----------------------------
(***************************************************************************)
(* One run of the issue investigator (Tier 1,                              *)
(* orchestrator/run_issue_investigator.py) on the proposal of one issue:   *)
(* the guard on a proposal that is already decided, the clarification      *)
(* draft that is sealed or dropped, and the swap that publishes a new      *)
(* proposal directory in place of the old one.  A person may accept the    *)
(* proposal at any time, an operation on the file system may fail, and the *)
(* pod may be killed between any two steps.                                *)
(***************************************************************************)
EXTENDS Naturals, FiniteSets

CONSTANTS
    Questions,      \* what the agent may ask
    MaxRounds,      \* MAX_CLARIFICATION_ROUNDS
    MaxLoops,       \* bound: DevLoop executions of the issue
    MaxFaults,      \* bound: failures of a file operation
    MaxKills        \* bound: investigator pods killed

ASSUME InvestigationAssumption ==
    {MaxRounds, MaxLoops, MaxFaults, MaxKills} \subseteq Nat

VARIABLES
    live,           \* the directory at the proposal's path
    aside,          \* the previous proposal while a publish is under way
    staging,        \* the directory this run is about to publish
    stranded,       \* proposals left in scratch, reachable by hand only
    accepted,       \* history: the proposals a person accepted
    refused,        \* history: the accepted ones that a publish removed because
                    \* they had been accepted before it could verify them
    run,            \* the investigator run
    faults,         \* file operations that failed so far
    kills           \* pods killed so far

investigationVars == <<live, aside, staging, stranded, accepted, refused, run, faults,
                       kills>>

\* A sealed request: its id and its hash cover the execution that asks, the
\* round and the question, so a retry seals the same one.
Requests == [loop : 1..MaxLoops, round : 1..MaxRounds, question : Questions]
NoRequest == [loop |-> 0, round |-> 0, question |-> "none"]

\* A proposal directory: its .status.yaml, the answers its documents were
\* written with, and its human-input/request.json.
Directory(status, answers, ask) == [status |-> status, answers |-> answers, ask |-> ask]
Absent == Directory("absent", {}, NoRequest)

Steps == {"idle", "guard", "agent", "aside", "status", "carry", "swap", "landed",
          "restore", "done"}
Results == {"none", "succeeded", "skipped", "failed"}

InitInvestigation ==
    /\ live = Absent /\ aside = Absent /\ staging = Absent
    /\ stranded = {} /\ accepted = {} /\ refused = {}
    /\ run = [step |-> "idle", loop |-> 0, answers |-> {}, asked |-> NoRequest,
              result |-> "none"]
    /\ faults = 0 /\ kills = 0

Goto(step) == run' = [run EXCEPT !.step = step]
Finish(result) == run' = [run EXCEPT !.step = "done", !.result = result]
At(step) == run.step = step

(* DevLoop execution l submits the CWFT with the answers it accepted.      *)
Submit(l, answers) ==
    run' = [step |-> "guard", loop |-> l, answers |-> answers, asked |-> NoRequest,
            result |-> "none"]

(* The idempotency guard: a proposal past `proposed` is somebody else's,   *)
(* and the run exits 0 without writing.  So does a first run that its work *)
(* item refuses (a continuation names none), and a run may fail before the *)
(* agent starts.                                                           *)
Guard ==
    /\ At("guard")
    /\ \/ (live.status = "accepted" \/ run.answers = {}) /\ Finish("skipped")
       \/ live.status # "accepted" /\ Goto("agent")
       \/ Finish("failed")
    /\ UNCHANGED <<live, aside, staging, stranded, accepted, refused, faults, kills>>

(* `_seal_draft`: the orchestrator names the loop and the round, the agent *)
(* only the question.  No draft is sealed once the rounds are used up, and *)
(* one may be refused (malformed, no loop ids, a bot's issue).             *)
Sealed(question) ==
    {NoRequest} \cup
    (IF Cardinality(run.answers) < MaxRounds
     THEN {[loop |-> run.loop, round |-> Cardinality(run.answers) + 1,
            question |-> question]}
     ELSE {})

(* The agent writes the triplet into staging, with or without a draft, or  *)
(* its output is incomplete and nothing is published.                      *)
Agent ==
    /\ At("agent")
    /\ \/ /\ \E q \in Questions : \E asked \in Sealed(q) :
               /\ staging' = Directory("proposed", run.answers, asked)
               /\ run' = [run EXCEPT !.step = "aside", !.asked = asked]
       \/ Finish("failed") /\ UNCHANGED staging
    /\ UNCHANGED <<live, aside, stranded, accepted, refused, faults, kills>>

(* The live proposal is renamed aside.  A failure here leaves it in place. *)
MoveAside ==
    /\ At("aside")
    /\ aside' = live
    /\ live' = Absent
    /\ Goto(IF live = Absent THEN "carry" ELSE "status")
    /\ UNCHANGED <<staging, stranded, accepted, refused, faults, kills>>

\* A bug: the status is the one the guard read, minutes ago.
ReadStatusStale ==
    /\ At("status")
    /\ Goto("carry")
    /\ UNCHANGED <<live, aside, staging, stranded, accepted, refused, faults, kills>>

(* The status is read again, where no one can change it any more.          *)
ReadStatus ==
    /\ At("status")
    /\ Goto(IF aside.status = "proposed" THEN "carry" ELSE "restore")
    /\ UNCHANGED <<live, aside, staging, stranded, accepted, refused, faults, kills>>

(* `_carry_forward`, `_apply_human_input_continuation`: what this run did  *)
(* not write is carried over, but for a request it was given the answer to.*)
Carry ==
    /\ At("carry")
    /\ staging' = [staging EXCEPT !.ask =
            IF run.asked # NoRequest THEN run.asked
            ELSE IF aside.ask \in run.answers THEN NoRequest ELSE aside.ask]
    /\ Goto("swap")
    /\ UNCHANGED <<live, aside, stranded, accepted, refused, faults, kills>>

Swap ==
    /\ At("swap")
    /\ live' = staging
    /\ staging' = Absent
    /\ Goto("landed")
    /\ UNCHANGED <<aside, stranded, accepted, refused, faults, kills>>

\* What landed is removed: an acceptance written since the swap goes with it.
RemoveLanded ==
    /\ live' = Absent
    /\ refused' = IF live.status = "accepted" THEN refused \cup {live} ELSE refused

(* `_verify_landed`, `_landed_triplet_defects`: what landed is what was    *)
(* verified and still says `proposed`.  An acceptance that is already      *)
(* there counts as a forgery: the directory goes, the old one comes back.  *)
Landed ==
    /\ At("landed")
    /\ IF live.status = "proposed"
       THEN aside' = Absent /\ Finish("succeeded") /\ UNCHANGED <<live, refused>>
       ELSE RemoveLanded /\ Goto("restore") /\ UNCHANGED aside
    /\ UNCHANGED <<staging, stranded, accepted, faults, kills>>

(* A file operation fails.  Before the first rename nothing has to be put  *)
(* back; what cannot be verified after the last one is removed.            *)
Fault ==
    /\ faults < MaxFaults
    /\ faults' = faults + 1
    /\ \/ /\ At("aside") /\ Finish("failed")
          /\ staging' = Absent
          /\ UNCHANGED <<live, refused>>
       \/ /\ run.step \in {"status", "carry", "swap"} /\ Goto("restore")
          /\ UNCHANGED <<live, staging, refused>>
       \/ /\ At("landed") /\ Goto("restore")
          /\ RemoveLanded
          /\ UNCHANGED staging
    /\ UNCHANGED <<aside, stranded, accepted, kills>>

(* The rollback of a publish: whatever is in the way goes and the previous *)
(* proposal is put back; if that fails its scratch copy is kept.           *)
Restore ==
    /\ At("restore")
    /\ \/ /\ live' = aside
          /\ UNCHANGED <<stranded, faults>>
       \/ /\ aside # Absent /\ faults < MaxFaults
          /\ faults' = faults + 1
          /\ stranded' = stranded \cup {aside}
          /\ UNCHANGED live
    /\ aside' = Absent /\ staging' = Absent
    /\ Finish("failed")
    /\ UNCHANGED <<accepted, refused, kills>>

(* The pod dies: nothing is rolled back.                                   *)
Kill ==
    /\ run.step \notin {"idle", "done"}
    /\ kills < MaxKills
    /\ kills' = kills + 1
    /\ stranded' = IF aside = Absent THEN stranded ELSE stranded \cup {aside}
    /\ aside' = Absent /\ staging' = Absent
    /\ Finish("failed")
    /\ UNCHANGED <<live, accepted, refused, faults>>

(* A person accepts the proposal (external).                               *)
AcceptProposal ==
    /\ live.status = "proposed"
    /\ live' = [live EXCEPT !.status = "accepted"]
    /\ accepted' = accepted \cup {live'}
    /\ UNCHANGED <<aside, staging, stranded, refused, run, faults, kills>>

Work == Guard \/ Agent \/ MoveAside \/ ReadStatus \/ Carry \/ Swap \/ Landed \/ Restore
Trouble == Fault \/ Kill \/ AcceptProposal
-----------------------------------------------------------------------------
Directories == [status : {"absent", "proposed", "accepted"}, answers : SUBSET Requests,
                ask : Requests \cup {NoRequest}]
Runs == [step : Steps, loop : 0..MaxLoops, answers : SUBSET Requests,
         asked : Requests \cup {NoRequest}, result : Results]

InvestigationTypes ==
    /\ {live, aside, staging} \cup stranded \cup accepted \cup refused \subseteq Directories
    /\ run \in Runs
    /\ faults \in 0..MaxFaults /\ kills \in 0..MaxKills

(* No publish replaces an accepted proposal by a fresh one: every proposal *)
(* a person accepted is at its path, or in the copy that a failed or       *)
(* killed publish left for a person to put back, or it is one that the     *)
(* publish had just put there itself and that was accepted before it had   *)
(* verified it (`_ProposalAdvanced`, the status read of the renamed copy,  *)
(* `_landed_triplet_defects`).                                             *)
AcceptanceKept == accepted \subseteq {live, aside} \cup stranded \cup refused

-----------------------------------------------------------------------------
(* What the publish does not give.                                         *)

(* No acceptance is lost.  One of the directory that has just landed is    *)
(* taken for a forgery and removed with it, although an accepted proposal  *)
(* is what the publish is careful not to revoke elsewhere                  *)
(* (run_issue_investigator.py:4180-4185).                                  *)
AcceptanceNeverLost == accepted \subseteq {live, aside} \cup stranded
=============================================================================

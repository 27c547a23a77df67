------------------------- MODULE ClarificationProofs -------------------------
(***************************************************************************)
(* Proofs about Investigation and Clarification, for any questions and any *)
(* numbers of rounds, executions, failures and kills: the types, that the  *)
(* only acceptance a publish loses is one of what it has put there itself  *)
(* and not verified yet, that a loop waits on a question of its own round  *)
(* only, and that what it parks with was written with every answer it      *)
(* accepted.                                                               *)
(***************************************************************************)
EXTENDS Clarification, TLAPS, FiniteSetTheorems

\* What a publish has in its hands at each step: the previous proposal is
\* aside only between the two renames, the path is empty from the first to
\* the second, and what was read aside after the rename was not accepted; what
\* a person accepted says so.
PublishSound ==
    /\ run.step \in {"idle", "guard", "agent", "aside", "done"} => aside = Absent
    /\ run.step \in {"status", "carry", "swap", "restore"} => live = Absent
    /\ run.step \in {"carry", "swap", "landed"} => aside.status # "accepted"
    /\ run.step \in {"idle", "guard", "agent", "landed", "done"} => staging = Absent
    /\ \A d \in accepted : d.status = "accepted"

\* The documents were written with the answers the run was given, and a run
\* that is over says how it ended.
WrittenSound ==
    /\ run.step \in {"aside", "status", "carry", "swap"} => staging.answers = run.answers
    /\ run.step = "landed" => live.answers = run.answers
    /\ run.step = "done" =>
          /\ run.result # "none"
          /\ run.result = "succeeded" => live.answers = run.answers
          /\ run.result = "skipped" => live.status = "accepted" \/ run.answers = {}

\* The run is the loop's, and what the loop counts is what it has accepted.
LoopSound ==
    /\ run.loop = execution /\ run.answers = answers
    /\ run.step # "idle" => execution > 0
    /\ IsFiniteSet(answers) /\ Cardinality(answers) = resumes
    /\ \A r \in answers : r.question \in resolved
    /\ pc # "investigating" => run.step \in {"idle", "done"}
    /\ pc \in {"reading", "waiting", "parked"} => run.step = "done" /\ run.result # "failed"
    /\ pc = "waiting" =>
          /\ request \in Requests /\ request = live.ask
          /\ request.loop = execution /\ request.question \notin resolved
          /\ resumes < MaxRounds

\* A request of this execution is answered, or is the one of the next round.
OfThisRound(r) ==
    /\ r.loop <= execution
    /\ r.loop = execution => r \in answers \/ r.round = resumes + 1

AskSound ==
    \A r \in {live.ask, aside.ask, staging.ask, run.asked} : r # NoRequest => OfThisRound(r)

IInv ==
    /\ TypeOK /\ PublishSound /\ WrittenSound /\ LoopSound /\ AskSound
    /\ AcceptanceKept /\ AnswersReachTheProposal
-----------------------------------------------------------------------------
\* Records and types

\* The bounds are numbers.
LEMMA Limits ==
    MaxRounds \in Nat /\ MaxLoops \in Nat /\ MaxFaults \in Nat /\ MaxKills \in Nat
  BY InvestigationAssumption

\* The absence of a request, and of a directory.
LEMMA Absence ==
    /\ NoRequest \notin Requests /\ NoRequest.loop = 0
    /\ Absent \in Directories /\ Absent.status = "absent" /\ Absent.ask = NoRequest
  BY DEF NoRequest, Requests, Absent, Directory, Directories

\* What a step of the run keeps of it.
SameRun == run'.loop = run.loop /\ run'.answers = run.answers /\ run'.asked = run.asked

\* The run goes on to another step.
LEMMA GotoFacts ==
    ASSUME run \in Runs, NEW step \in Steps, Goto(step)
    PROVE  run' \in Runs /\ SameRun /\ run'.step = step /\ run'.result = run.result
  BY DEF Goto, Runs, SameRun

\* The run is over.
LEMMA FinishFacts ==
    ASSUME run \in Runs, NEW result \in Results, Finish(result)
    PROVE  run' \in Runs /\ SameRun /\ run'.step = "done" /\ run'.result = result
  BY DEF Finish, Runs, SameRun, Steps

\* A new run of the loop.
LEMMA SubmitFacts ==
    ASSUME NEW l \in 0..MaxLoops, NEW given \in SUBSET Requests, Submit(l, given)
    PROVE  /\ run' \in Runs /\ run'.step = "guard" /\ run'.loop = l /\ run'.answers = given
           /\ run'.asked = NoRequest /\ run'.result = "none"
  BY DEF Submit, Runs, Steps, Results

\* A directory as the agent writes it.
LEMMA DirectoryFacts ==
    ASSUME NEW given \in SUBSET Requests, NEW ask \in Requests \cup {NoRequest}
    PROVE  /\ Directory("proposed", given, ask) \in Directories
           /\ Directory("proposed", given, ask).status = "proposed"
           /\ Directory("proposed", given, ask).answers = given
           /\ Directory("proposed", given, ask).ask = ask
  BY DEF Directory, Directories

\* The request that is sealed is of this execution and of the round that the
\* answers it was given make the next one.
LEMMA SealedFacts ==
    ASSUME IInv, run.step = "agent", NEW q \in Questions, NEW r \in Sealed(q)
    PROVE  r \in Requests \cup {NoRequest} /\ (r # NoRequest => OfThisRound(r))
<1>1. /\ run \in Runs /\ run.loop = execution /\ execution \in 1..MaxLoops
      /\ Cardinality(run.answers) = resumes /\ resumes \in Nat
  BY Limits DEF IInv, TypeOK, InvestigationTypes, LoopSound
<1>2. SUFFICES ASSUME r # NoRequest, resumes < MaxRounds,
                      r = [loop |-> execution, round |-> resumes + 1, question |-> q]
               PROVE  r \in Requests /\ OfThisRound(r)
  BY <1>1 DEF Sealed
<1>3. resumes + 1 \in 1..MaxRounds
  BY <1>1, <1>2, Limits
<1>4. r \in Requests
  BY <1>1, <1>2, <1>3 DEF Requests
<1> QED
  BY <1>1, <1>2, <1>4 DEF OfThisRound
-----------------------------------------------------------------------------
\* The run

\* What the steps of the run need of the loop, which they leave alone.
RunStep == (Work \/ Trouble) /\ UNCHANGED <<loopVars, expired>>

\* A step of the run keeps the types of what it writes.
LEMMA RunTypes ==
    ASSUME IInv, RunStep
    PROVE  InvestigationTypes'
<1> USE DEF Steps, Results
<1>1. /\ live \in Directories /\ aside \in Directories /\ staging \in Directories
      /\ stranded \subseteq Directories /\ accepted \subseteq Directories
      /\ refused \subseteq Directories /\ run \in Runs
      /\ faults \in 0..MaxFaults /\ kills \in 0..MaxKills
  BY DEF IInv, TypeOK, InvestigationTypes
<1>2. CASE Guard
  <2>1. run' \in Runs
    BY <1>1, <1>2, GotoFacts, FinishFacts DEF Guard
  <2> QED
    BY <1>1, <1>2, <2>1 DEF Guard, InvestigationTypes
<1>3. CASE Agent
  <2>1. run' \in Runs /\ staging' \in Directories
    <3>1. CASE Finish("failed") /\ UNCHANGED staging
      BY <1>1, <3>1, FinishFacts
    <3>2. CASE \E q \in Questions : \E asked \in Sealed(q) :
                  /\ staging' = Directory("proposed", run.answers, asked)
                  /\ run' = [run EXCEPT !.step = "aside", !.asked = asked]
      <4>0. PICK q \in Questions : \E asked \in Sealed(q) :
                  /\ staging' = Directory("proposed", run.answers, asked)
                  /\ run' = [run EXCEPT !.step = "aside", !.asked = asked]
        BY <3>2
      <4>1. PICK asked \in Sealed(q) :
                  /\ staging' = Directory("proposed", run.answers, asked)
                  /\ run' = [run EXCEPT !.step = "aside", !.asked = asked]
        BY <4>0
      <4>2. asked \in Requests \cup {NoRequest} /\ run.answers \in SUBSET Requests
        BY <1>1, <1>3, SealedFacts DEF Agent, At, Runs
      <4> QED
        BY <1>1, <4>1, <4>2, DirectoryFacts DEF Runs
    <3> QED
      BY <1>3, <3>1, <3>2 DEF Agent
  <2> QED
    BY <1>1, <1>3, <2>1 DEF Agent, InvestigationTypes
<1>4. CASE MoveAside
  <2>1. run' \in Runs
    BY <1>1, <1>4, GotoFacts DEF MoveAside
  <2> QED
    BY <1>1, <1>4, <2>1, Absence DEF MoveAside, InvestigationTypes
<1>5. CASE ReadStatus
  <2>1. run' \in Runs
    BY <1>1, <1>5, GotoFacts DEF ReadStatus
  <2> QED
    BY <1>1, <1>5, <2>1 DEF ReadStatus, InvestigationTypes
<1>6. CASE Carry
  <2>1. run' \in Runs
    BY <1>1, <1>6, GotoFacts DEF Carry
  <2>2. PICK ask : staging' = [staging EXCEPT !.ask = ask] /\ ask \in Requests \cup {NoRequest}
    BY <1>1, <1>6 DEF Carry, Runs, Directories
  <2>3. staging' \in Directories
    BY <1>1, <2>2 DEF Directories
  <2> QED
    BY <1>1, <1>6, <2>1, <2>3 DEF Carry, InvestigationTypes
<1>7. CASE Swap
  <2>1. run' \in Runs
    BY <1>1, <1>7, GotoFacts DEF Swap
  <2> QED
    BY <1>1, <1>7, <2>1, Absence DEF Swap, InvestigationTypes
<1>8. CASE Landed
  <2>1. run' \in Runs
    BY <1>1, <1>8, GotoFacts, FinishFacts DEF Landed
  <2>2. refused' \subseteq Directories
    BY <1>1, <1>8 DEF Landed, RemoveLanded
  <2> QED
    BY <1>1, <1>8, <2>1, <2>2, Absence DEF Landed, RemoveLanded, InvestigationTypes
<1>9. CASE Restore
  <2>1. run' \in Runs
    BY <1>1, <1>9, FinishFacts DEF Restore
  <2>2. faults' \in 0..MaxFaults
    BY <1>1, <1>9, Limits DEF Restore
  <2> QED
    BY <1>1, <1>9, <2>1, <2>2, Absence DEF Restore, InvestigationTypes
<1>10. CASE Fault
  <2>1. run' \in Runs
    BY <1>1, <1>10, GotoFacts, FinishFacts DEF Fault
  <2>2. faults' \in 0..MaxFaults
    BY <1>1, <1>10, Limits DEF Fault
  <2>3. refused' \subseteq Directories
    BY <1>1, <1>10 DEF Fault, RemoveLanded
  <2> QED
    BY <1>1, <1>10, <2>1, <2>2, <2>3, Absence DEF Fault, RemoveLanded, InvestigationTypes
<1>11. CASE Kill
  <2>1. run' \in Runs
    BY <1>1, <1>11, FinishFacts DEF Kill
  <2>2. kills' \in 0..MaxKills
    BY <1>1, <1>11, Limits DEF Kill
  <2> QED
    BY <1>1, <1>11, <2>1, <2>2, Absence DEF Kill, InvestigationTypes
<1>12. CASE AcceptProposal
  <2>1. live' \in Directories
    BY <1>1, <1>12 DEF AcceptProposal, Directories
  <2> QED
    BY <1>1, <1>12, <2>1 DEF AcceptProposal, InvestigationTypes
<1> QED
  BY <1>2, <1>3, <1>4, <1>5, <1>6, <1>7, <1>8, <1>9, <1>10, <1>11, <1>12
    DEF RunStep, Work, Trouble

\* What the agent writes, if it writes.
LEMMA AgentFacts ==
    ASSUME IInv, Agent
    PROVE  \/ Finish("failed") /\ UNCHANGED staging
           \/ /\ staging' \in Directories /\ staging'.status = "proposed"
              /\ staging'.answers = run.answers /\ staging'.ask = run'.asked
              /\ run'.asked # NoRequest => OfThisRound(run'.asked)
              /\ run'.step = "aside" /\ run'.loop = run.loop /\ run'.answers = run.answers
<1>1. run \in Runs /\ run.answers \in SUBSET Requests /\ run.step = "agent"
  BY DEF IInv, TypeOK, InvestigationTypes, Runs, Agent, At
<1>2. SUFFICES ASSUME NEW q \in Questions, NEW asked \in Sealed(q),
                      staging' = Directory("proposed", run.answers, asked),
                      run' = [run EXCEPT !.step = "aside", !.asked = asked]
               PROVE  /\ staging' \in Directories /\ staging'.status = "proposed"
                      /\ staging'.answers = run.answers /\ staging'.ask = run'.asked
                      /\ run'.asked # NoRequest => OfThisRound(run'.asked)
                      /\ run'.step = "aside" /\ run'.loop = run.loop
                      /\ run'.answers = run.answers
  BY DEF Agent
<1>3. asked \in Requests \cup {NoRequest} /\ (asked # NoRequest => OfThisRound(asked))
  BY <1>1, SealedFacts
<1>4. /\ run'.asked = asked /\ run'.step = "aside" /\ run'.loop = run.loop
      /\ run'.answers = run.answers
  BY <1>1, <1>2 DEF Runs
<1> QED
  BY <1>1, <1>2, <1>3, <1>4, DirectoryFacts

\* The request that is carried over is the run's, or the previous one's.
LEMMA CarryFacts ==
    ASSUME IInv, Carry
    PROVE  /\ staging'.answers = staging.answers /\ staging'.status = staging.status
           /\ staging'.ask \in {run.asked, aside.ask, NoRequest}
<1>1. PICK ask : /\ staging' = [staging EXCEPT !.ask = ask]
                 /\ ask \in {run.asked, aside.ask, NoRequest}
  BY DEF Carry
<1>2. staging \in Directories
  BY DEF IInv, TypeOK, InvestigationTypes
<1> QED
  BY <1>1, <1>2 DEF Directories

\* A step of the run: the publish stays in order.
LEMMA RunPublishes ==
    ASSUME IInv, RunStep
    PROVE  PublishSound'
<1> USE DEF Steps, Results
<1>1. run \in Runs /\ PublishSound /\ WrittenSound
  BY DEF IInv, TypeOK, InvestigationTypes
<1>2. CASE Guard
  BY <1>1, <1>2, GotoFacts, FinishFacts, Absence
    DEF Guard, At, PublishSound
<1>3. CASE Agent
  BY <1>1, <1>3, AgentFacts, FinishFacts, Absence
    DEF Agent, At, PublishSound
<1>4. CASE MoveAside
  BY <1>1, <1>4, GotoFacts, Absence
    DEF MoveAside, At, PublishSound
<1>5. CASE ReadStatus
  BY <1>1, <1>5, GotoFacts, Absence
    DEF ReadStatus, At, PublishSound
<1>6. CASE Carry
  BY <1>1, <1>6, GotoFacts, CarryFacts, Absence
    DEF Carry, At, PublishSound
<1>7. CASE Swap
  BY <1>1, <1>7, GotoFacts, Absence
    DEF Swap, At, PublishSound
<1>8. CASE Landed
  BY <1>1, <1>8, GotoFacts, FinishFacts, Absence
    DEF Landed, RemoveLanded, At, PublishSound
<1>9. CASE Restore
  BY <1>1, <1>9, FinishFacts, Absence
    DEF Restore, At, PublishSound
<1>10. CASE Fault
  BY <1>1, <1>10, GotoFacts, FinishFacts, Absence
    DEF Fault, RemoveLanded, At, PublishSound
<1>11. CASE Kill
  BY <1>1, <1>11, FinishFacts, Absence
    DEF Kill, At, PublishSound
<1>12. CASE AcceptProposal
  <2>1. live \in Directories /\ live' = [live EXCEPT !.status = "accepted"]
    BY <1>12 DEF AcceptProposal, IInv, TypeOK, InvestigationTypes
  <2>2. live'.status = "accepted"
    BY <2>1 DEF Directories
  <2> QED
    BY <1>1, <1>12, <2>2, Absence DEF AcceptProposal, At, PublishSound
<1> QED
  BY <1>2, <1>3, <1>4, <1>5, <1>6, <1>7, <1>8, <1>9, <1>10, <1>11, <1>12 DEF RunStep, Work, Trouble

\* A step of the run: the documents are the run's.
LEMMA RunWrites ==
    ASSUME IInv, RunStep
    PROVE  WrittenSound'
<1> USE DEF Steps, Results
<1>1. run \in Runs /\ live \in Directories /\ PublishSound /\ WrittenSound
  BY DEF IInv, TypeOK, InvestigationTypes
<1>2. CASE Guard
  BY <1>1, <1>2, GotoFacts, FinishFacts, Absence
    DEF Guard, At, PublishSound, WrittenSound, SameRun, Directories
<1>3. CASE Agent
  BY <1>1, <1>3, AgentFacts, FinishFacts, Absence
    DEF Agent, At, PublishSound, WrittenSound, SameRun, Directories
<1>4. CASE MoveAside
  BY <1>1, <1>4, GotoFacts, Absence
    DEF MoveAside, At, PublishSound, WrittenSound, SameRun, Directories
<1>5. CASE ReadStatus
  BY <1>1, <1>5, GotoFacts, Absence
    DEF ReadStatus, At, PublishSound, WrittenSound, SameRun, Directories
<1>6. CASE Carry
  BY <1>1, <1>6, GotoFacts, CarryFacts, Absence
    DEF Carry, At, PublishSound, WrittenSound, SameRun, Directories
<1>7. CASE Swap
  BY <1>1, <1>7, GotoFacts, Absence
    DEF Swap, At, PublishSound, WrittenSound, SameRun, Directories
<1>8. CASE Landed
  BY <1>1, <1>8, GotoFacts, FinishFacts, Absence
    DEF Landed, RemoveLanded, At, PublishSound, WrittenSound, SameRun, Directories
<1>9. CASE Restore
  BY <1>1, <1>9, FinishFacts, Absence
    DEF Restore, At, PublishSound, WrittenSound, SameRun, Directories
<1>10. CASE Fault
  BY <1>1, <1>10, GotoFacts, FinishFacts, Absence
    DEF Fault, RemoveLanded, At, PublishSound, WrittenSound, SameRun, Directories
<1>11. CASE Kill
  BY <1>1, <1>11, FinishFacts, Absence
    DEF Kill, At, PublishSound, WrittenSound, SameRun, Directories
<1>12. CASE AcceptProposal
  BY <1>1, <1>12, Absence
    DEF AcceptProposal, At, PublishSound, WrittenSound, SameRun, Directories
<1> QED
  BY <1>2, <1>3, <1>4, <1>5, <1>6, <1>7, <1>8, <1>9, <1>10, <1>11, <1>12 DEF RunStep, Work, Trouble

\* A step of the run: what was accepted is still there, or was removed where
\* the publish could not tell it from a forgery.
LEMMA RunKeepsAcceptance ==
    ASSUME IInv, RunStep
    PROVE  AcceptanceKept'
<1> USE DEF Steps, Results
<1>1. run \in Runs /\ live \in Directories /\ PublishSound /\ AcceptanceKept
  BY DEF IInv, TypeOK, InvestigationTypes
<1>2. CASE Guard
  BY <1>1, <1>2, GotoFacts, FinishFacts, Absence
    DEF Guard, At, PublishSound, AcceptanceKept, Directories
<1>3. CASE Agent
  BY <1>1, <1>3, AgentFacts, FinishFacts, Absence
    DEF Agent, At, PublishSound, AcceptanceKept, Directories
<1>4. CASE MoveAside
  BY <1>1, <1>4, GotoFacts, Absence
    DEF MoveAside, At, PublishSound, AcceptanceKept, Directories
<1>5. CASE ReadStatus
  BY <1>1, <1>5, GotoFacts, Absence
    DEF ReadStatus, At, PublishSound, AcceptanceKept, Directories
<1>6. CASE Carry
  BY <1>1, <1>6, GotoFacts, CarryFacts, Absence
    DEF Carry, At, PublishSound, AcceptanceKept, Directories
<1>7. CASE Swap
  BY <1>1, <1>7, GotoFacts, Absence
    DEF Swap, At, PublishSound, AcceptanceKept, Directories
<1>8. CASE Landed
  BY <1>1, <1>8, GotoFacts, FinishFacts, Absence
    DEF Landed, RemoveLanded, At, PublishSound, AcceptanceKept, Directories
<1>9. CASE Restore
  BY <1>1, <1>9, FinishFacts, Absence
    DEF Restore, At, PublishSound, AcceptanceKept, Directories
<1>10. CASE Fault
  BY <1>1, <1>10, GotoFacts, FinishFacts, Absence
    DEF Fault, RemoveLanded, At, PublishSound, AcceptanceKept, Directories
<1>11. CASE Kill
  BY <1>1, <1>11, FinishFacts, Absence
    DEF Kill, At, PublishSound, AcceptanceKept, Directories
<1>12. CASE AcceptProposal
  BY <1>1, <1>12, Absence
    DEF AcceptProposal, At, PublishSound, AcceptanceKept, Directories
<1> QED
  BY <1>2, <1>3, <1>4, <1>5, <1>6, <1>7, <1>8, <1>9, <1>10, <1>11, <1>12 DEF RunStep, Work, Trouble

\* A run that works leaves the loop investigating, and stays the loop's.
LEMMA RunWorks ==
    ASSUME IInv, RunStep, ~AcceptProposal
    PROVE  /\ pc = "investigating" /\ execution > 0
           /\ run'.loop = run.loop /\ run'.answers = run.answers
<1> USE DEF Steps, Results
<1>1. run \in Runs /\ LoopSound /\ pc \in {"investigating", "reading", "waiting", "parked", "ended"}
  BY DEF IInv, TypeOK, InvestigationTypes
<1>2. run.step \notin {"idle", "done"}
  BY DEF RunStep, Work, Trouble, Guard, Agent, MoveAside, ReadStatus, Carry, Swap, Landed,
         Restore, Fault, Kill, At
<1>3. run'.loop = run.loop /\ run'.answers = run.answers
  <2>1. CASE Agent
    BY <1>1, <2>1, AgentFacts, FinishFacts DEF SameRun
  <2>2. CASE \/ Guard \/ MoveAside \/ ReadStatus \/ Carry \/ Swap \/ Landed \/ Restore
             \/ Fault \/ Kill
    BY <1>1, <2>2, GotoFacts, FinishFacts
      DEF Guard, MoveAside, ReadStatus, Carry, Swap, Landed, RemoveLanded, Restore, Fault, Kill,
          SameRun
  <2> QED
    BY <2>1, <2>2 DEF RunStep, Work, Trouble
<1> QED
  BY <1>1, <1>2, <1>3 DEF LoopSound

\* A step of the run: the loop's counts hold, and what it waits on or parked
\* with stays there.
LEMMA RunLoops ==
    ASSUME IInv, RunStep
    PROVE  LoopSound' /\ AnswersReachTheProposal'
<1>1. /\ run \in Runs /\ live \in Directories /\ LoopSound /\ WrittenSound
      /\ AnswersReachTheProposal /\ UNCHANGED <<loopVars, expired>>
  BY DEF IInv, TypeOK, InvestigationTypes, RunStep
<1>2. CASE AcceptProposal
  <2>1. live'.ask = live.ask /\ live'.answers = live.answers /\ UNCHANGED run
    BY <1>1, <1>2 DEF AcceptProposal, Directories
  <2>2. LoopSound'
    BY <1>1, <2>1 DEF LoopSound, loopVars
  <2>3. AnswersReachTheProposal'
    BY <1>1, <1>2, <2>1
      DEF AnswersReachTheProposal, LoopSound, loopVars, AcceptProposal, WrittenSound
  <2> QED
    BY <2>2, <2>3
<1>3. CASE ~AcceptProposal
  <2>1. /\ pc = "investigating" /\ execution > 0
        /\ run'.loop = run.loop /\ run'.answers = run.answers
    BY <1>3, RunWorks
  <2> QED
    BY <1>1, <2>1 DEF LoopSound, AnswersReachTheProposal, loopVars
<1> QED
  BY <1>2, <1>3

\* A step of the run: no request of another round comes up.
LEMMA RunAsks ==
    ASSUME IInv, RunStep
    PROVE  AskSound'
<1> USE DEF Steps, Results
<1>1. /\ run \in Runs /\ live \in Directories /\ UNCHANGED <<answers, resumes, execution>>
      /\ AskSound
  BY DEF IInv, TypeOK, InvestigationTypes, RunStep, loopVars
<1>2. SUFFICES {live'.ask, aside'.ask, staging'.ask, run'.asked} \subseteq
                  {live.ask, aside.ask, staging.ask, run.asked, NoRequest}
               \/ Agent
      <2>1. CASE Agent
        <3>1. \/ {live'.ask, aside'.ask, staging'.ask, run'.asked} \subseteq
                  {live.ask, aside.ask, staging.ask, run.asked}
              \/ /\ UNCHANGED <<live, aside>> /\ staging'.ask = run'.asked
                 /\ run'.asked # NoRequest => OfThisRound(run'.asked)
          BY <1>1, <2>1, AgentFacts, FinishFacts DEF SameRun, Agent
        <3> QED
          BY <1>1, <2>1, <3>1 DEF Agent, AskSound, OfThisRound
      <2>2. CASE {live'.ask, aside'.ask, staging'.ask, run'.asked} \subseteq
                  {live.ask, aside.ask, staging.ask, run.asked, NoRequest}
        BY <1>1, <2>2 DEF AskSound, OfThisRound
      <2> QED
        BY <2>1, <2>2
<1>3. CASE \/ Guard \/ MoveAside \/ ReadStatus \/ Swap \/ Landed \/ Restore \/ Fault \/ Kill
  BY <1>1, <1>3, GotoFacts, FinishFacts, Absence
    DEF Guard, MoveAside, ReadStatus, Swap, Landed, RemoveLanded, Restore, Fault, Kill, SameRun
<1>4. CASE Carry
  <2>1. SameRun /\ UNCHANGED <<live, aside>>
    BY <1>1, <1>4, GotoFacts DEF Carry
  <2> QED
    BY <1>4, <2>1, CarryFacts DEF SameRun
<1>5. CASE AcceptProposal
  BY <1>1, <1>5 DEF AcceptProposal, Directories
<1> QED
  BY <1>3, <1>4, <1>5 DEF RunStep, Work, Trouble
-----------------------------------------------------------------------------
\* The loop

\* A run is given every answer so far, and nothing else of the proposal moves.
Submits(given) ==
    /\ run' \in Runs /\ run'.step = "guard" /\ run'.loop = execution' /\ run'.answers = given
    /\ run'.asked = NoRequest /\ run'.result = "none"
    /\ UNCHANGED <<live, aside, staging, stranded, accepted, refused, faults, kills>>

\* The loop starts.
LEMMA StartFacts ==
    ASSUME IInv, StartLoop
    PROVE  TypeOK' /\ Submits({})
<1>1. execution \in 0..MaxLoops /\ execution' = execution + 1 /\ execution < MaxLoops
  BY DEF IInv, TypeOK, StartLoop
<1>2. execution' \in 0..MaxLoops
  BY <1>1, Limits
<1>3. Submits({})
  BY <1>2, SubmitFacts DEF StartLoop, Submits
<1>4. InvestigationTypes'
  BY <1>3 DEF IInv, TypeOK, InvestigationTypes, Submits
<1>5. queue' \in Seq(Responses) /\ Len(queue') <= QueueLimit
  BY QueueAssumption DEF StartLoop
<1>6. abandoned' \in BOOLEAN
  BY DEF StartLoop
<1>7. /\ pc' \in {"investigating", "reading", "waiting", "parked", "ended"}
      /\ request' \in Requests \cup {NoRequest} /\ resolved' \subseteq Questions
      /\ resumes' \in 0..MaxRounds /\ answers' \subseteq Requests /\ expired' \subseteq Requests
  BY Limits DEF IInv, TypeOK, StartLoop
<1> QED
  BY <1>2, <1>3, <1>4, <1>5, <1>6, <1>7 DEF TypeOK

\* An answer is taken: the next round is of the same execution.
LEMMA ResumeFacts ==
    ASSUME IInv, Resume
    PROVE  /\ TypeOK' /\ Submits(answers') /\ request \in Requests /\ request \notin answers
           /\ resumes' = resumes + 1
<1>1. /\ request \in Requests /\ request \notin answers /\ resumes < MaxRounds
      /\ resumes \in 0..MaxRounds /\ answers \subseteq Requests /\ resolved \subseteq Questions
      /\ execution \in 0..MaxLoops
  BY DEF IInv, TypeOK, LoopSound, Resume
<1>2. /\ answers' \in SUBSET Requests /\ resumes' \in 0..MaxRounds /\ resolved' \subseteq Questions
      /\ UNCHANGED execution
  BY <1>1, Limits DEF Resume, Requests
<1>3. Submits(answers')
  BY <1>1, <1>2, SubmitFacts DEF Resume, Submits
<1>4. InvestigationTypes'
  BY <1>3 DEF IInv, TypeOK, InvestigationTypes, Submits
<1>5. queue' \in Seq(Responses) /\ Len(queue') <= QueueLimit
  BY QueueAssumption DEF Resume, Close
<1> QED
  BY <1>1, <1>2, <1>3, <1>4, <1>5 DEF IInv, TypeOK, Resume, Close

\* Where a run is submitted, the publish begins in order.
LEMMA SubmitKeeps ==
    ASSUME IInv, run.step \in {"idle", "done"}, NEW given, Submits(given)
    PROVE  PublishSound' /\ WrittenSound' /\ AcceptanceKept'
  BY DEF IInv, PublishSound, WrittenSound, AcceptanceKept, Submits

\* A loop that starts asks nothing of its own yet.
LEMMA StartKeeps ==
    ASSUME IInv, StartLoop
    PROVE  IInv'
<1>1. TypeOK' /\ Submits({})
  BY StartFacts
<1>2. execution \in Nat /\ execution' = execution + 1
  BY Limits DEF IInv, TypeOK, StartLoop
<1>3. PublishSound' /\ WrittenSound' /\ AcceptanceKept'
  BY <1>1, SubmitKeeps DEF IInv, LoopSound, StartLoop
<1>4. LoopSound'
  BY <1>2, <1>1, FS_EmptySet DEF LoopSound, StartLoop, Submits
<1>5. AskSound'
  <2>1. run'.asked = NoRequest /\ UNCHANGED <<live, aside, staging>>
    BY <1>1 DEF Submits
  <2>2. \A r \in {live.ask, aside.ask, staging.ask} : r # NoRequest => r \in Requests
    BY DEF IInv, TypeOK, InvestigationTypes, Directories
  <2> QED
    BY <1>2, <2>1, <2>2 DEF IInv, AskSound, OfThisRound, Requests
<1>6. AnswersReachTheProposal'
  BY DEF StartLoop, AnswersReachTheProposal
<1> QED
  BY <1>1, <1>3, <1>4, <1>5, <1>6 DEF IInv

\* A loop that resumes has answered the one request that was of its round.
LEMMA ResumeKeeps ==
    ASSUME IInv, Resume
    PROVE  IInv'
<1>1. /\ TypeOK' /\ Submits(answers') /\ UNCHANGED execution
      /\ request \in Requests /\ request \notin answers
      /\ answers' = answers \cup {request} /\ resolved' = resolved \cup {request.question}
      /\ resumes \in Nat /\ resumes' = resumes + 1 /\ pc' = "investigating"
      /\ run.step = "done" /\ request = live.ask
  BY ResumeFacts, Limits DEF IInv, TypeOK, LoopSound, Resume, Close
<1>2. PublishSound' /\ WrittenSound' /\ AcceptanceKept'
  BY <1>1, SubmitKeeps
<1>3. LoopSound'
  <2>1. IsFiniteSet(answers') /\ Cardinality(answers') = resumes'
    BY <1>1, FS_AddElement DEF IInv, LoopSound
  <2> QED
    BY <1>1, <2>1 DEF IInv, LoopSound, Submits
<1>4. AskSound'
  <2>1. run'.asked = NoRequest /\ UNCHANGED <<live, aside, staging>>
    BY <1>1 DEF Submits
  <2>2. aside.ask = NoRequest /\ staging.ask = NoRequest
    BY <1>1, Absence DEF IInv, PublishSound
  <2>3. live.ask.loop <= execution
    BY <1>1, Absence DEF IInv, AskSound, OfThisRound
  <2> QED
    BY <1>1, <2>1, <2>2, <2>3 DEF AskSound, OfThisRound
<1>5. AnswersReachTheProposal'
  BY <1>1 DEF AnswersReachTheProposal
<1> QED
  BY <1>1, <1>2, <1>3, <1>4, <1>5 DEF IInv

\* The loop goes on to read, or is over, without touching the proposal.
LEMMA RunEndsKeeps ==
    ASSUME IInv, RunEnds
    PROVE  IInv'
<1>1. TypeOK'
  BY DEF IInv, TypeOK, InvestigationTypes, RunEnds, investigationVars
<1>2. PublishSound' /\ WrittenSound' /\ AcceptanceKept' /\ AskSound'
  BY DEF IInv, RunEnds, investigationVars, PublishSound, WrittenSound, AcceptanceKept,
         AskSound, OfThisRound
<1>3. LoopSound' /\ AnswersReachTheProposal'
  BY DEF IInv, RunEnds, investigationVars, LoopSound, AnswersReachTheProposal, At
<1> QED
  BY <1>1, <1>2, <1>3 DEF IInv

\* What a loop waits on is of its round; what it parks with is complete.
LEMMA ReadKeeps ==
    ASSUME IInv, ReadRequest
    PROVE  IInv'
<1>1. UNCHANGED <<investigationVars, execution, resolved, resumes, answers, queue, abandoned,
                  expired>>
  BY DEF ReadRequest
<1>2. live.ask \in Requests \cup {NoRequest} /\ run.result \in Results
  BY DEF IInv, TypeOK, InvestigationTypes, Directories, Runs
<1>3. TypeOK'
  BY <1>1, <1>2 DEF IInv, TypeOK, InvestigationTypes, ReadRequest, investigationVars
<1>4. PublishSound' /\ WrittenSound' /\ AcceptanceKept' /\ AskSound'
  BY <1>1 DEF IInv, investigationVars, PublishSound, WrittenSound, AcceptanceKept,
         AskSound, OfThisRound
<1>5. LoopSound'
  BY <1>1, <1>2, Limits DEF IInv, TypeOK, investigationVars, LoopSound, ReadRequest, Retired
<1>6. AnswersReachTheProposal'
  BY <1>1, <1>2 DEF IInv, investigationVars, LoopSound, ReadRequest, AnswersReachTheProposal,
         WrittenSound, Results
<1> QED
  BY <1>3, <1>4, <1>5, <1>6 DEF IInv

\* The rest of what the loop does leaves the run, the proposal and what was
\* accepted alone.
LEMMA WaitKeeps ==
    ASSUME IInv, Deliver \/ Reject \/ TimeOut \/ Abandon \/ AbandonEnds \/ Expire
    PROVE  IInv'
<1>1. UNCHANGED <<investigationVars, execution, resolved, resumes, answers>>
  BY DEF Deliver, Reject, TimeOut, Abandon, AbandonEnds, Expire, loopVars
<1>2. \/ UNCHANGED <<pc, request>>
      \/ pc = "waiting" /\ pc' = "ended" /\ request' = NoRequest
  BY DEF Deliver, Reject, TimeOut, Abandon, AbandonEnds, Expire, loopVars, Close
<1>3. queue' \in Seq(Responses) /\ Len(queue') <= QueueLimit
  <2>1. queue \in Seq(Responses) /\ Len(queue) <= QueueLimit
    BY DEF IInv, TypeOK
  <2>2. CASE Deliver
    BY <2>1, <2>2, QueueAssumption DEF Deliver, Responses
  <2>3. CASE Reject
    BY <2>1, <2>3, QueueAssumption DEF Reject
  <2>4. CASE queue' = queue
    BY <2>1, <2>4
  <2>5. CASE queue' = <<>>
    BY <2>5, QueueAssumption
  <2> QED
    BY <2>2, <2>3, <2>4, <2>5 DEF TimeOut, Abandon, AbandonEnds, Expire, Close, loopVars
<1>4. expired' \subseteq Requests
  BY DEF IInv, TypeOK, InvestigationTypes, Directories, Deliver, Reject, TimeOut, Abandon,
         AbandonEnds, Expire
<1>5. abandoned' \in BOOLEAN
  BY DEF IInv, TypeOK, Deliver, Reject, TimeOut, Abandon, AbandonEnds, Expire, loopVars
<1>6. TypeOK'
  BY <1>1, <1>2, <1>3, <1>4, <1>5 DEF IInv, TypeOK, InvestigationTypes, investigationVars
<1>7. PublishSound' /\ WrittenSound' /\ AcceptanceKept' /\ AskSound'
  BY <1>1 DEF IInv, investigationVars, PublishSound, WrittenSound, AcceptanceKept,
         AskSound, OfThisRound
<1>8. LoopSound' /\ AnswersReachTheProposal'
  BY <1>1, <1>2 DEF IInv, investigationVars, LoopSound, AnswersReachTheProposal
<1> QED
  BY <1>6, <1>7, <1>8 DEF IInv
-----------------------------------------------------------------------------
\* The theorems

\* It holds when nothing has happened yet.
LEMMA Initially == Init => IInv
<1> SUFFICES ASSUME Init PROVE IInv
  OBVIOUS
<1>1. run \in Runs
  BY Limits DEF Init, InitInvestigation, Runs, Steps, Results, Requests
<1>2. queue \in Seq(Responses) /\ Len(queue) <= QueueLimit
  BY QueueAssumption DEF Init
<1>3. accepted = {} /\ refused = {} /\ abandoned \in BOOLEAN
  BY DEF Init, InitInvestigation
<1>4. InvestigationTypes
  BY <1>1, <1>3, Limits, Absence DEF Init, InitInvestigation, InvestigationTypes
<1>5. TypeOK
  BY <1>2, <1>3, <1>4, Limits DEF Init, TypeOK
<1>6. PublishSound /\ WrittenSound /\ AcceptanceKept /\ AskSound /\ AnswersReachTheProposal
  BY Absence DEF Init, InitInvestigation, PublishSound, WrittenSound, AcceptanceKept,
         AskSound, AnswersReachTheProposal
<1>7. LoopSound
  BY FS_EmptySet DEF Init, InitInvestigation, LoopSound
<1> QED
  BY <1>6, <1>7, <1>5 DEF IInv

\* Every step keeps it.
LEMMA Steadily == IInv /\ [Next]_vars => IInv'
<1> SUFFICES ASSUME IInv, [Next]_vars PROVE IInv'
  OBVIOUS
<1>1. CASE (Work \/ Trouble) /\ UNCHANGED <<loopVars, expired>>
  <2>1. InvestigationTypes' /\ UNCHANGED <<loopVars, expired>>
    BY <1>1, RunTypes DEF RunStep
  <2>2. TypeOK'
    BY <2>1 DEF IInv, TypeOK, loopVars
  <2> QED
    BY <1>1, <2>2, RunPublishes, RunWrites, RunKeepsAcceptance, RunLoops, RunAsks
      DEF IInv, RunStep
<1>2. CASE UNCHANGED vars
  BY <1>2 DEF vars, investigationVars, loopVars, IInv, TypeOK, InvestigationTypes, PublishSound,
       WrittenSound, LoopSound, AskSound, OfThisRound, AcceptanceKept, AnswersReachTheProposal
<1> QED
  BY <1>1, <1>2, StartKeeps, ResumeKeeps, RunEndsKeeps, ReadKeeps, WaitKeeps DEF Next, Loop

\* The invariant that the results below are read off.
LEMMA Invariant == Spec => []IInv
  BY Initially, Steadily, PTL DEF Spec

(* Every variable of the run and of the loop stays within its type.        *)
THEOREM TypeCorrect == Spec => []TypeOK
<1>1. IInv => TypeOK
  BY DEF IInv
<1> QED
  BY <1>1, Invariant, PTL

(* Whichever file operation fails and wherever the pod is killed, every    *)
(* proposal a person accepted is at its path or in a copy that a person    *)
(* can put back, but for one that was accepted between the swap that put   *)
(* it there and its verification (`_ProposalAdvanced`,                     *)
(* `_landed_triplet_defects`).                                             *)
THEOREM AcceptanceIsKept == Spec => []AcceptanceKept
<1>1. IInv => AcceptanceKept
  BY DEF IInv
<1> QED
  BY <1>1, Invariant, PTL

(* The loop waits only on a question of its own execution and round that   *)
(* nobody has answered, and both counts of the rounds agree                *)
(* (`_await_human_input`, `_seal_draft`).                                  *)
THEOREM WaitsOnOwnRoundHolds == Spec => []WaitsOnOwnRound
<1>1. IInv => WaitsOnOwnRound
  BY Absence DEF IInv, LoopSound, AskSound, OfThisRound, WaitsOnOwnRound
<1> QED
  BY <1>1, Invariant, PTL

(* What a loop parks with was written with every answer it accepted,       *)
(* unless its last run left the proposal alone, accepted by a person or    *)
(* before there was any answer (`accepted_answers`).                       *)
THEOREM AnswersReachTheProposalHolds == Spec => []AnswersReachTheProposal
<1>1. IInv => AnswersReachTheProposal
  BY DEF IInv
<1> QED
  BY <1>1, Invariant, PTL
=============================================================================

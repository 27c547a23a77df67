---------------------------- MODULE DispatchProofs ----------------------------
(***************************************************************************)
(* Proofs about Dispatch, for any requests and any number of dispatches at *)
(* a time: the types, that an item has one open execution at most, that a  *)
(* run works under an open execution and that no request is worked for     *)
(* twice, the last two for every request but those that were delivered by  *)
(* a dispatch that had lost its lease.                                     *)
(***************************************************************************)
EXTENDS Dispatch, TLAPS, FiniteSetTheorems

\* OneIsOpen without the count.
Alone     == \A x, y \in Active : x = y
Executed  == \A r \in Requests : exec[r] # "none" <=> req[r].st = "fulfilled"
Worked    == \A r \in ran : req[r].st = "fulfilled"
OwnsTaken == loop.st = "running" /\ loop.own # None => loop.own \in loop.took

Base == TypeOK /\ Alone /\ Executed /\ Worked /\ OwnsTaken

\* A run that works under the execution x, and one that was started for a request.
Works(x) == loop.st = "running" /\ loop.at = "work" /\ OwnRef = x
Runs(x)  == loop.st = "running" /\ loop.own = x

\* A run that has not begun to work is the first of its request.
FirstRun == loop.st = "running" /\ loop.at = "bind" => loop.own \notin ran \/ loop.own \in late

\* What a dispatch is about to end, no run works under, nor ever will, unless it was
\* delivered late.
EndsNoWork(d) ==
    /\ disp[d].pc = "fail" => ~Works(disp[d].ref) \/ disp[d].ref \in late
    /\ disp[d].pc = "fail" /\ disp[d].ref \in Requests =>
          ~Runs(disp[d].ref) \/ disp[d].ref \in late
    /\ disp[d].pc \in {"judge", "fail"} /\ disp[d].ref \in Requests => exec[disp[d].ref] # "none"
    /\ disp[d].pc \in {"orphan", "end"} => req[disp[d].r].st = "fulfilled"
    /\ disp[d].pc = "end" => ~Runs(disp[d].r) \/ disp[d].r \in late

IInv ==
    /\ Base /\ FirstRun /\ WorkedIsOpen
    /\ \A d \in Dispatchers : EndsNoWork(d)
-----------------------------------------------------------------------------
\* Types

\* No name is taken twice.
LEMMA Names ==
    /\ None \notin Requests /\ None \notin Dispatchers /\ None # "run" /\ "run" \notin Requests
    /\ Starts \subseteq Requests /\ Resumes \subseteq Requests /\ Pinned \subseteq Requests
    /\ Requests \subseteq Refs /\ "run" \in Refs /\ MaxFaults \in Nat /\ MaxOverruns \in Nat
  BY RequestsAreKinds DEF Requests, Refs

\* A dispatch that is somewhere is about a request.
LEMMA Busy ==
    ASSUME TypeOK, NEW d \in Dispatchers, disp[d].pc \in DispatchPCs \/ disp[d] # Idle
    PROVE  disp[d] \in Dispatches
  BY DEF TypeOK, Idle, DispatchPCs, EarlyPCs

\* The count of faults stays within its bound.
LEMMA FaultTypes ==
    ASSUME TypeOK, Fault \/ Overrun \/ UNCHANGED faults
    PROVE  faults' \in Counts
<1>1. CASE UNCHANGED faults
  BY <1>1 DEF TypeOK
<1>2. CASE Fault
  BY <1>2, Names DEF TypeOK, Fault, Counts
<1>3. CASE Overrun
  BY <1>3, Names DEF TypeOK, Overrun, Counts
<1> QED
  BY <1>1, <1>2, <1>3

\* What one dispatch does leaves the others where they are.
OnlyMoves(d) ==
    /\ disp' \in [Dispatchers -> Dispatches \cup {Idle}]
    /\ \A e \in Dispatchers : e # d => disp'[e] = disp[e]

\* A dispatch goes on to another of its calls.
LEMMA GoesTypes ==
    ASSUME TypeOK, NEW d \in Dispatchers, disp[d] \in Dispatches, NEW pc \in DispatchPCs,
           Goes(d, pc)
    PROVE  /\ OnlyMoves(d) /\ disp'[d] \in Dispatches
           /\ disp'[d].pc = pc /\ disp'[d].r = disp[d].r /\ disp'[d].ref = disp[d].ref
<1>1. disp' = [disp EXCEPT ![d] = [disp[d] EXCEPT !.pc = pc]]
  BY DEF Goes
<1>2. [disp[d] EXCEPT !.pc = pc] \in Dispatches
  BY DEF Dispatches
<1>3. disp'[d] = [disp[d] EXCEPT !.pc = pc]
  BY <1>1 DEF TypeOK
<1>4. OnlyMoves(d)
  BY <1>1, <1>2 DEF TypeOK, OnlyMoves
<1> QED
  BY <1>2, <1>3, <1>4 DEF Dispatches

\* A dispatch goes on to its delivery.
LEMMA ToDeliveryTypes ==
    ASSUME TypeOK, NEW d \in Dispatchers, disp[d] \in Dispatches, ToDelivery(d)
    PROVE  /\ OnlyMoves(d) /\ disp'[d] \in Dispatches
           /\ disp'[d].pc = "deliver" /\ disp'[d].r = disp[d].r
<1> DEFINE e == [disp[d] EXCEPT !.pc = "deliver", !.ref = None]
<1>1. disp' = [disp EXCEPT ![d] = e]
  BY DEF ToDelivery, TypeOK
<1>2. e \in Dispatches /\ e.pc = "deliver" /\ e.r = disp[d].r
  BY DEF Dispatches, DispatchPCs, EarlyPCs
<1> HIDE DEF e
<1>3. disp'[d] = e /\ OnlyMoves(d)
  BY <1>1, <1>2 DEF TypeOK, OnlyMoves
<1> QED
  BY <1>2, <1>3

\* A dispatch is over.
LEMMA StopsTypes ==
    ASSUME TypeOK, NEW d \in Dispatchers, Stops(d)
    PROVE  OnlyMoves(d) /\ disp'[d] = Idle
  BY DEF TypeOK, Stops, OnlyMoves

\* A run that is through, or settled, keeps whose it is.
Follows(l, m) ==
    /\ m \in LoopStates /\ m.own = l.own /\ l.took \subseteq m.took
    /\ m.st = "running" => l.st = "running"
    /\ m.at = l.at \/ m.at \in {"gates", "leaving"}

\* A run that is through waits for its delivery, or closes.
LEMMA LeavingTypes ==
    ASSUME NEW l \in LoopStates
    PROVE  Follows(l, Leaving(l)) /\ Leaving(l).at = "leaving"
<1>1. CASE l.open # None
  BY <1>1 DEF Leaving, LoopStates, Follows
<1>2. CASE l.open = None
  <2>1. PICK st \in {"failed", "completed", "ended"} :
           Leaving(l) = Closed(l, st)
    BY <1>2 DEF Leaving
  <2> QED
    BY <2>1, Names DEF LoopStates, Follows, Closed
<1> QED
  BY <1>1, <1>2

\* A delivery that is settled is the run's no more.
LEMMA SettledTypes ==
    ASSUME NEW l \in LoopStates
    PROVE  Follows(l, Settled(l)) /\ (Settled(l).at = l.at)
<1> DEFINE none == [l EXCEPT !.open = None, !.bound = FALSE]
<1>1. none \in LoopStates /\ Follows(l, none) /\ none.at = l.at
  BY DEF LoopStates, Follows
<1> HIDE DEF none
<1>2. Settled(l) = IF l.at = "leaving" THEN Leaving(none) ELSE none
  BY DEF Settled, none
<1>3. Follows(none, Leaving(none)) /\ Leaving(none).at = "leaving"
  BY <1>1, LeavingTypes
<1> QED
  BY <1>1, <1>2, <1>3 DEF Follows

\* A run that is refused leaves.
LEMMA FailingTypes ==
    ASSUME NEW l \in LoopStates
    PROVE  Follows(l, Leaving([l EXCEPT !.fails = TRUE]))
           /\ Leaving([l EXCEPT !.fails = TRUE]).at = "leaving"
<1> DEFINE m == [l EXCEPT !.fails = TRUE]
<1>1. m \in LoopStates /\ Follows(l, m)
  BY DEF LoopStates, Follows
<1> HIDE DEF m
<1>2. Follows(m, Leaving(m)) /\ Leaving(m).at = "leaving"
  BY <1>1, LeavingTypes
<1> QED
  BY <1>1, <1>2 DEF Follows, m

\* A new run has bound nothing yet, and has taken the request it began with.
LEMMA NewRunTypes ==
    ASSUME NEW r \in Requests \cup {None}
    PROVE  /\ NewRun(r) \in LoopStates /\ NewRun(r).at = "bind" /\ NewRun(r).own = r
           /\ r # None => r \in NewRun(r).took
<1>1. NoRun \in LoopStates /\ NoRun.at = "bind"
  BY DEF NoRun, LoopStates
<1> QED
  BY <1>1 DEF NewRun, LoopStates

\* A run takes a request, or begins with it.
LEMMA AcceptedTypes ==
    ASSUME TypeOK, NEW r \in Requests, "accepted" \in Verdicts(r), loop' = Accepted(r)
    PROVE  \/ Follows(loop, loop')
           \/ loop.st # "running" /\ loop' = NewRun(r)
<1>1. loop \in LoopStates
  BY DEF TypeOK
<1>2. CASE loop.st # "running"
  BY <1>2 DEF Accepted
<1>3. CASE loop.st = "running" /\ r \in loop.took
  BY <1>1, <1>3 DEF Accepted, Follows
<1>4. CASE loop.st = "running" /\ r \notin loop.took
  <2>1. r \in Resumes
    <3>1. r \in Starts => Verdicts(r) = {"refused"}
      BY <1>4 DEF Verdicts
    <3>2. r \notin Starts
      BY <3>1
    <3> QED
      BY <3>2 DEF Requests
  <2>2. loop' = [loop EXCEPT !.took = loop.took \cup {r}, !.open = r, !.bound = FALSE]
    BY <1>4 DEF Accepted
  <2>3. loop.took \cup {r} \in SUBSET Requests /\ r \in Resumes \cup {None}
    BY <1>1, <2>1 DEF LoopStates
  <2>4. loop' \in LoopStates
    BY <1>1, <2>2, <2>3 DEF LoopStates
  <2> QED
    BY <1>1, <1>4, <2>2, <2>4 DEF LoopStates, Follows
<1> QED
  BY <1>2, <1>3, <1>4

-----------------------------------------------------------------------------
(* What a step may do to the run, to the store, and to the dispatches.      *)

Starting(r) == loop.st # "running" /\ loop' = NewRun(r)

LoopMoves ==
    /\ late \subseteq late' /\ late' \subseteq Requests
    /\ \/ UNCHANGED ran /\ Follows(loop, loop')
       \/ UNCHANGED <<req, exec, ran, disp>> /\ Starting(None)
       \/ /\ UNCHANGED <<req, exec, ran>>
          /\ \E d \in Dispatchers : disp[d].pc = "deliver" /\ OnlyMoves(d) /\ Starting(disp[d].r)
                /\ disp'[d].pc \in {"check", "idle"} /\ (Holds(d) \/ disp[d].r \in late')
       \/ /\ loop.st = "running" /\ loop.at = "bind" /\ loop.own \in Requests
          /\ req[loop.own].st = "fulfilled" /\ exec[loop.own] = "open"
          /\ loop' = [loop EXCEPT !.at = "work"] /\ ran' = ran \cup {loop.own}
          /\ UNCHANGED <<req, exec, disp>>
       \/ /\ loop.st = "running" /\ loop.at = "bind" /\ loop.own = None
          /\ loop' = [loop EXCEPT !.at = "work"] /\ UNCHANGED <<req, ran>>
          /\ exec' = [exec EXCEPT !["run"] = "open"]
          /\ disp' = [d \in Dispatchers |->
                        IF disp[d].ref = "run" THEN [disp[d] EXCEPT !.ref = None] ELSE disp[d]]

\* The run of a step of the loop itself.
LEMMA RunMoves ==
    ASSUME TypeOK, RunActs \/ EndIsLost \/ Dies \/ PollerStarts \/ OperatorRestarts
    PROVE  LoopMoves /\ UNCHANGED req /\ loop' \in LoopStates
<1>1. loop \in LoopStates
  BY DEF TypeOK
<1>2. UNCHANGED <<req, late>>
  BY DEF RunActs, EndIsLost, Dies, PollerStarts, OperatorRestarts, Binds, GivesUp, Ensures, Flips,
         Leaves, DeliveryBinds, DeliveryLands, DeliveryIsDropped, Run, Refused
<1>3. \A l \in LoopStates : /\ Follows(l, Leaving(l)) /\ Follows(l, Settled(l))
                            /\ Follows(l, Leaving([l EXCEPT !.fails = TRUE]))
  BY LeavingTypes, SettledTypes, FailingTypes
<1>4. \A l, m : Follows(l, m) => m \in LoopStates
  BY DEF Follows
<1> SUFFICES LoopMoves /\ loop' \in LoopStates
  BY <1>2
<1>0. late \subseteq late' /\ late' \subseteq Requests
  BY <1>2 DEF TypeOK
<1>5. CASE Binds
  <2>1. loop.own \in Requests
    BY <1>1, <1>5 DEF Binds, LoopStates
  <2>2. [loop EXCEPT !.at = "work"] \in LoopStates
    BY <1>1 DEF LoopStates
  <2>3. CASE loop' = Leaving([loop EXCEPT !.fails = TRUE]) /\ UNCHANGED ran
    BY <1>0, <1>1, <1>3, <1>4, <2>3 DEF LoopMoves
  <2>4. CASE /\ req[loop.own].st = "fulfilled" /\ exec[loop.own] = "open"
             /\ Run([loop EXCEPT !.at = "work"]) /\ ran' = ran \cup {loop.own}
    BY <1>0, <1>5, <2>1, <2>2, <2>4 DEF Binds, Run, LoopMoves
  <2> QED
    BY <1>5, <2>3, <2>4 DEF Binds, Refused, Run
<1>6. CASE GivesUp
  BY <1>0, <1>1, <1>3, <1>4, <1>6 DEF GivesUp, Refused, Run, LoopMoves
<1>7. CASE Ensures
  <2>1. CASE Active \subseteq {"run"}
    BY <1>0, <1>1, <1>7, <2>1 DEF Ensures, LoopMoves, LoopStates
  <2>2. CASE ~(Active \subseteq {"run"})
    BY <1>0, <1>1, <1>3, <1>4, <1>7, <2>2 DEF Ensures, Refused, Run, LoopMoves
  <2> QED
    BY <2>1, <2>2
<1>8. CASE Flips
  BY <1>0, <1>1, <1>8 DEF Flips, Run, LoopMoves, LoopStates, Follows
<1>9. CASE Leaves
  BY <1>0, <1>1, <1>3, <1>4, <1>9 DEF Leaves, Run, LoopMoves
<1>10. CASE DeliveryBinds
  <2>1. Follows(loop, [loop EXCEPT !.bound = TRUE])
    BY <1>1 DEF LoopStates, Follows
  <2> QED
    BY <1>0, <1>1, <1>3, <1>4, <1>10, <2>1 DEF DeliveryBinds, Run, LoopMoves
<1>11. CASE DeliveryLands \/ DeliveryIsDropped
  BY <1>0, <1>1, <1>3, <1>4, <1>11 DEF DeliveryLands, DeliveryIsDropped, Run, LoopMoves
<1>12. CASE EndIsLost
  <2>1. Follows(loop, [loop EXCEPT !.at = "gates", !.past = TRUE])
    BY <1>1 DEF LoopStates, Follows
  <2> QED
    BY <1>0, <1>1, <1>3, <1>4, <1>12, <2>1 DEF EndIsLost, Run, LoopMoves
<1>13. CASE Dies
  <2>1. Follows(loop, Closed(loop, "failed"))
    BY <1>1, Names DEF LoopStates, Follows, Closed
  <2> QED
    BY <1>0, <1>4, <1>13, <2>1 DEF Dies, Run, LoopMoves
<1>14. CASE PollerStarts \/ OperatorRestarts
  BY <1>0, <1>14, NewRunTypes DEF PollerStarts, OperatorRestarts, Run, LoopMoves, Starting
<1> QED
  BY <1>5, <1>6, <1>7, <1>8, <1>9, <1>10, <1>11, <1>12, <1>13, <1>14 DEF RunActs

\* The execution that the dispatch d is about to end.
Ends(d, x) ==
    /\ disp[d] \in Dispatches
    /\ \/ disp[d].pc = "fail" /\ x = disp[d].ref
       \/ disp[d].pc = "end" /\ x = disp[d].r

ExecMoves ==
    \/ UNCHANGED <<req, exec>>
    \/ /\ UNCHANGED req
       /\ \E x \in Refs :
             /\ exec' = Ended(x)
             /\ loop'.at # "work" \/ \E d \in Dispatchers : Ends(d, x)
    \/ UNCHANGED req /\ Active \subseteq {"run"} /\ exec' = [exec EXCEPT !["run"] = "open"]
    \/ \E r \in Requests : req[r].st = "claimed" /\ Active = {} /\ Attached(r)
    \/ /\ UNCHANGED exec
       /\ \E r \in Requests, q \in RequestStates :
             /\ req' = [req EXCEPT ![r] = q]
             /\ req[r].st # "fulfilled" /\ q.st # "fulfilled"

\* What the store holds stays in order, and what is fulfilled stays so.
Kept ==
    /\ \A r \in Requests : req[r].st = "fulfilled" => req'[r].st = "fulfilled"
    /\ \A x \in Refs : exec[x] # "none" => exec'[x] # "none"

\* Whatever the step does to it, the store is as it should be.
LEMMA StoreKeeps ==
    ASSUME Base, ExecMoves
    PROVE  /\ req' \in [Requests -> RequestStates] /\ exec' \in [Refs -> {"none", "open", "ended"}]
           /\ Alone' /\ Executed' /\ Kept
<1>1. /\ req \in [Requests -> RequestStates] /\ exec \in [Refs -> {"none", "open", "ended"}]
      /\ Alone /\ Executed
  BY DEF Base, TypeOK
<1>2. CASE UNCHANGED <<req, exec>>
  BY <1>1, <1>2 DEF Alone, Executed, Kept, Active
<1>3. CASE UNCHANGED req /\ \E x \in Refs : exec' = Ended(x)
  <2>1. PICK x \in Refs : exec' = Ended(x)
    BY <1>3
  <2>2. exec' = [exec EXCEPT ![x] = IF exec[x] = "open" THEN "ended" ELSE exec[x]]
    BY <2>1 DEF Ended
  <2>3. exec' \in [Refs -> {"none", "open", "ended"}] /\ Active' \subseteq Active
    BY <1>1, <2>2 DEF Active
  <2>4. Executed'
    BY <1>1, <1>3, <2>2, Names DEF Executed
  <2>5. Kept
    BY <1>1, <1>3, <2>1, <2>2 DEF Kept
  <2> QED
    BY <1>1, <1>3, <2>3, <2>4, <2>5 DEF Alone
<1>4. CASE UNCHANGED req /\ Active \subseteq {"run"} /\ exec' = [exec EXCEPT !["run"] = "open"]
  <2>1. Active' \subseteq {"run"}
    BY <1>1, <1>4 DEF Active
  <2> QED
    BY <1>1, <1>4, <2>1, Names DEF Alone, Executed, Kept
<1>5. CASE \E r \in Requests : req[r].st = "claimed" /\ Active = {} /\ Attached(r)
  <2>1. PICK r \in Requests : req[r].st = "claimed" /\ Active = {} /\ Attached(r)
    BY <1>5
  <2>2. exec' \in [Refs -> {"none", "open", "ended"}] /\ Active' \subseteq {r}
    BY <1>1, <2>1, Names DEF Attached, Active
  <2>3. /\ req' \in [Requests -> RequestStates] /\ req'[r].st = "fulfilled"
        /\ \A s \in Requests : s # r => req'[s].st = req[s].st
    <3>1. [req[r] EXCEPT !.st = "fulfilled"] \in RequestStates
          /\ [req[r] EXCEPT !.st = "fulfilled"].st = "fulfilled"
      BY <1>1 DEF RequestStates
    <3>2. ASSUME NEW s \in Requests, NEW b \in BOOLEAN
          PROVE  /\ [req[s] EXCEPT !.moved = b] \in RequestStates
                 /\ [req[s] EXCEPT !.moved = b].st = req[s].st
      BY <1>1 DEF RequestStates
    <3>3. ASSUME NEW s \in Requests, s # r
          PROVE  \E b \in BOOLEAN : req'[s] = [req[s] EXCEPT !.moved = b]
      <4>1. req'[s] = [req[s] EXCEPT !.moved = @ \/ (r \in Resumes /\ req[s].st # "unasked")]
        BY <2>1, <3>3 DEF Attached
      <4>2. (req[s].moved \/ (r \in Resumes /\ req[s].st # "unasked")) \in BOOLEAN
        OBVIOUS
      <4> QED
        BY <4>1, <4>2, Zenon
    <3>4. req' = [s \in Requests |-> req'[s]] /\ req'[r] = [req[r] EXCEPT !.st = "fulfilled"]
      BY <2>1 DEF Attached
    <3>5. \A s \in Requests : s # r => req'[s] \in RequestStates /\ req'[s].st = req[s].st
      BY <3>2, <3>3
    <3>6. req'[r] \in RequestStates /\ req'[r].st = "fulfilled"
      BY <3>1, <3>4
    <3>7. \A s \in Requests : req'[s] \in RequestStates
      BY <3>5, <3>6
    <3> QED
      BY <3>4, <3>5, <3>6, <3>7
  <2>4. Executed'
    BY <1>1, <2>1, <2>3, Names DEF Executed, Attached
  <2>5. Kept
    BY <1>1, <2>1, <2>3, Names DEF Kept, Attached, Active
  <2> QED
    BY <2>2, <2>3, <2>4, <2>5 DEF Alone
<1>6. CASE /\ UNCHANGED exec
           /\ \E r \in Requests, q \in RequestStates :
                 /\ req' = [req EXCEPT ![r] = q]
                 /\ req[r].st # "fulfilled" /\ q.st # "fulfilled"
  BY <1>1, <1>6 DEF Alone, Executed, Kept, Active
<1> QED
  BY <1>2, <1>3, <1>4, <1>5, <1>6 DEF ExecMoves

\* What the dispatch d may do.
Advances(d) ==
    /\ disp[d] \in Dispatches /\ OnlyMoves(d)
    /\ \/ UNCHANGED req
       \/ /\ Holds(d) /\ disp'[d].pc \notin EarlyPCs
          /\ \A s \in Requests : s # disp[d].r =>
                req'[s].st = req[s].st /\ req'[s].by = req[s].by /\ req'[s].live = req[s].live
    /\ \/ disp'[d] = Idle
       \/ /\ disp'[d] \in Dispatches /\ disp'[d].r = disp[d].r
          /\ disp'[d].pc \in EarlyPCs => disp[d].pc \in EarlyPCs /\ UNCHANGED req
          /\ disp'[d].pc = "judge" => disp'[d].ref \in Active /\ UNCHANGED exec
          /\ disp'[d].pc = "fail" => /\ disp[d].pc = "judge" /\ disp'[d].ref = disp[d].ref
                                    /\ IsGone(disp[d].ref) /\ UNCHANGED <<loop, exec>>
          /\ disp'[d].pc = "orphan" => req'[disp[d].r].st = "fulfilled"
          /\ disp'[d].pc = "end" => /\ disp[d].pc = "orphan" /\ ~Alive(disp[d].r)
                                   /\ UNCHANGED <<loop, req>>

\* The ways in which a dispatch advances: it stops,
LEMMA StopsAdvance ==
    ASSUME Base, NEW d \in Dispatchers, disp[d] \in Dispatches, Stops(d),
           UNCHANGED req
    PROVE  Advances(d)
  BY StopsTypes DEF Base, Advances

\* it goes on with the store as it was,
LEMMA GoesAdvance ==
    ASSUME Base, NEW d \in Dispatchers, disp[d] \in Dispatches, NEW pc \in DispatchPCs, Goes(d, pc),
           UNCHANGED req,
           pc \in EarlyPCs => disp[d].pc \in EarlyPCs,
           pc # "judge",
           pc = "fail" => disp[d].pc = "judge" /\ IsGone(disp[d].ref) /\ UNCHANGED <<loop, exec>>,
           pc = "orphan" => req[disp[d].r].st = "fulfilled",
           pc = "end" => disp[d].pc = "orphan" /\ ~Alive(disp[d].r) /\ UNCHANGED <<loop>>
    PROVE  Advances(d)
  BY GoesTypes DEF Base, Advances

\* it goes on to its delivery,
LEMMA ToDeliveryAdvance ==
    ASSUME Base, NEW d \in Dispatchers, disp[d] \in Dispatches, ToDelivery(d),
           UNCHANGED req, disp[d].pc \in EarlyPCs
    PROVE  Advances(d)
  BY ToDeliveryTypes DEF Base, Advances

\* or it has fulfilled its request.
LEMMA AttachedAdvance ==
    ASSUME Base, NEW d \in Dispatchers, disp[d] \in Dispatches, Holds(d), Attached(disp[d].r),
           NEW pc \in {"orphan", "again"}, Goes(d, pc) \/ Stops(d)
    PROVE  Advances(d)
<1>1. disp[d].r \in Requests /\ req \in [Requests -> RequestStates]
  BY DEF Base, TypeOK, Dispatches
<1>2. \A s \in Requests : s # disp[d].r =>
         req'[s].st = req[s].st /\ req'[s].by = req[s].by /\ req'[s].live = req[s].live
  BY <1>1 DEF Attached, RequestStates
<1>3. req'[disp[d].r].st = "fulfilled"
  BY <1>1 DEF Attached, RequestStates
<1>4. pc \in DispatchPCs /\ pc \notin EarlyPCs /\ "idle" \notin EarlyPCs
  BY DEF DispatchPCs, EarlyPCs
<1>5. CASE Goes(d, pc)
  BY <1>2, <1>3, <1>4, <1>5, GoesTypes DEF Base, Advances, EarlyPCs
<1>6. CASE Stops(d)
  BY <1>2, <1>4, <1>6, StopsTypes DEF Base, Advances, Idle
<1> QED
  BY <1>5, <1>6

\* Every step of a dispatch is such a move.
LEMMA DispatchMoves ==
    ASSUME Base, NEW d \in Dispatchers,
           DispatchActs(d) \/ DeliveryTimesOut(d) \/ FulfilUnanswered(d) \/ Defers(d)
    PROVE  Advances(d) /\ ExecMoves /\ LoopMoves /\ loop' \in LoopStates
<1>1. TypeOK /\ loop \in LoopStates /\ req \in [Requests -> RequestStates]
  BY DEF Base, TypeOK
<1>2. disp[d] \in Dispatches
  <2>1. disp[d].pc \in DispatchPCs \/ disp[d] # Idle
    BY DEF DispatchActs, IntentIsGone, Reads, Judges, FailsStranded, Delivers, Checks, Fulfils,
       FulfilAnswered, Looks, EndsOrphan, Rejects, DeliveryTimesOut, FulfilUnanswered, Defers,
       DispatchPCs, EarlyPCs
  <2> QED
    BY <1>1, <2>1, Busy
<1>3. disp[d].r \in Requests /\ disp[d].ref \in Refs \cup {None} /\ disp[d].r \in Refs
  BY <1>2, Names DEF Dispatches
<1>4. /\ EarlyPCs \subseteq DispatchPCs
      /\ {"check", "fulfil", "again", "orphan", "end", "reject"} \subseteq DispatchPCs
      /\ {"check", "fulfil", "again", "orphan", "end", "reject"} \cap EarlyPCs = {}
      /\ EarlyPCs = {"claimed", "judge", "fail", "deliver"}
  BY DEF DispatchPCs, EarlyPCs
<1>5. UNCHANGED <<loop, ran, late>> => LoopMoves /\ loop' \in LoopStates
  BY <1>1 DEF LoopMoves, Follows, TypeOK
<1>6. UNCHANGED <<req, exec>> => ExecMoves
  BY DEF ExecMoves
<1>7. CASE IntentIsGone(d)
  <2>1. Advances(d)
    BY <1>2, <1>4, <1>7, GoesAdvance DEF IntentIsGone
  <2> QED
    BY <1>5, <1>6, <1>7, <2>1 DEF IntentIsGone
<1>8. CASE Reads(d)
  <2>1. disp[d].pc = "claimed" /\ UNCHANGED <<req, exec, loop, ran, late, faults>>
    BY <1>8 DEF Reads
  <2>2. CASE Goes(d, "deliver")
    BY <1>2, <1>4, <1>5, <1>6, <2>1, <2>2, GoesAdvance
  <2>3. CASE \E x \in Active : disp' = [disp EXCEPT ![d].pc = "judge", ![d].ref = x]
    <3>1. PICK x \in Active : disp' = [disp EXCEPT ![d].pc = "judge", ![d].ref = x]
      BY <2>3
    <3>2. disp' = [disp EXCEPT ![d] = [disp[d] EXCEPT !.pc = "judge", !.ref = x]]
      BY <1>1, <3>1 DEF TypeOK
    <3>3. [disp[d] EXCEPT !.pc = "judge", !.ref = x] \in Dispatches
      BY <1>2, <1>4 DEF Dispatches, Active
    <3>4. /\ disp'[d] = [disp[d] EXCEPT !.pc = "judge", !.ref = x] /\ OnlyMoves(d)
      BY <1>1, <3>2, <3>3 DEF TypeOK, OnlyMoves
    <3>5. disp'[d].pc = "judge" /\ disp'[d].ref = x /\ disp'[d].r = disp[d].r
      BY <1>2, <3>4 DEF Dispatches
    <3> QED
      BY <1>2, <1>4, <1>5, <1>6, <2>1, <3>3, <3>4, <3>5 DEF Advances
  <2> QED
    BY <1>8, <2>2, <2>3 DEF Reads
<1>9. CASE Judges(d)
  <2>1. Advances(d)
    BY <1>2, <1>4, <1>9, GoesAdvance, ToDeliveryAdvance DEF Judges
  <2> QED
    BY <1>5, <1>6, <1>9, <2>1 DEF Judges
<1>10. CASE FailsStranded(d)
  <2>1. Advances(d)
    BY <1>2, <1>4, <1>10, ToDeliveryAdvance DEF FailsStranded
  <2>2. ExecMoves
    <3>1. CASE disp[d].ref = None
      BY <1>6, <1>10, <3>1 DEF FailsStranded
    <3>2. CASE disp[d].ref # None
      <4>1. disp[d].ref \in Refs /\ exec' = Ended(disp[d].ref) /\ UNCHANGED req
        BY <1>3, <1>10, <3>2 DEF FailsStranded
      <4>2. Ends(d, disp[d].ref)
        BY <1>2, <1>10 DEF FailsStranded, Ends
      <4> QED
        BY <4>1, <4>2 DEF ExecMoves
    <3> QED
      BY <3>1, <3>2
  <2> QED
    BY <1>5, <1>10, <2>1, <2>2 DEF FailsStranded
<1>11. CASE Delivers(d) \/ DeliveryTimesOut(d)
  <2>1. disp[d].pc = "deliver" /\ UNCHANGED <<req, exec, ran>>
    BY <1>11 DEF Delivers, DeliveryTimesOut
  <2>2. \/ Stops(d) /\ disp'[d] = Idle /\ OnlyMoves(d)
        \/ \E pc \in {"check", "reject"} : Goes(d, pc) /\ disp'[d].pc = pc /\ OnlyMoves(d)
    BY <1>1, <1>2, <1>4, <1>11, StopsTypes, GoesTypes DEF Delivers, DeliveryTimesOut
  <2>3. Advances(d)
    BY <1>2, <1>4, <2>1, <2>2, StopsAdvance, GoesAdvance
  <2>4. \/ UNCHANGED <<loop, late>>
        \/ /\ "accepted" \in Verdicts(disp[d].r) /\ loop' = Accepted(disp[d].r)
           /\ Stops(d) \/ Goes(d, "check")
           /\ Delivered(d)
    BY <1>11 DEF Delivers, DeliveryTimesOut
  <2>5. LoopMoves /\ loop' \in LoopStates
    <3>1. CASE UNCHANGED <<loop, late>>
      BY <1>5, <2>1, <3>1
    <3>2. CASE /\ "accepted" \in Verdicts(disp[d].r) /\ loop' = Accepted(disp[d].r)
               /\ Stops(d) \/ Goes(d, "check")
               /\ Delivered(d)
      <4>1. OnlyMoves(d) /\ disp'[d].pc \in {"check", "idle"}
        BY <1>1, <1>2, <1>4, <3>2, StopsTypes, GoesTypes DEF Idle
      <4>2. Follows(loop, loop') \/ Starting(disp[d].r)
        BY <1>1, <1>3, <3>2, AcceptedTypes DEF Starting
      <4>3. /\ late \subseteq late' /\ late' \subseteq Requests
            /\ Holds(d) \/ disp[d].r \in late'
        BY <1>1, <1>3, <3>2 DEF Delivered, TypeOK
      <4> QED
        BY <1>3, <2>1, <4>1, <4>2, <4>3, NewRunTypes DEF LoopMoves, Follows, Starting
    <3> QED
      BY <2>4, <3>1, <3>2
  <2> QED
    BY <1>6, <2>1, <2>3, <2>5
<1>12. CASE Checks(d)
  <2>1. Advances(d)
    BY <1>2, <1>4, <1>12, GoesAdvance, StopsAdvance DEF Checks
  <2> QED
    BY <1>5, <1>6, <1>12, <2>1 DEF Checks
<1>13. CASE Fulfils(d)
  <2>1. Advances(d)
    BY <1>2, <1>13, AttachedAdvance DEF Fulfils
  <2>2. ExecMoves
    BY <1>3, <1>13 DEF Fulfils, ExecMoves, Holds, Refusals
  <2> QED
    BY <1>5, <1>13, <2>1, <2>2 DEF Fulfils
<1>14. CASE FulfilAnswered(d)
  <2>1. \/ Goes(d, "orphan") /\ req[disp[d].r].st = "fulfilled"
        \/ Goes(d, "reject") \/ Stops(d)
    BY <1>14 DEF FulfilAnswered
  <2>2. Advances(d)
    BY <1>2, <1>4, <1>14, <2>1, GoesAdvance, StopsAdvance DEF FulfilAnswered
  <2> QED
    BY <1>5, <1>6, <1>14, <2>2 DEF FulfilAnswered
<1>15. CASE FulfilUnanswered(d)
  <2>1. Goes(d, "again") \/ Stops(d)
    BY <1>15 DEF FulfilUnanswered
  <2>2. CASE Holds(d) /\ Refusals(disp[d].r) = {} /\ Attached(disp[d].r)
    <3>1. Advances(d)
      BY <1>2, <2>1, <2>2, AttachedAdvance
    <3>2. ExecMoves
      BY <1>3, <2>2 DEF ExecMoves, Holds, Refusals
    <3> QED
      BY <1>5, <1>15, <3>1, <3>2 DEF FulfilUnanswered
  <2>3. CASE UNCHANGED <<req, exec>>
    <3>1. Advances(d)
      BY <1>2, <1>4, <2>1, <2>3, GoesAdvance, StopsAdvance
    <3> QED
      BY <1>5, <1>6, <1>15, <2>3, <3>1 DEF FulfilUnanswered
  <2> QED
    BY <1>15, <2>2, <2>3 DEF FulfilUnanswered
<1>16. CASE Looks(d)
  <2>1. Advances(d)
    BY <1>2, <1>4, <1>16, GoesAdvance, StopsAdvance DEF Looks
  <2> QED
    BY <1>5, <1>6, <1>16, <2>1 DEF Looks
<1>17. CASE EndsOrphan(d)
  <2>1. Advances(d)
    BY <1>2, <1>17, StopsAdvance DEF EndsOrphan
  <2>2. ExecMoves
    BY <1>2, <1>3, <1>17 DEF EndsOrphan, ExecMoves, Ends
  <2> QED
    BY <1>5, <1>17, <2>1, <2>2 DEF EndsOrphan
<1>18. CASE Rejects(d)
  <2>1. Stops(d) /\ OnlyMoves(d) /\ disp'[d] = Idle /\ UNCHANGED <<exec, loop, ran, late>>
    BY <1>1, <1>18, StopsTypes DEF Rejects
  <2>2. CASE Holds(d)
    <3>1. req' = [req EXCEPT ![disp[d].r] = [req[disp[d].r] EXCEPT !.st = "rejected"]]
      BY <1>18, <2>2 DEF Rejects
    <3>2. /\ [req[disp[d].r] EXCEPT !.st = "rejected"] \in RequestStates
          /\ [req[disp[d].r] EXCEPT !.st = "rejected"].st # "fulfilled"
      BY <1>1, <1>3 DEF RequestStates
    <3>3. ExecMoves
      BY <1>3, <2>1, <2>2, <3>1, <3>2 DEF ExecMoves, Holds
    <3>4. Advances(d)
      BY <1>1, <1>2, <2>1, <2>2, <3>1 DEF Advances, Idle, EarlyPCs
    <3> QED
      BY <1>5, <2>1, <3>3, <3>4
  <2>3. CASE ~Holds(d)
    BY <1>2, <1>5, <1>6, <1>18, <2>1, <2>3, StopsAdvance DEF Rejects
  <2> QED
    BY <2>2, <2>3
<1>19. CASE Defers(d)
  <2>1. \/ Stops(d)
        \/ disp[d].pc \in {"judge", "fail"} /\ ToDelivery(d)
        \/ Goes(d, "fulfil")
    BY <1>19 DEF Defers
  <2>2. Advances(d)
    BY <1>2, <1>4, <1>19, <2>1, GoesAdvance, ToDeliveryAdvance, StopsAdvance DEF Defers
  <2> QED
    BY <1>5, <1>6, <1>19, <2>2 DEF Defers
<1> QED
  BY <1>7, <1>8, <1>9, <1>10, <1>11, <1>12, <1>13, <1>14, <1>15, <1>16, <1>17, <1>18, <1>19
     DEF DispatchActs

\* What the steps of the loop itself do to the executions.
LEMMA RunExecs ==
    ASSUME Base, RunActs \/ EndIsLost \/ Dies \/ PollerStarts \/ OperatorRestarts
    PROVE  ExecMoves
<1>1. loop \in LoopStates /\ exec \in [Refs -> {"none", "open", "ended"}] /\ OwnRef \in Refs
  BY Names DEF Base, TypeOK, LoopStates, OwnRef
<1>2. UNCHANGED <<req, exec>> => ExecMoves
  BY DEF ExecMoves
<1>3. CASE Binds \/ GivesUp \/ DeliveryBinds \/ DeliveryIsDropped \/ EndIsLost \/ Dies
           \/ PollerStarts \/ OperatorRestarts
  BY <1>2, <1>3 DEF Binds, GivesUp, DeliveryBinds, DeliveryIsDropped, EndIsLost, Dies,
                    PollerStarts, OperatorRestarts, Run, Refused
<1>4. CASE Ensures
  <2>1. CASE Active \subseteq {"run"}
    BY <1>4, <2>1 DEF Ensures, ExecMoves
  <2>2. CASE ~(Active \subseteq {"run"})
    BY <1>2, <1>4, <2>2 DEF Ensures, Run, Refused
  <2> QED
    BY <2>1, <2>2
<1>5. CASE Flips
  <2>1. loop'.at = "gates"
    BY <1>1, <1>5 DEF Flips, Run, LoopStates
  <2> QED
    BY <1>1, <1>5, <2>1 DEF Flips, Run, ExecMoves
<1>6. CASE Leaves
  <2>1. loop'.at = "leaving"
    BY <1>1, <1>6, LeavingTypes DEF Leaves, Run
  <2> QED
    BY <1>1, <1>6, <2>1 DEF Leaves, Run, ExecMoves
<1>7. CASE DeliveryLands
  <2>1. loop'.at # "work"
    BY <1>1, <1>7, SettledTypes DEF DeliveryLands, Run
  <2>2. CASE loop.open = None
    <3>1. exec' = exec
      BY <1>1, <1>7, <2>2, Names DEF DeliveryLands, Ended, Refs
    <3> QED
      BY <1>2, <1>7, <3>1 DEF DeliveryLands, Run
  <2>3. CASE loop.open # None
    BY <1>1, <1>7, <2>1, <2>3, Names DEF DeliveryLands, Run, ExecMoves, LoopStates
  <2> QED
    BY <2>2, <2>3
<1> QED
  BY <1>3, <1>4, <1>5, <1>6, <1>7 DEF RunActs

\* A request that is claimed anew, and the dispatch that begins with it.
ClaimMoves(d, r) ==
    /\ disp[d] = Idle /\ OnlyMoves(d)
    /\ disp'[d].pc = "claimed" /\ disp'[d].r = r /\ disp'[d] \in Dispatches
    /\ req' = [req EXCEPT ![r].st = "claimed", ![r].by = d, ![r].live = TRUE]
    /\ Claimable(r)

\* The steps of the store: requests come, are claimed, and leases run out.
LEMMA RequestMoves ==
    ASSUME Base, NEW r \in Requests, Asks(r) \/ Lapses(r) \/ Overruns(r) \/ Claims(r)
    PROVE  /\ ExecMoves /\ LoopMoves /\ UNCHANGED <<exec, loop, ran, late>>
           /\ UNCHANGED disp \/ \E d \in Dispatchers : ClaimMoves(d, r)
<1>1. /\ TypeOK /\ req \in [Requests -> RequestStates] /\ req[r] \in RequestStates
      /\ loop \in LoopStates
  BY DEF Base, TypeOK
<1>2. UNCHANGED <<loop, ran, late>> => LoopMoves
  BY <1>1 DEF LoopMoves, Follows, TypeOK
<1>3. CASE Asks(r)
  <2>1. /\ req' = [req EXCEPT ![r] = [req[r] EXCEPT !.st = "pending"]] /\ req[r].st = "unasked"
        /\ UNCHANGED <<exec, loop, disp, ran, late>>
    BY <1>3 DEF Asks
  <2>2. [req[r] EXCEPT !.st = "pending"] \in RequestStates
        /\ [req[r] EXCEPT !.st = "pending"].st = "pending"
    BY <1>1 DEF RequestStates
  <2> QED
    BY <1>2, <2>1, <2>2 DEF ExecMoves
<1>4. CASE Lapses(r) \/ Overruns(r)
  <2>1. /\ req' = [req EXCEPT ![r] = [req[r] EXCEPT !.live = FALSE]] /\ req[r].st = "claimed"
        /\ UNCHANGED <<exec, loop, disp, ran, late>>
    BY <1>4 DEF Lapses, Overruns, LeaseEnds, Live
  <2>2. [req[r] EXCEPT !.live = FALSE] \in RequestStates
        /\ [req[r] EXCEPT !.live = FALSE].st = req[r].st
    BY <1>1 DEF RequestStates
  <2> QED
    BY <1>2, <2>1, <2>2 DEF ExecMoves
<1>5. CASE Claims(r)
  <2>1. PICK d \in Dispatchers :
           /\ disp[d] = Idle
           /\ req' = [req EXCEPT ![r].st = "claimed", ![r].by = d, ![r].live = TRUE]
           /\ disp' = [disp EXCEPT ![d] = [pc |-> "claimed", r |-> r, ref |-> None]]
    <3> DEFINE c == CHOOSE d \in Dispatchers : disp[d] = Idle
    <3>1. c \in Dispatchers /\ disp[c] = Idle
      BY <1>5 DEF Claims
    <3> QED
      BY <1>5, <3>1 DEF Claims
  <2>2. Claimable(r) /\ UNCHANGED <<exec, loop, ran, late>>
    BY <1>5 DEF Claims
  <2>3. [pc |-> "claimed", r |-> r, ref |-> None] \in Dispatches
    BY DEF Dispatches, DispatchPCs, EarlyPCs
  <2>4. ClaimMoves(d, r)
    BY <1>1, <2>1, <2>2, <2>3 DEF TypeOK, ClaimMoves, OnlyMoves
  <2>5. req' = [req EXCEPT ![r] = [req[r] EXCEPT !.st = "claimed", !.by = d, !.live = TRUE]]
    BY <1>1, <2>1
  <2>6. [req[r] EXCEPT !.st = "claimed", !.by = d, !.live = TRUE] \in RequestStates
        /\ [req[r] EXCEPT !.st = "claimed", !.by = d, !.live = TRUE].st = "claimed"
    BY <1>1 DEF RequestStates
  <2>7. ExecMoves
    BY <2>2, <2>5, <2>6 DEF ExecMoves, Claimable
  <2> QED
    BY <1>2, <2>2, <2>4, <2>7
<1> QED
  BY <1>3, <1>4, <1>5

\* No step goes past the bound of the faults.
LEMMA FaultsCounted ==
    ASSUME TypeOK, Next
    PROVE  faults' \in Counts
  BY FaultTypes
     DEF Next, Asks, Lapses, Overruns, LeaseEnds, Claims, DispatchActs, IntentIsGone, Reads, Judges,
         FailsStranded, Delivers, Checks, Fulfils, FulfilAnswered, Looks, EndsOrphan, Rejects,
         DeliveryTimesOut, FulfilUnanswered, Defers, RunActs, Binds, GivesUp, WaitEnds, Ensures,
         Flips, Leaves, DeliveryBinds, DeliveryLands, DeliveryIsDropped, EndIsLost, Dies,
         PollerStarts, OperatorRestarts

\* The dispatches after a step of the run's.
LEMMA RunDispatches ==
    ASSUME Base, RunActs \/ EndIsLost \/ Dies \/ PollerStarts \/ OperatorRestarts
    PROVE  \/ UNCHANGED disp
           \/ disp' = [d \in Dispatchers |->
                         IF disp[d].ref = "run" THEN [disp[d] EXCEPT !.ref = None] ELSE disp[d]]
  BY DEF RunActs, EndIsLost, Dies, PollerStarts, OperatorRestarts, Binds, GivesUp, Ensures, Flips,
         Leaves, DeliveryBinds, DeliveryLands, DeliveryIsDropped, Run, Refused

\* Every step is one of these.
LEMMA NextMoves ==
    ASSUME Base, Next
    PROVE  /\ ExecMoves /\ LoopMoves /\ loop' \in LoopStates
           /\ disp' \in [Dispatchers -> Dispatches \cup {Idle}] /\ faults' \in Counts
<1>1. TypeOK /\ loop \in LoopStates /\ disp \in [Dispatchers -> Dispatches \cup {Idle}]
  BY DEF Base, TypeOK
<1>2. faults' \in Counts
  BY <1>1, FaultsCounted
<1>3. CASE \E r \in Requests : Asks(r) \/ Lapses(r) \/ Overruns(r) \/ Claims(r)
  BY <1>1, <1>2, <1>3, RequestMoves DEF ClaimMoves, OnlyMoves
<1>4. CASE \E d \in Dispatchers :
              DispatchActs(d) \/ DeliveryTimesOut(d) \/ FulfilUnanswered(d) \/ Defers(d)
  BY <1>2, <1>4, DispatchMoves DEF Advances, OnlyMoves
<1>5. CASE RunActs \/ EndIsLost \/ Dies \/ PollerStarts \/ OperatorRestarts
  <2>1. \A d \in Dispatchers : disp[d].ref = "run" =>
           [disp[d] EXCEPT !.ref = None] \in Dispatches
    BY <1>1, Names DEF Dispatches, Idle
  <2>2. disp' \in [Dispatchers -> Dispatches \cup {Idle}]
    BY <1>1, <1>5, <2>1, RunDispatches
  <2> QED
    BY <1>1, <1>2, <1>5, <2>2, RunMoves, RunExecs
<1> QED
  BY <1>3, <1>4, <1>5 DEF Next

\* What holds whoever delivers late: at first, after every step, always.
LEMMA BaseInit == Init => Base
<1>1. NoRun \in LoopStates /\ NoRun.st = "absent"
  BY DEF NoRun, LoopStates
<1> QED
  BY <1>1, Names DEF Init, Base, TypeOK, Counts, Alone, Executed, Worked, OwnsTaken, Active, RequestStates

\* See BaseInit.
LEMMA BaseStep ==
    ASSUME Base, [Next]_vars
    PROVE  Base'
<1>1. CASE Next
  <2>1. /\ ExecMoves /\ LoopMoves /\ loop' \in LoopStates
        /\ disp' \in [Dispatchers -> Dispatches \cup {Idle}] /\ faults' \in Counts
    BY <1>1, NextMoves
  <2>2. /\ req' \in [Requests -> RequestStates] /\ exec' \in [Refs -> {"none", "open", "ended"}]
        /\ Alone' /\ Executed' /\ Kept
    BY <2>1, StoreKeeps
  <2>3. ran' \subseteq Requests /\ late' \subseteq Requests /\ Worked'
    BY <2>1, <2>2 DEF LoopMoves, Base, TypeOK, Worked, Kept
  <2>4. OwnsTaken'
    <3>1. /\ loop \in LoopStates
          /\ \A d \in Dispatchers : disp[d].pc = "deliver" => disp[d].r \in Requests
      BY DEF Base, TypeOK, Dispatches, Idle
    <3>2. CASE Follows(loop, loop')
      BY <3>2 DEF Follows, Base, OwnsTaken
    <3>3. CASE \E r \in Requests \cup {None} : Starting(r)
      BY <3>3, NewRunTypes DEF Starting, OwnsTaken
    <3>4. CASE loop.st = "running" /\ loop' = [loop EXCEPT !.at = "work"]
      BY <3>1, <3>4 DEF LoopStates, Base, OwnsTaken
    <3> QED
      BY <2>1, <3>1, <3>2, <3>3, <3>4 DEF LoopMoves
  <2> QED
    BY <2>1, <2>2, <2>3, <2>4 DEF Base, TypeOK
<1>2. CASE UNCHANGED vars
  BY <1>2 DEF vars, Base, TypeOK, Alone, Executed, Worked, OwnsTaken, Active
<1> QED
  BY <1>1, <1>2

\* See BaseInit.
LEMMA BaseInvariant == Spec => []Base
  BY BaseInit, BaseStep, PTL DEF Spec

\* Every variable keeps its type, for any requests and dispatchers.
THEOREM TypeCorrect == Spec => []TypeOK
<1>1. Base => TypeOK
  BY DEF Base
<1> QED
  BY <1>1, BaseInvariant, PTL

\* mctl-api lets an item have one open execution at most, whoever attaches them: the
\* fulfilments of any number of dispatchers, and the intake's runs; and it attaches one
\* to a request when it fulfils it.
THEOREM OneIsOpenHolds == Spec => []OneIsOpen
<1>1. Base => OneIsOpen
  <2> SUFFICES ASSUME Base
               PROVE  Cardinality(Active) <= 1
    BY DEF Base, Executed, OneIsOpen
  <2>1. CASE Active = {}
    BY <2>1, FS_EmptySet
  <2>2. CASE Active # {}
    <3>1. PICK x \in Active : Active = {x}
      BY <2>2 DEF Base, Alone
    <3>2. Cardinality({x}) = 1
      BY FS_Singleton
    <3> QED
      BY <3>1, <3>2
  <2> QED
    BY <2>1, <2>2
<1> QED
  BY <1>1, BaseInvariant, PTL

-----------------------------------------------------------------------------
(* What is delivered in time, and what a dispatch is about to end.           *)

\* A run that starts for a request is its first: the request is still claimed, or it
\* is delivered late.
LEMMA FirstRunStep ==
    ASSUME IInv, LoopMoves
    PROVE  FirstRun'
<1>1. /\ loop \in LoopStates /\ ran \subseteq Requests
      /\ disp \in [Dispatchers -> Dispatches \cup {Idle}] /\ late \subseteq late'
  BY DEF IInv, Base, TypeOK, LoopMoves
<1>2. CASE UNCHANGED ran /\ Follows(loop, loop')
  BY <1>1, <1>2 DEF Follows, IInv, FirstRun
<1>3. CASE UNCHANGED ran /\ Starting(None)
  BY <1>1, <1>3, NewRunTypes, Names DEF Starting, FirstRun
<1>4. ASSUME NEW d \in Dispatchers, disp[d].pc = "deliver", Starting(disp[d].r), UNCHANGED ran,
             Holds(d) \/ disp[d].r \in late'
      PROVE  FirstRun'
  <2>1. disp[d].r \in Requests
    BY <1>1, <1>4 DEF Dispatches, Idle
  <2>2. disp[d].r \notin ran \/ disp[d].r \in late'
    BY <1>4, <2>1 DEF IInv, Base, Worked, Holds
  <2> QED
    BY <1>4, <2>1, <2>2, NewRunTypes DEF Starting, FirstRun
<1>5. loop' = [loop EXCEPT !.at = "work"] => FirstRun'
  BY <1>1 DEF LoopStates, FirstRun
<1> QED
  BY <1>2, <1>3, <1>4, <1>5 DEF LoopMoves

\* What ends an execution ends none that a run works under.
LEMMA WorkStep ==
    ASSUME IInv, ExecMoves, LoopMoves
    PROVE  WorkedIsOpen'
<1>1. /\ loop \in LoopStates /\ exec \in [Refs -> {"none", "open", "ended"}] /\ Base
      /\ disp \in [Dispatchers -> Dispatches \cup {Idle}] /\ late \subseteq late'
  BY DEF IInv, Base, TypeOK, LoopMoves
<1>2. CASE Follows(loop, loop')
  <2> SUFFICES ASSUME loop'.st = "running", loop'.at = "work", OwnRef \notin late,
                      OwnRef' = OwnRef
               PROVE  exec'[OwnRef] = "open"
    <3>1. loop'.st = "running" /\ loop'.at = "work" => OwnRef' = OwnRef
      BY <1>2 DEF Follows, OwnRef
    <3> QED
      BY <1>1, <3>1 DEF WorkedIsOpen
  <2>1. Works(OwnRef) /\ exec[OwnRef] = "open" /\ OwnRef' = OwnRef /\ OwnRef \in Refs
    BY <1>1, <1>2, Names DEF Follows, Works, IInv, WorkedIsOpen, OwnRef, LoopStates
  <2>2. ASSUME NEW d \in Dispatchers, NEW x \in Refs, Ends(d, x)
        PROVE  x # OwnRef
    <3> SUFFICES ASSUME x \notin late
                 PROVE  x # OwnRef
      OBVIOUS
    <3>1. CASE disp[d].pc = "fail" /\ x = disp[d].ref
      BY <2>1, <3>1 DEF IInv, EndsNoWork
    <3>2. CASE disp[d].pc = "end" /\ x = disp[d].r
      <4>1. x \in Requests /\ ~Runs(x)
        BY <2>2, <3>2 DEF IInv, EndsNoWork, Ends, Dispatches
      <4> QED
        BY <2>1, <4>1, Names DEF Runs, Works, OwnRef
    <3> QED
      BY <2>2, <3>1, <3>2 DEF Ends
  <2>3. exec'[OwnRef] = "open"
    <3>1. CASE \E x \in Refs : exec' = Ended(x) /\ \E d \in Dispatchers : Ends(d, x)
      BY <1>1, <2>1, <2>2, <3>1 DEF Ended
    <3>2. CASE UNCHANGED exec
      BY <2>1, <3>2
    <3>3. CASE exec' = [exec EXCEPT !["run"] = "open"]
      BY <1>1, <2>1, <3>3
    <3>4. CASE \E r \in Requests : Attached(r)
      BY <1>1, <2>1, <3>4 DEF Attached
    <3> QED
      BY <3>1, <3>2, <3>3, <3>4 DEF ExecMoves
  <2> QED
    BY <2>1, <2>3
<1>3. CASE \E r \in Requests \cup {None} : Starting(r)
  BY <1>3, NewRunTypes DEF Starting, WorkedIsOpen
<1>4. CASE /\ loop.own \in Requests /\ exec[loop.own] = "open"
           /\ loop' = [loop EXCEPT !.at = "work"] /\ UNCHANGED exec
  BY <1>1, <1>4, Names DEF LoopStates, WorkedIsOpen, OwnRef
<1>5. CASE /\ loop.own = None /\ loop' = [loop EXCEPT !.at = "work"]
           /\ exec' = [exec EXCEPT !["run"] = "open"]
  BY <1>1, <1>5, Names DEF LoopStates, WorkedIsOpen, OwnRef
<1> QED
  BY <1>1, <1>2, <1>3, <1>4, <1>5 DEF LoopMoves, Dispatches, Idle

\* No run comes to work under an execution that is about to end, unless it was started
\* for that request, or attaches the execution itself; and none is started in time for
\* a request that has an execution.
LEMMA NoNewWork ==
    ASSUME IInv, LoopMoves
    PROVE  /\ \A x \in Refs : Works(x)' =>
                 \/ Works(x) \/ (x \in Requests /\ Runs(x))
                 \/ /\ x = "run"
                    /\ disp' = [d \in Dispatchers |->
                           IF disp[d].ref = "run" THEN [disp[d] EXCEPT !.ref = None] ELSE disp[d]]
           /\ \A x \in Requests : Runs(x)' => Runs(x) \/ exec[x] = "none" \/ x \in late'
<1>1. /\ loop \in LoopStates /\ Base
      /\ disp \in [Dispatchers -> Dispatches \cup {Idle}]
  BY DEF IInv, Base, TypeOK
<1>2. CASE Follows(loop, loop')
  BY <1>2 DEF Follows, Works, Runs, OwnRef
<1>3. CASE Starting(None)
  BY <1>3, NewRunTypes, Names DEF Starting, Works, Runs
<1>4. ASSUME NEW d \in Dispatchers, disp[d].pc = "deliver", Starting(disp[d].r),
             Holds(d) \/ disp[d].r \in late'
      PROVE  /\ \A x \in Refs : ~Works(x)'
             /\ \A x \in Requests : Runs(x)' => exec[x] = "none" \/ x \in late'
  <2>1. disp[d].r \in Requests
    BY <1>1, <1>4 DEF Dispatches, Idle
  <2>2. exec[disp[d].r] = "none" \/ disp[d].r \in late'
    <3>1. CASE Holds(d)
      <4>1. req[disp[d].r].st # "fulfilled" /\ exec \in [Refs -> {"none", "open", "ended"}]
        BY <1>1, <3>1 DEF Holds, Base, TypeOK
      <4> QED
        BY <1>1, <2>1, <4>1 DEF Base, Executed
    <3> QED
      BY <1>4, <3>1
  <2> QED
    BY <1>4, <2>1, <2>2, NewRunTypes DEF Starting, Works, Runs
<1>5. CASE /\ loop.st = "running" /\ loop.own \in Requests
           /\ loop' = [loop EXCEPT !.at = "work"]
  BY <1>1, <1>5, Names DEF LoopStates, Works, Runs, OwnRef
<1>6. CASE /\ loop.own = None /\ loop' = [loop EXCEPT !.at = "work"]
           /\ disp' = [d \in Dispatchers |->
                  IF disp[d].ref = "run" THEN [disp[d] EXCEPT !.ref = None] ELSE disp[d]]
  BY <1>1, <1>6, Names DEF LoopStates, Works, Runs, OwnRef
<1> QED
  BY <1>2, <1>3, <1>4, <1>5, <1>6 DEF LoopMoves

\* No step of anybody makes a run of what a dispatch is about to end.
LEMMA EndsStep ==
    ASSUME IInv, Next, NEW d \in Dispatchers
    PROVE  EndsNoWork(d)'
<1>1. /\ Base /\ disp \in [Dispatchers -> Dispatches \cup {Idle}]
      /\ loop \in LoopStates /\ EndsNoWork(d)
  BY DEF IInv, Base, TypeOK
<1>2. LoopMoves /\ Kept
  BY <1>1, NextMoves, StoreKeeps
<1>3. /\ \A x \in Refs : Works(x)' =>
            \/ Works(x) \/ (x \in Requests /\ Runs(x))
            \/ /\ x = "run"
               /\ disp' = [e \in Dispatchers |->
                      IF disp[e].ref = "run" THEN [disp[e] EXCEPT !.ref = None] ELSE disp[e]]
      /\ \A x \in Requests : Runs(x)' => Runs(x) \/ exec[x] = "none" \/ x \in late'
      /\ late \subseteq late'
  BY <1>2, NoNewWork DEF LoopMoves
<1>4. /\ disp[d].pc \in {"judge", "fail"} => disp[d].ref \in Refs \cup {None}
      /\ disp[d].pc \in {"orphan", "end"} => disp[d].r \in Requests
  BY <1>1 DEF Dispatches, Idle
<1>5. ~Works(None) /\ ~Works(None)'
  BY Names DEF Works, OwnRef
<1>6. \A r \in Requests : req[r].st = "fulfilled" => exec[r] # "none"
  BY <1>1 DEF Base, Executed
<1>7. CASE disp'[d] = disp[d]
  <2>1. ASSUME NEW x \in Refs, disp[d].pc = "fail", disp[d].ref = x, x \notin late'
        PROVE  ~Works(x)'
    <3>1. ~Works(x) /\ (x \in Requests => ~Runs(x))
      BY <1>1, <1>3, <2>1 DEF EndsNoWork
    <3>2. x = "run" =>
             disp' # [e \in Dispatchers |->
                 IF disp[e].ref = "run" THEN [disp[e] EXCEPT !.ref = None] ELSE disp[e]]
      <4>1. disp[d] \in Dispatches
        BY <1>1, <2>1 DEF Idle
      <4> QED
        BY <1>7, <2>1, <4>1, Names DEF Dispatches
    <3> QED
      BY <1>3, <2>1, <3>1, <3>2
  <2>2. \A x \in Refs \cup {None} :
           disp[d].pc = "fail" /\ disp[d].ref = x => ~Works(x)' \/ x \in late'
    BY <1>5, <2>1
  <2>3. \A x \in Requests :
           disp[d].pc = "fail" /\ disp[d].ref = x => ~Runs(x)' \/ x \in late'
    BY <1>1, <1>3 DEF EndsNoWork
  <2>4. disp[d].pc \in {"judge", "fail"} /\ disp[d].ref \in Requests =>
           exec'[disp[d].ref] # "none"
    BY <1>1, <1>2, Names DEF EndsNoWork, Kept
  <2>5. disp[d].pc \in {"orphan", "end"} => req'[disp[d].r].st = "fulfilled"
    BY <1>1, <1>2, <1>4 DEF EndsNoWork, Kept
  <2>6. \A x \in Requests :
           disp[d].pc = "end" /\ disp[d].r = x => ~Runs(x)' \/ x \in late'
    BY <1>1, <1>3, <1>4, <1>6 DEF EndsNoWork
  <2> QED
    BY <1>4, <1>7, <2>2, <2>3, <2>4, <2>5, <2>6 DEF EndsNoWork, Works, Runs, OwnRef
<1>8. CASE disp[d].ref = "run" /\ disp'[d] = [disp[d] EXCEPT !.ref = None]
  <2>1. disp[d] \in Dispatches
    BY <1>1, <1>8, Names DEF Idle
  <2>2. disp'[d].ref = None /\ disp'[d].pc = disp[d].pc /\ disp'[d].r = disp[d].r
    BY <1>8, <2>1 DEF Dispatches
  <2>3. disp[d].pc \in {"orphan", "end"} => req'[disp[d].r].st = "fulfilled"
    BY <1>1, <1>2, <1>4 DEF EndsNoWork, Kept
  <2>4. \A x \in Requests :
           disp[d].pc = "end" /\ disp[d].r = x => ~Runs(x)' \/ x \in late'
    BY <1>1, <1>3, <1>4, <1>6 DEF EndsNoWork
  <2> QED
    BY <1>4, <1>5, <2>2, <2>3, <2>4, Names DEF EndsNoWork, Works, Runs, OwnRef
<1>9. CASE \E r \in Requests : ClaimMoves(d, r)
  BY <1>9 DEF ClaimMoves, EndsNoWork
<1>10. CASE Advances(d) /\ disp'[d] = Idle
  BY <1>10 DEF Idle, EndsNoWork
<1>11. CASE Advances(d) /\ disp'[d] # Idle
  <2>1. /\ disp'[d].r = disp[d].r /\ disp[d].r \in Requests /\ disp[d] \in Dispatches
        /\ disp'[d].pc = "judge" => disp'[d].ref \in Active /\ UNCHANGED exec
        /\ disp'[d].pc = "fail" => /\ disp[d].pc = "judge" /\ disp'[d].ref = disp[d].ref
                                  /\ IsGone(disp[d].ref) /\ UNCHANGED <<loop, exec>>
        /\ disp'[d].pc = "orphan" => req'[disp[d].r].st = "fulfilled"
        /\ disp'[d].pc = "end" => /\ disp[d].pc = "orphan" /\ ~Alive(disp[d].r)
                                 /\ UNCHANGED <<loop, req>>
    BY <1>11 DEF Advances, Dispatches
  <2>2. CASE disp'[d].pc = "judge"
    BY <2>1, <2>2, Names DEF EndsNoWork, Active
  <2>3. CASE disp'[d].pc = "fail"
    <3>1. disp[d].ref \in Refs \cup {None} /\ UNCHANGED <<loop, exec>>
      BY <2>1, <2>3 DEF Dispatches
    <3>2. disp[d].ref \in Requests => exec[disp[d].ref] # "none"
      BY <1>1, <2>1, <2>3 DEF EndsNoWork
    <3>3. disp[d].ref \in Requests => ~Runs(disp[d].ref) /\ ~Works(disp[d].ref)
      BY <1>1, <2>1, <2>3, Names
         DEF IsGone, HoldsRequest, Runs, Works, OwnRef, Base, OwnsTaken
    <3>4. disp[d].ref \notin Requests => ~Works(disp[d].ref)
      BY <2>1, <2>3 DEF IsGone, Works
    <3> QED
      BY <2>1, <2>3, <3>1, <3>2, <3>3, <3>4 DEF EndsNoWork, Works, Runs, OwnRef
  <2>4. CASE disp'[d].pc = "orphan"
    BY <2>1, <2>4 DEF EndsNoWork
  <2>5. CASE disp'[d].pc = "end"
    <3>1. req'[disp[d].r].st = "fulfilled"
      BY <1>1, <2>1, <2>5 DEF EndsNoWork
    <3>2. ~Runs(disp[d].r)
      BY <1>1, <2>1, <2>5, Names DEF Alive, HoldsRequest, Runs, Base, OwnsTaken
    <3> QED
      BY <2>1, <2>5, <3>1, <3>2 DEF EndsNoWork, Runs
  <2>6. CASE disp'[d].pc \notin {"judge", "fail", "orphan", "end"}
    BY <2>6 DEF EndsNoWork
  <2> QED
    BY <2>2, <2>3, <2>4, <2>5, <2>6
<1>12. \/ disp'[d] = disp[d]
       \/ disp[d].ref = "run" /\ disp'[d] = [disp[d] EXCEPT !.ref = None]
       \/ \E r \in Requests : ClaimMoves(d, r)
       \/ Advances(d)
  <2>1. CASE \E r \in Requests : Asks(r) \/ Lapses(r) \/ Overruns(r) \/ Claims(r)
    <3>1. PICK r \in Requests : UNCHANGED disp \/ \E e \in Dispatchers : ClaimMoves(e, r)
      BY <1>1, <2>1, RequestMoves
    <3>2. CASE UNCHANGED disp
      BY <3>2
    <3>3. CASE \E e \in Dispatchers : ClaimMoves(e, r)
      <4>1. PICK e \in Dispatchers : ClaimMoves(e, r)
        BY <3>3
      <4>2. e # d => disp'[d] = disp[d]
        BY <4>1 DEF ClaimMoves, OnlyMoves
      <4> QED
        BY <4>1, <4>2
    <3> QED
      BY <3>1, <3>2, <3>3
  <2>2. CASE \E e \in Dispatchers :
                DispatchActs(e) \/ DeliveryTimesOut(e) \/ FulfilUnanswered(e) \/ Defers(e)
    BY <1>1, <2>2, DispatchMoves DEF Advances, OnlyMoves
  <2>3. CASE RunActs \/ EndIsLost \/ Dies \/ PollerStarts \/ OperatorRestarts
    BY <1>1, <2>3, RunDispatches
  <2> QED
    BY <2>1, <2>2, <2>3 DEF Next
<1> QED
  BY <1>7, <1>8, <1>9, <1>10, <1>11, <1>12

\* The invariant holds at first.
LEMMA InvInit == Init => IInv
<1>1. NoRun.st = "absent" /\ Idle.pc = "idle"
  BY DEF NoRun, Idle
<1> QED
  BY <1>1, BaseInit DEF Init, IInv, FirstRun, WorkedIsOpen, EndsNoWork

\* And after every step.
LEMMA InvStep ==
    ASSUME IInv, [Next]_vars
    PROVE  IInv'
<1>1. CASE Next
  <2>1. Base' /\ ExecMoves /\ LoopMoves
    BY <1>1, BaseStep, NextMoves DEF IInv
  <2> QED
    BY <1>1, <2>1, FirstRunStep, WorkStep, EndsStep DEF IInv
<1>2. CASE UNCHANGED vars
  <2>1. Base'
    BY <1>2, BaseStep DEF IInv
  <2>2. FirstRun' /\ WorkedIsOpen'
    BY <1>2 DEF vars, IInv, FirstRun, WorkedIsOpen, OwnRef
  <2>3. \A d \in Dispatchers : EndsNoWork(d)'
    BY <1>2 DEF vars, IInv, EndsNoWork, Works, Runs, OwnRef
  <2> QED
    BY <2>1, <2>2, <2>3 DEF IInv
<1> QED
  BY <1>1, <1>2

\* The invariant always holds.
LEMMA Invariant == Spec => []IInv
<1>1. IInv /\ [Next]_vars => IInv'
  BY InvStep
<1> QED
  BY <1>1, InvInit, PTL DEF Spec

\* While a run works under an execution no dispatcher ends it: neither one that took it
\* for the execution of a loop that is gone, nor one that took its own for an orphan,
\* whatever runs followed each other in between, unless the request was delivered by a
\* dispatch that had lost its lease.
THEOREM WorkedIsOpenHolds == Spec => []WorkedIsOpen
<1>1. IInv => WorkedIsOpen
  BY DEF IInv
<1> QED
  BY <1>1, Invariant, PTL

\* The run that begins to work for a request is the first that does, for any number of
\* requests, dispatchers, leases that run out, crashes and closed runs: a request that is
\* worked for twice was delivered by a dispatch that had lost its lease.
THEOREM RunsOnceHolds == Spec => RunsOnce
<1>1. ASSUME IInv, [Next]_vars, NEW r \in Requests \ late,
             loop.at = "bind", loop'.at = "work", loop'.own = r
      PROVE  r \notin ran
  <2>1. loop \in LoopStates
    BY <1>1 DEF IInv, Base, TypeOK
  <2>2. Next /\ LoopMoves
    BY <1>1, NextMoves DEF vars, IInv
  <2>3. ~Follows(loop, loop') /\ \A x \in Requests \cup {None} : ~Starting(x)
    BY <1>1, NewRunTypes DEF Follows, Starting
  <2>4. \A d \in Dispatchers : disp[d].pc = "deliver" => disp[d].r \in Requests
    BY <1>1 DEF IInv, Base, TypeOK, Dispatches, Idle
  <2>5. loop.st = "running" /\ loop' = [loop EXCEPT !.at = "work"]
    BY <2>2, <2>3, <2>4 DEF LoopMoves
  <2> QED
    BY <1>1, <2>1, <2>5 DEF LoopStates, IInv, FirstRun
<1>2. IInv /\ [Next]_vars => [\A r \in Requests \ late : FirstWork(r)]_vars
  BY <1>1 DEF FirstWork
<1> QED
  BY <1>2, Invariant, PTL DEF Spec, RunsOnce
=============================================================================

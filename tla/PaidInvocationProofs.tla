------------------------ MODULE PaidInvocationProofs ------------------------
(***************************************************************************)
(* A paid call is run at most once and charged for what it did, for any    *)
(* number of attempts, any terms, and any deadline, margin and skew with   *)
(* MaxSkew <= Margin; and what is not charged does not run, unless a stale *)
(* recheck gave a row back that another attempt had dispatched.            *)
(***************************************************************************)
EXTENDS PaidInvocation, TLAPS

USE DEF ledgerVars, providerVars, worldVars, attemptVars

-----------------------------------------------------------------------------
\* Types

\* The ways a step of an attempt ends keep its types.
LEMMA GotoTypes ==
    ASSUME AttemptTypes, NEW a \in Attempts, NEW step \in Steps, Goto(a, step)
    PROVE  AttemptTypes'
BY DEF AttemptTypes, Goto

LEMMA ProceedTypes ==
    ASSUME AttemptTypes, NEW a \in Attempts, NEW p \in Phases \cup {"none"}, Proceed(a, p)
    PROVE  AttemptTypes'
<1>1. 0 \in 0..MaxTerms /\ "deny" \in Policies /\ "advance" \in Steps
  BY ClockAssumption DEF Policies, Steps
<1>2. CASE p \in Dispatched \cup Terminal
  BY <1>1, <1>2 DEF AttemptTypes, Proceed
<1>3. CASE p \notin Dispatched \cup Terminal
  BY <1>1, <1>3 DEF AttemptTypes, Proceed
<1> QED
  BY <1>2, <1>3

LEMMA TellTypes ==
    ASSUME AttemptTypes, NEW a \in Attempts, NEW answer, Tell(a, answer)
    PROVE  AttemptTypes'
<1>1. 0 \in 0..MaxTerms /\ "deny" \in Policies /\ "idle" \in Steps
  BY ClockAssumption DEF Policies, Steps
<1> QED
  BY <1>1 DEF AttemptTypes, Tell

\* A transition keeps the row's types.
LEMMA MoveTypes ==
    ASSUME RowTypes, NEW ans, NEW from, NEW to \in Phases, Move(ans, from, to),
           outcome' \in Finished \cup {"none"}, undone' \in BOOLEAN
    PROVE  RowTypes'
BY DEF RowTypes, Move

\* What the recheck of a reserved row does to the row: nothing, or it gives it back, and
\* then it undoes a dispatch exactly if another attempt has dispatched it.
LEMMA RecheckForms ==
    ASSUME TypeOK, NEW c \in Attempts, RecheckReserved(c)
    PROVE  /\ UNCHANGED <<rowTerms, rowApproval, outcome, providerVars, worldVars>>
           /\ Goto(c, "dispatch") \/ Tell(c, "refused")
           /\ undone' \in BOOLEAN
           /\ \/ phase' = phase /\ undone' = undone
              \/ /\ phase \in {"reserved", "dispatching"}
                 /\ phase' = "released"
                 /\ undone => undone'
                 /\ phase = "dispatching" => undone'
                 /\ undone' => undone \/ phase = "dispatching"
<1>1. undone \in BOOLEAN
  BY DEF TypeOK, RowTypes
<1>2. CASE Permits(c) /\ Goto(c, "dispatch") /\ UNCHANGED <<phase, undone>>
  BY <1>1, <1>2 DEF RecheckReserved
<1>3. ASSUME NEW ans \in Answers, Move(ans, Releasable, "released"),
             undone' = (undone \/ (ans # "before" /\ phase = "dispatching")),
             Tell(c, "refused")
      PROVE  /\ Tell(c, "refused")
             /\ undone' \in BOOLEAN
             /\ \/ phase' = phase /\ undone' = undone
                \/ /\ phase \in {"reserved", "dispatching"}
                   /\ phase' = "released"
                   /\ undone => undone'
                   /\ phase = "dispatching" => undone'
                   /\ undone' => undone \/ phase = "dispatching"
  <2>1. undone' \in BOOLEAN
    BY <1>3, Zenon
  <2>2. CASE ans # "before" /\ phase \in Releasable
    <3>1. phase' = "released" /\ phase \in {"reserved", "dispatching"}
      BY <1>3, <2>2 DEF Move, Releasable
    <3>2. /\ undone => undone'
          /\ phase = "dispatching" => undone'
          /\ undone' => undone \/ phase = "dispatching"
      BY <1>3, <2>2, Zenon
    <3> QED
      BY <1>3, <2>1, <3>1, <3>2
  <2>3. CASE ~(ans # "before" /\ phase \in Releasable)
    <3>1. phase' = phase
      BY <1>3, <2>3 DEF Move
    <3>2. ~(ans # "before" /\ phase = "dispatching")
      BY <2>3 DEF Releasable
    <3>3. undone' = undone
      BY <1>1, <1>3, <3>2
    <3> QED
      BY <1>3, <2>1, <3>1, <3>3
  <2> QED
    BY <2>2, <2>3
<1> QED
  BY <1>2, <1>3 DEF RecheckReserved

\* What an attempt does keeps every type.
LEMMA CallTypes ==
    ASSUME TypeOK, NEW a \in Attempts, Call(a)
    PROVE  TypeOK'
<1>s. Steps = {"idle", "find", "offer", "accept", "refind", "advance", "consume",
          "confirm", "reserve", "dispatch", "calling", "waiting", "dispatch_refused",
          "hold", "record", "reload"}
  BY DEF Steps
<1>p. Phases = {"accepted", "reserved", "dispatching", "dispatched", "outcome_unknown",
          "refused", "released", "finalized"}
  BY DEF Phases, Dispatched, Terminal, Uncharged
<1>1. CASE Begin(a)
  <2>1. AttemptTypes'
    BY <1>1, <1>s, ClockAssumption DEF Begin, TypeOK, AttemptTypes, WorldTypes
  <2> QED
    BY <1>1, <2>1 DEF Begin, TypeOK, RowTypes, ProviderTypes, WorldTypes
<1>2. CASE Find(a)
  <2>1. AttemptTypes'
    BY <1>2, <1>s, <1>p, GotoTypes, ProceedTypes, TellTypes DEF Find, TypeOK, RowTypes
  <2> QED
    BY <1>2, <2>1 DEF Find, TypeOK, RowTypes, ProviderTypes, WorldTypes
<1>3. CASE Offer(a)
  <2>1. AttemptTypes'
    BY <1>3, <1>s, GotoTypes, TellTypes DEF Offer, TypeOK
  <2>2. approvals' \in [1..MaxTerms -> ApprovalStates]
    BY <1>3 DEF Offer, TypeOK, WorldTypes, ApprovalStates
  <2> QED
    BY <1>3, <2>1, <2>2 DEF Offer, TypeOK, RowTypes, ProviderTypes, WorldTypes
<1>4. ASSUME NEW ans \in Answers, Accept(a, ans)
      PROVE  TypeOK'
  <2>1. AttemptTypes'
    BY <1>4, <1>s, <1>p, GotoTypes, ProceedTypes, TellTypes DEF Accept, TypeOK
  <2>2. RowTypes'
    BY <1>4, <1>p, ClockAssumption DEF Accept, ApprovalOf, TypeOK, RowTypes,
         AttemptTypes
  <2> QED
    BY <1>4, <2>1, <2>2 DEF Accept, TypeOK, ProviderTypes, WorldTypes
<1>5. CASE RecheckAccepted(a)
  <2>1. AttemptTypes'
    BY <1>5, <1>s, GotoTypes, TellTypes DEF RecheckAccepted, TypeOK
  <2>2. RowTypes'
    BY <1>5, <1>p, MoveTypes DEF RecheckAccepted, TypeOK, RowTypes
  <2> QED
    BY <1>5, <2>1, <2>2 DEF RecheckAccepted, TypeOK, ProviderTypes, WorldTypes
<1>6. ASSUME NEW ans \in Answers, Consume(a, ans)
      PROVE  TypeOK'
  <2>1. AttemptTypes'
    BY <1>6, <1>s, GotoTypes, TellTypes DEF Consume, TypeOK
  <2>2. RowTypes'
    BY <1>6, <1>p, MoveTypes DEF Consume, TypeOK, RowTypes
  <2>3. approvals' \in [1..MaxTerms -> ApprovalStates]
    BY <1>6 DEF Consume, TypeOK, WorldTypes, ApprovalStates
  <2> QED
    BY <1>6, <2>1, <2>2, <2>3 DEF Consume, TypeOK, ProviderTypes, WorldTypes
<1>7. CASE Confirm(a)
  <2>1. AttemptTypes'
    BY <1>7, <1>s, GotoTypes, TellTypes DEF Confirm, TypeOK
  <2>2. RowTypes'
    BY <1>7, <1>p, MoveTypes DEF Confirm, TypeOK, RowTypes
  <2> QED
    BY <1>7, <2>1, <2>2 DEF Confirm, TypeOK, ProviderTypes, WorldTypes
<1>8. ASSUME NEW ans \in Answers, Reserve(a, ans)
      PROVE  TypeOK'
  <2>1. AttemptTypes'
    BY <1>8, <1>s, <1>p, GotoTypes, ProceedTypes DEF Reserve, TypeOK
  <2>2. RowTypes'
    BY <1>8, <1>p, MoveTypes DEF Reserve, TypeOK, RowTypes
  <2> QED
    BY <1>8, <2>1, <2>2 DEF Reserve, TypeOK, ProviderTypes, WorldTypes
<1>9. CASE PaymentUnknown(a)
  BY <1>9, TellTypes DEF PaymentUnknown, TypeOK, RowTypes, ProviderTypes, WorldTypes
<1>10. CASE RecheckReserved(a)
  <2>1. AttemptTypes'
    BY <1>10, <1>s, GotoTypes, TellTypes DEF RecheckReserved, TypeOK
  <2>2. RowTypes'
    BY <1>10, <1>p, RecheckForms DEF TypeOK, RowTypes
  <2> QED
    BY <1>10, <2>1, <2>2 DEF RecheckReserved, TypeOK, ProviderTypes, WorldTypes
<1>11. ASSUME NEW ans \in Answers, Dispatch(a, ans)
       PROVE  TypeOK'
  <2>1. AttemptTypes'
    BY <1>11, <1>s, <1>p, GotoTypes, ProceedTypes DEF Dispatch, TypeOK
  <2>2. RowTypes'
    BY <1>11, <1>p, MoveTypes DEF Dispatch, TypeOK, RowTypes
  <2> QED
    BY <1>11, <2>1, <2>2 DEF Dispatch, TypeOK, ProviderTypes, WorldTypes
<1>12. CASE Reload(a)
  <2>1. AttemptTypes'
    BY <1>12, ProceedTypes, TellTypes DEF Reload, TypeOK, RowTypes
  <2> QED
    BY <1>12, <2>1 DEF Reload, TypeOK, RowTypes, ProviderTypes, WorldTypes
<1>13. CASE Arrive(a)
  <2>1. AttemptTypes'
    <3>1. CASE effect \in Finished
      BY <1>13, <3>1, <1>s, <1>p DEF Arrive, TypeOK, AttemptTypes, Finished
    <3>2. CASE effect \notin Finished
      <4>1. \/ Goto(a, "waiting")
            \/ Goto(a, "dispatch_refused")
            \/ Proceed(a, "dispatching")
        BY <1>13, <3>2 DEF Arrive
      <4> QED
        BY <4>1, <1>s, <1>p, GotoTypes, ProceedTypes DEF TypeOK
    <3> QED
      BY <3>1, <3>2
  <2>2. handler' \in BOOLEAN
    BY <1>13, Zenon DEF Arrive, TypeOK, ProviderTypes
  <2>3. effect' \in Finished \cup {"none", "in_progress"} /\ runs' \in Nat
    BY <1>13 DEF Arrive, TypeOK, ProviderTypes
  <2> QED
    BY <1>13, <2>1, <2>2, <2>3, Zenon DEF Arrive, TypeOK, RowTypes, ProviderTypes,
         WorldTypes
<1>14. CASE Return(a)
  <2>1. AttemptTypes'
    BY <1>14, <1>s, <1>p DEF Return, TypeOK, AttemptTypes
  <2> QED
    BY <1>14, <2>1 DEF Return, TypeOK, RowTypes, ProviderTypes, WorldTypes
<1>15. CASE TimesOut(a)
  <2>1. AttemptTypes'
    BY <1>15, <1>p, ProceedTypes DEF TimesOut, TypeOK
  <2> QED
    BY <1>15, <2>1 DEF TimesOut, TypeOK, RowTypes, ProviderTypes, WorldTypes
<1>16. CASE DispatchRefused(a)
  <2>1. AttemptTypes'
    BY <1>16, <1>s, <1>p DEF DispatchRefused, TypeOK, AttemptTypes
  <2>2. RowTypes'
    BY <1>16, <1>p, MoveTypes DEF DispatchRefused, TypeOK, RowTypes
  <2> QED
    BY <1>16, <2>1, <2>2 DEF DispatchRefused, TypeOK, ProviderTypes, WorldTypes
<1>17. CASE Lookup(a)
  <2>1. AttemptTypes'
    <3>1. CASE Goto(a, IF result[a] = "none" THEN "hold" ELSE "record")
      BY <3>1, <1>s, GotoTypes DEF TypeOK
    <3>2. CASE Goto(a, "reload")
      BY <3>2, <1>s, GotoTypes DEF TypeOK
    <3>3. CASE /\ effect \in Finished
               /\ result' = [result EXCEPT ![a] = effect]
               /\ pc' = [pc EXCEPT ![a] = "record"]
               /\ UNCHANGED <<phase, held, policy, binding, told>>
      BY <3>3, <1>s DEF TypeOK, AttemptTypes
    <3>4. CASE /\ held' \in {held, [held EXCEPT ![a] = "dispatched"]}
               /\ pc' = [pc EXCEPT ![a] = "hold"]
               /\ UNCHANGED <<policy, binding, result, told>>
      BY <3>4, <1>s, <1>p DEF TypeOK, AttemptTypes
    <3> QED
      BY <1>17, <3>1, <3>2, <3>3, <3>4 DEF Lookup
  <2>2. RowTypes'
    BY <1>17, <1>p, MoveTypes DEF Lookup, TypeOK, RowTypes
  <2> QED
    BY <1>17, <2>1, <2>2 DEF Lookup, TypeOK, ProviderTypes, WorldTypes
<1>18. CASE Hold(a)
  <2>1. AttemptTypes'
    BY <1>18, TellTypes DEF Hold, TypeOK
  <2>2. RowTypes'
    BY <1>18, <1>p, MoveTypes DEF Hold, TypeOK, RowTypes
  <2> QED
    BY <1>18, <2>1, <2>2 DEF Hold, TypeOK, ProviderTypes, WorldTypes
<1>19. ASSUME NEW ans \in Answers, Record(a, ans)
       PROVE  TypeOK'
  <2>1. CASE held[a] = "dispatching"
    <3>1. AttemptTypes'
      BY <1>19, <2>1, <1>s, <1>p, GotoTypes DEF Record, TypeOK, AttemptTypes
    <3>2. RowTypes'
      BY <1>19, <2>1, <1>p, MoveTypes DEF Record, TypeOK, RowTypes
    <3> QED
      BY <1>19, <3>1, <3>2 DEF Record, TypeOK, ProviderTypes, WorldTypes
  <2>2. CASE held[a] # "dispatching"
    <3>1. AttemptTypes'
      BY <1>19, <2>2, <1>s, <1>p, GotoTypes, ProceedTypes DEF Record, TypeOK
    <3>2. outcome' \in Finished \cup {"none"}
      BY <1>19, <2>2 DEF Record, TypeOK, RowTypes, AttemptTypes
    <3>3. RowTypes'
      <4>1. Move(ans, {"dispatched", "outcome_unknown"}, "finalized") /\ undone' = undone
        BY <1>19, <2>2 DEF Record
      <4>2. undone \in BOOLEAN
        BY DEF TypeOK, RowTypes
      <4>3. undone' \in BOOLEAN
        BY <4>1, <4>2, Zenon
      <4> QED
        BY <3>2, <4>1, <4>3, <1>p, MoveTypes DEF TypeOK
    <3> QED
      BY <1>19, <3>1, <3>3 DEF Record, TypeOK, ProviderTypes, WorldTypes
  <2> QED
    BY <2>1, <2>2
<1>20. CASE Settle(a)
  <2>1. AttemptTypes'
    BY <1>20, TellTypes DEF Settle, TypeOK
  <2> QED
    BY <1>20, <2>1 DEF Settle, TypeOK, RowTypes, ProviderTypes, WorldTypes
<1>21. CASE Crash(a)
  <2>1. AttemptTypes'
    BY <1>21, TellTypes DEF Crash, TypeOK
  <2> QED
    BY <1>21, <2>1 DEF Crash, TypeOK, RowTypes, ProviderTypes, WorldTypes
<1> QED
  BY <1>1, <1>2, <1>3, <1>4, <1>5, <1>6, <1>7, <1>8, <1>9, <1>10, <1>11, <1>12, <1>13,
     <1>14, <1>15, <1>16, <1>17, <1>18, <1>19, <1>20, <1>21 DEF Call

\* What mctl-api, people, the provider and time do keeps every type.
LEMMA TypeStep ==
    ASSUME TypeOK, [Next]_vars
    PROVE  TypeOK'
<1>1. CASE UNCHANGED vars
  BY <1>1 DEF vars, TypeOK, RowTypes, ProviderTypes, WorldTypes, AttemptTypes
<1>2. CASE \E a \in Attempts : Call(a)
  BY <1>2, CallTypes
<1>3. CASE Complete
  BY <1>3 DEF Complete, TypeOK, RowTypes, ProviderTypes, WorldTypes, AttemptTypes
<1>4. CASE Reprice
  BY <1>4, ClockAssumption DEF Reprice, TypeOK, RowTypes, ProviderTypes, WorldTypes,
       AttemptTypes
<1>5. CASE ReconcileRow
  BY <1>5 DEF ReconcileRow, TypeOK, RowTypes, ProviderTypes, WorldTypes, AttemptTypes,
       Phases, Terminal, Uncharged
<1>6. CASE Tick
  BY <1>6, ClockAssumption DEF Tick, TypeOK, RowTypes, ProviderTypes, WorldTypes,
       AttemptTypes
<1>7. CASE \E v \in 1..MaxTerms : Decide(v)
  <2>1. approvals' \in [1..MaxTerms -> ApprovalStates]
    BY <1>7 DEF Decide, TypeOK, WorldTypes, ApprovalStates
  <2> QED
    BY <1>7, <2>1 DEF Decide, TypeOK, RowTypes, ProviderTypes, WorldTypes, AttemptTypes
<1> QED
  BY <1>1, <1>2, <1>3, <1>4, <1>5, <1>6, <1>7 DEF Next, World

\* The call starts well typed.
LEMMA InitTypes ==
    ASSUME Init
    PROVE  TypeOK
<1>1. RowTypes
  <2>1. undone \in BOOLEAN
    BY Zenon DEF Init
  <2> QED
    BY <2>1, ClockAssumption DEF Init, RowTypes
<1>p. ProviderTypes
  <2>1. handler \in BOOLEAN
    BY Zenon DEF Init
  <2> QED
    BY <2>1 DEF Init, ProviderTypes
<1>2. WorldTypes
  BY ClockAssumption DEF Init, WorldTypes, ApprovalStates
<1>3. AttemptTypes
  BY ClockAssumption DEF Init, AttemptTypes, Policies, Steps
<1> QED
  BY <1>1, <1>p, <1>2, <1>3 DEF TypeOK

(* Every variable keeps its type (state of PaidInvocation).                *)
THEOREM TypeCorrect == Spec => []TypeOK
BY InitTypes, TypeStep, PTL DEF Spec
-----------------------------------------------------------------------------
\* The inductive invariant

\* An attempt that holds a signed authorization no one else was given.
Authorised(a) == pc[a] \in {"calling", "dispatch_refused"}

(* One attempt at a time may reach the provider, and only before the       *)
(* provider knows the key; if the row was given back meanwhile, its        *)
(* authorization is past every clock's deadline, or a stale recheck did it.*)
CallerIsAlone ==
    /\ \A a, b \in Attempts : Authorised(a) /\ Authorised(b) => a = b
    /\ \A a \in Attempts :
          Authorised(a) => effect = "none" /\ phase \in {"dispatching", "released"}
    /\ \A a \in Attempts :
          pc[a] = "calling" /\ phase = "released" => now > Lifetime + Margin \/ undone

(* The row says no more of the provider than the provider's record does.   *)
RowFollowsEffect ==
    /\ runs = IF effect = "none" THEN 0 ELSE 1
    /\ effect = "none" => phase \notin {"dispatched", "outcome_unknown", "finalized"}
    /\ phase \in Uncharged \cup {"none", "accepted", "reserved"} => effect = "none" \/ undone
    /\ undone => phase = "released"
    /\ phase = "finalized" => outcome = effect /\ effect \in Finished

(* What an attempt holds is what the provider recorded, and a terminal     *)
(* phase it read is still the row's.                                       *)
HeldIsTrue ==
    \A a \in Attempts :
        /\ result[a] # "none" => result[a] = effect
        /\ pc[a] = "record" => result[a] # "none"
        /\ held[a] \in Terminal => phase = held[a]
        /\ held[a] # "none" => phase # "none"
        /\ pc[a] \in {"consume", "confirm", "reserve", "waiting"} => phase # "none"

(* Funds are asked for only with the approval of the row's terms spent.    *)
ApprovalFirst ==
    /\ rowApproval # 0 => rowTerms = rowApproval
    /\ \A a \in Attempts :
          pc[a] = "reserve" /\ rowApproval # 0 => approvals[rowApproval] = "consumed"

Safe == CallerIsAlone /\ RowFollowsEffect /\ HeldIsTrue /\ ApprovalFirst

\* Every step keeps the caller alone: it is let through by the dispatch of the row only, and
\* it is given back only past the deadline or by a stale recheck (`dispatch`, `release`).
LEMMA CallerStep ==
    ASSUME TypeOK, CallerIsAlone, RowFollowsEffect, HeldIsTrue,
           [Next]_vars
    PROVE  CallerIsAlone'
<1> USE ClockAssumption
<1>1. ASSUME NEW c \in Attempts, Begin(c)
      PROVE  CallerIsAlone'
  BY <1>1 DEF Begin, TypeOK, RowTypes, ProviderTypes, CallerIsAlone, Authorised
<1>2. ASSUME NEW c \in Attempts, Find(c)
      PROVE  CallerIsAlone'
  BY <1>2 DEF Find, TypeOK, RowTypes, ProviderTypes, AttemptTypes, CallerIsAlone,
       Authorised, Goto, Proceed, Tell
<1>3. ASSUME NEW c \in Attempts, Offer(c)
      PROVE  CallerIsAlone'
  BY <1>3 DEF Offer, TypeOK, RowTypes, ProviderTypes, AttemptTypes, CallerIsAlone,
       Authorised, Goto, Tell
<1>4. ASSUME NEW c \in Attempts, NEW ans \in Answers, Accept(c, ans)
      PROVE  CallerIsAlone'
  BY <1>4 DEF Accept, TypeOK, RowTypes, ProviderTypes, AttemptTypes, CallerIsAlone,
       Authorised, Goto, Proceed, Tell
<1>5. ASSUME NEW c \in Attempts, RecheckAccepted(c)
      PROVE  CallerIsAlone'
  BY <1>5 DEF RecheckAccepted, TypeOK, RowTypes, ProviderTypes, AttemptTypes,
       CallerIsAlone, Authorised, Goto, Tell, Permits, Move
<1>6. ASSUME NEW c \in Attempts, NEW ans \in Answers, Consume(c, ans)
      PROVE  CallerIsAlone'
  BY <1>6 DEF Consume, TypeOK, RowTypes, ProviderTypes, AttemptTypes, CallerIsAlone,
       Authorised, Goto, Tell, NamesThisCall, Move
<1>7. ASSUME NEW c \in Attempts, Confirm(c)
      PROVE  CallerIsAlone'
  BY <1>7 DEF Confirm, TypeOK, RowTypes, ProviderTypes, AttemptTypes, CallerIsAlone,
       Authorised, Goto, Tell, NamesThisCall, Move
<1>8. ASSUME NEW c \in Attempts, NEW ans \in Answers, Reserve(c, ans)
      PROVE  CallerIsAlone'
  BY <1>8 DEF Reserve, TypeOK, RowTypes, ProviderTypes, AttemptTypes, CallerIsAlone,
       Authorised, Goto, Proceed, Move
<1>9. ASSUME NEW c \in Attempts, PaymentUnknown(c)
      PROVE  CallerIsAlone'
  BY <1>9 DEF PaymentUnknown, TypeOK, RowTypes, ProviderTypes, CallerIsAlone,
       Authorised, Tell
<1>10. ASSUME NEW c \in Attempts, RecheckReserved(c)
      PROVE  CallerIsAlone'
  <2>1. \A a \in Attempts : Authorised(a)' => Authorised(a) /\ pc'[a] = pc[a]
    BY <1>10, RecheckForms DEF TypeOK, AttemptTypes, Authorised, Goto, Tell
  <2> QED
    BY <1>10, <2>1, RecheckForms DEF CallerIsAlone, Authorised
<1>11. ASSUME NEW c \in Attempts, NEW ans \in Answers, Dispatch(c, ans)
      PROVE  CallerIsAlone'
  BY <1>11 DEF Dispatch, TypeOK, RowTypes, ProviderTypes, AttemptTypes, CallerIsAlone,
       Authorised, RowFollowsEffect, Goto, Proceed, Moved, Move
<1>12. ASSUME NEW c \in Attempts, Reload(c)
      PROVE  CallerIsAlone'
  BY <1>12 DEF Reload, TypeOK, RowTypes, ProviderTypes, AttemptTypes, CallerIsAlone,
       Authorised, Proceed, Tell
<1>13. ASSUME NEW c \in Attempts, Arrive(c)
      PROVE  CallerIsAlone'
  BY <1>13 DEF Arrive, TypeOK, RowTypes, ProviderTypes, AttemptTypes, CallerIsAlone,
       Authorised, Goto, MayStillAccept
<1>14. ASSUME NEW c \in Attempts, Return(c)
      PROVE  CallerIsAlone'
  BY <1>14 DEF Return, TypeOK, RowTypes, ProviderTypes, CallerIsAlone, Authorised
<1>15. ASSUME NEW c \in Attempts, TimesOut(c)
      PROVE  CallerIsAlone'
  BY <1>15 DEF TimesOut, TypeOK, RowTypes, ProviderTypes, CallerIsAlone, Authorised,
       Proceed
<1>16. ASSUME NEW c \in Attempts, DispatchRefused(c)
      PROVE  CallerIsAlone'
  BY <1>16 DEF DispatchRefused, TypeOK, RowTypes, ProviderTypes, CallerIsAlone,
       Authorised, Releasable, Move
<1>17. ASSUME NEW c \in Attempts, Lookup(c)
      PROVE  CallerIsAlone'
  BY <1>17 DEF Lookup, TypeOK, RowTypes, ProviderTypes, AttemptTypes, CallerIsAlone,
       Authorised, Goto, Moved, Absent, Releasable, Move
<1>18. ASSUME NEW c \in Attempts, Hold(c)
      PROVE  CallerIsAlone'
  BY <1>18 DEF Hold, TypeOK, RowTypes, ProviderTypes, CallerIsAlone, Authorised, Tell,
       Move
<1>19. ASSUME NEW c \in Attempts, NEW ans \in Answers, Record(c, ans)
      PROVE  CallerIsAlone'
  BY <1>19 DEF Record, TypeOK, RowTypes, ProviderTypes, AttemptTypes, CallerIsAlone,
       Authorised, HeldIsTrue, Goto, Proceed, Moved
<1>20. ASSUME NEW c \in Attempts, Settle(c)
      PROVE  CallerIsAlone'
  BY <1>20 DEF Settle, TypeOK, RowTypes, ProviderTypes, CallerIsAlone, Authorised, Tell
<1>21. ASSUME NEW c \in Attempts, Crash(c)
      PROVE  CallerIsAlone'
  BY <1>21 DEF Crash, TypeOK, RowTypes, ProviderTypes, CallerIsAlone, Authorised, Tell
<1>22. CASE Complete
  BY <1>22 DEF Complete, TypeOK, RowTypes, ProviderTypes, CallerIsAlone, Authorised,
       WorldTypes
<1>23. CASE Reprice
  BY <1>23 DEF Reprice, TypeOK, RowTypes, ProviderTypes, CallerIsAlone, Authorised,
       WorldTypes
<1>24. CASE ReconcileRow
  BY <1>24 DEF ReconcileRow, TypeOK, RowTypes, ProviderTypes, CallerIsAlone, Authorised,
       WorldTypes
<1>25. CASE Tick
  BY <1>25 DEF Tick, TypeOK, RowTypes, ProviderTypes, CallerIsAlone, Authorised,
       WorldTypes
<1>26. ASSUME NEW v \in 1..MaxTerms, Decide(v)
      PROVE  CallerIsAlone'
  BY <1>26 DEF Decide, TypeOK, RowTypes, ProviderTypes, CallerIsAlone, Authorised,
       WorldTypes
<1>27. CASE UNCHANGED vars
  BY <1>27 DEF vars, CallerIsAlone, Authorised
<1> QED
  BY <1>1, <1>2, <1>3, <1>4, <1>5, <1>6, <1>7, <1>8, <1>9, <1>10, <1>11, <1>12, <1>13,
       <1>14, <1>15, <1>16, <1>17, <1>18, <1>19, <1>20, <1>21, <1>22, <1>23, <1>24,
       <1>25, <1>26, <1>27 DEF Next, Call, World

\* Every step keeps the row within what the provider recorded.
LEMMA RowStep ==
    ASSUME TypeOK, RowFollowsEffect, CallerIsAlone, HeldIsTrue,
           [Next]_vars
    PROVE  RowFollowsEffect'
<1> USE ClockAssumption
<1>1. ASSUME NEW c \in Attempts, Begin(c)
      PROVE  RowFollowsEffect'
  BY <1>1 DEF Begin, RowFollowsEffect
<1>2. ASSUME NEW c \in Attempts, Find(c)
      PROVE  RowFollowsEffect'
  BY <1>2 DEF Find, RowFollowsEffect
<1>3. ASSUME NEW c \in Attempts, Offer(c)
      PROVE  RowFollowsEffect'
  BY <1>3 DEF Offer, RowFollowsEffect
<1>4. ASSUME NEW c \in Attempts, NEW ans \in Answers, Accept(c, ans)
      PROVE  RowFollowsEffect'
  BY <1>4 DEF Accept, RowFollowsEffect
<1>5. ASSUME NEW c \in Attempts, RecheckAccepted(c)
      PROVE  RowFollowsEffect'
  BY <1>5 DEF RecheckAccepted, RowFollowsEffect, Permits, Move
<1>6. ASSUME NEW c \in Attempts, NEW ans \in Answers, Consume(c, ans)
      PROVE  RowFollowsEffect'
  BY <1>6 DEF Consume, RowFollowsEffect, NamesThisCall, Move
<1>7. ASSUME NEW c \in Attempts, Confirm(c)
      PROVE  RowFollowsEffect'
  BY <1>7 DEF Confirm, RowFollowsEffect, NamesThisCall, Move
<1>8. ASSUME NEW c \in Attempts, NEW ans \in Answers, Reserve(c, ans)
      PROVE  RowFollowsEffect'
  BY <1>8 DEF Reserve, RowFollowsEffect, Move
<1>9. ASSUME NEW c \in Attempts, PaymentUnknown(c)
      PROVE  RowFollowsEffect'
  BY <1>9 DEF PaymentUnknown, RowFollowsEffect
<1>10. ASSUME NEW c \in Attempts, RecheckReserved(c)
      PROVE  RowFollowsEffect'
  BY <1>10, RecheckForms DEF RowFollowsEffect, Uncharged
<1>11. ASSUME NEW c \in Attempts, NEW ans \in Answers, Dispatch(c, ans)
      PROVE  RowFollowsEffect'
  BY <1>11 DEF Dispatch, RowFollowsEffect, Moved, Move
<1>12. ASSUME NEW c \in Attempts, Reload(c)
      PROVE  RowFollowsEffect'
  BY <1>12 DEF Reload, RowFollowsEffect
<1>13. ASSUME NEW c \in Attempts, Arrive(c)
      PROVE  RowFollowsEffect'
  <2>1. MayStillAccept => phase # "released" \/ undone
    BY <1>13 DEF Arrive, MayStillAccept, CallerIsAlone, TypeOK, WorldTypes
  <2> QED
    BY <1>13, <2>1 DEF Arrive, TypeOK, ProviderTypes, RowFollowsEffect, CallerIsAlone,
         Authorised, Uncharged
<1>14. ASSUME NEW c \in Attempts, Return(c)
      PROVE  RowFollowsEffect'
  BY <1>14 DEF Return, RowFollowsEffect
<1>15. ASSUME NEW c \in Attempts, TimesOut(c)
      PROVE  RowFollowsEffect'
  BY <1>15 DEF TimesOut, RowFollowsEffect
<1>16. ASSUME NEW c \in Attempts, DispatchRefused(c)
      PROVE  RowFollowsEffect'
  BY <1>16 DEF DispatchRefused, TypeOK, RowTypes, ProviderTypes, RowFollowsEffect,
       CallerIsAlone, Authorised, Releasable, Move
<1>17. ASSUME NEW c \in Attempts, Lookup(c)
      PROVE  RowFollowsEffect'
  BY <1>17 DEF Lookup, RowFollowsEffect, Uncharged, Moved, Absent, Releasable, Move
<1>18. ASSUME NEW c \in Attempts, Hold(c)
      PROVE  RowFollowsEffect'
  BY <1>18 DEF Hold, RowFollowsEffect, Uncharged, Move
<1>19. ASSUME NEW c \in Attempts, NEW ans \in Answers, Record(c, ans)
      PROVE  RowFollowsEffect'
  BY <1>19 DEF Record, TypeOK, AttemptTypes, RowFollowsEffect, HeldIsTrue, Uncharged,
       Moved, Move
<1>20. ASSUME NEW c \in Attempts, Settle(c)
      PROVE  RowFollowsEffect'
  BY <1>20 DEF Settle, RowFollowsEffect
<1>21. ASSUME NEW c \in Attempts, Crash(c)
      PROVE  RowFollowsEffect'
  BY <1>21 DEF Crash, RowFollowsEffect
<1>22. CASE Complete
  BY <1>22 DEF Complete, RowFollowsEffect, Finished, WorldTypes
<1>23. CASE Reprice
  BY <1>23 DEF Reprice, RowFollowsEffect, WorldTypes
<1>24. CASE ReconcileRow
  BY <1>24 DEF ReconcileRow, RowFollowsEffect, Uncharged, WorldTypes
<1>25. CASE Tick
  BY <1>25 DEF Tick, RowFollowsEffect, WorldTypes
<1>26. ASSUME NEW v \in 1..MaxTerms, Decide(v)
      PROVE  RowFollowsEffect'
  BY <1>26 DEF Decide, RowFollowsEffect, WorldTypes
<1>27. CASE UNCHANGED vars
  BY <1>27 DEF vars, RowFollowsEffect
<1> QED
  BY <1>1, <1>2, <1>3, <1>4, <1>5, <1>6, <1>7, <1>8, <1>9, <1>10, <1>11, <1>12, <1>13,
       <1>14, <1>15, <1>16, <1>17, <1>18, <1>19, <1>20, <1>21, <1>22, <1>23, <1>24,
       <1>25, <1>26, <1>27 DEF Next, Call, World

\* Every step keeps what the attempts hold: terminal phases do not change.
LEMMA HeldStep ==
    ASSUME TypeOK, HeldIsTrue, CallerIsAlone, RowFollowsEffect,
           [Next]_vars
    PROVE  HeldIsTrue'
<1> USE ClockAssumption
<1>1. ASSUME NEW c \in Attempts, Begin(c)
      PROVE  HeldIsTrue'
  BY <1>1 DEF Begin, HeldIsTrue
<1>2. ASSUME NEW c \in Attempts, Find(c)
      PROVE  HeldIsTrue'
  BY <1>2 DEF Find, TypeOK, AttemptTypes, HeldIsTrue, Uncharged, Terminal, Goto,
       Proceed, Tell
<1>3. ASSUME NEW c \in Attempts, Offer(c)
      PROVE  HeldIsTrue'
  BY <1>3 DEF Offer, TypeOK, AttemptTypes, HeldIsTrue, Uncharged, Terminal, Goto, Tell
<1>4. ASSUME NEW c \in Attempts, NEW ans \in Answers, Accept(c, ans)
      PROVE  HeldIsTrue'
  BY <1>4 DEF Accept, TypeOK, AttemptTypes, HeldIsTrue, Uncharged, Terminal, Goto,
       Proceed, Tell
<1>5. ASSUME NEW c \in Attempts, RecheckAccepted(c)
      PROVE  HeldIsTrue'
  BY <1>5 DEF RecheckAccepted, TypeOK, AttemptTypes, HeldIsTrue, Uncharged, Terminal,
       Goto, Tell, Permits, Move
<1>6. ASSUME NEW c \in Attempts, NEW ans \in Answers, Consume(c, ans)
      PROVE  HeldIsTrue'
  BY <1>6 DEF Consume, TypeOK, AttemptTypes, HeldIsTrue, Uncharged, Terminal, Goto,
       Tell, NamesThisCall, Move
<1>7. ASSUME NEW c \in Attempts, Confirm(c)
      PROVE  HeldIsTrue'
  BY <1>7 DEF Confirm, TypeOK, AttemptTypes, HeldIsTrue, Uncharged, Terminal, Goto,
       Tell, NamesThisCall, Move
<1>8. ASSUME NEW c \in Attempts, NEW ans \in Answers, Reserve(c, ans)
      PROVE  HeldIsTrue'
  BY <1>8 DEF Reserve, TypeOK, AttemptTypes, HeldIsTrue, Uncharged, Terminal, Goto,
       Proceed, Move
<1>9. ASSUME NEW c \in Attempts, PaymentUnknown(c)
      PROVE  HeldIsTrue'
  BY <1>9 DEF PaymentUnknown, HeldIsTrue, Uncharged, Terminal, Tell
<1>10. ASSUME NEW c \in Attempts, RecheckReserved(c)
      PROVE  HeldIsTrue'
  BY <1>10 DEF RecheckReserved, TypeOK, AttemptTypes, HeldIsTrue, Uncharged, Terminal,
       Goto, Tell, Permits, Releasable, Move
<1>11. ASSUME NEW c \in Attempts, NEW ans \in Answers, Dispatch(c, ans)
      PROVE  HeldIsTrue'
  BY <1>11 DEF Dispatch, TypeOK, AttemptTypes, HeldIsTrue, Uncharged, Terminal, Goto,
       Proceed, Moved, Move
<1>12. ASSUME NEW c \in Attempts, Reload(c)
      PROVE  HeldIsTrue'
  BY <1>12 DEF Reload, TypeOK, AttemptTypes, HeldIsTrue, Uncharged, Terminal, Proceed,
       Tell
<1>13. ASSUME NEW c \in Attempts, Arrive(c)
      PROVE  HeldIsTrue'
  BY <1>13 DEF Arrive, TypeOK, RowTypes, ProviderTypes, AttemptTypes, HeldIsTrue,
       CallerIsAlone, Authorised, Finished, Goto, MayStillAccept
<1>14. ASSUME NEW c \in Attempts, Return(c)
      PROVE  HeldIsTrue'
  BY <1>14 DEF Return, TypeOK, AttemptTypes, HeldIsTrue, Finished, Uncharged, Terminal
<1>15. ASSUME NEW c \in Attempts, TimesOut(c)
      PROVE  HeldIsTrue'
  BY <1>15 DEF TimesOut, TypeOK, RowTypes, ProviderTypes, HeldIsTrue, CallerIsAlone,
       Authorised, Uncharged, Terminal, Proceed
<1>16. ASSUME NEW c \in Attempts, DispatchRefused(c)
      PROVE  HeldIsTrue'
  BY <1>16 DEF DispatchRefused, TypeOK, RowTypes, ProviderTypes, HeldIsTrue,
       CallerIsAlone, Authorised, Uncharged, Terminal, Releasable, Move
<1>17. ASSUME NEW c \in Attempts, Lookup(c)
      PROVE  HeldIsTrue'
  BY <1>17 DEF Lookup, TypeOK, AttemptTypes, HeldIsTrue, Finished, Uncharged, Terminal,
       Goto, Moved, Absent, Releasable, Move
<1>18. ASSUME NEW c \in Attempts, Hold(c)
      PROVE  HeldIsTrue'
  BY <1>18 DEF Hold, HeldIsTrue, Uncharged, Terminal, Tell, Move
<1>19. ASSUME NEW c \in Attempts, NEW ans \in Answers, Record(c, ans)
      PROVE  HeldIsTrue'
  BY <1>19 DEF Record, TypeOK, AttemptTypes, HeldIsTrue, Uncharged, Terminal, Goto,
       Proceed, Moved, Move
<1>20. ASSUME NEW c \in Attempts, Settle(c)
      PROVE  HeldIsTrue'
  BY <1>20 DEF Settle, HeldIsTrue, Uncharged, Terminal, Tell
<1>21. ASSUME NEW c \in Attempts, Crash(c)
      PROVE  HeldIsTrue'
  BY <1>21 DEF Crash, TypeOK, AttemptTypes, HeldIsTrue, Uncharged, Terminal, Tell
<1>22. CASE Complete
  BY <1>22 DEF Complete, TypeOK, AttemptTypes, HeldIsTrue, Finished, WorldTypes
<1>23. CASE Reprice
  BY <1>23 DEF Reprice, HeldIsTrue, WorldTypes
<1>24. CASE ReconcileRow
  BY <1>24 DEF ReconcileRow, HeldIsTrue, Uncharged, Terminal, WorldTypes
<1>25. CASE Tick
  BY <1>25 DEF Tick, HeldIsTrue, WorldTypes
<1>26. ASSUME NEW v \in 1..MaxTerms, Decide(v)
      PROVE  HeldIsTrue'
  BY <1>26 DEF Decide, HeldIsTrue, WorldTypes
<1>27. CASE UNCHANGED vars
  BY <1>27 DEF vars, HeldIsTrue
<1> QED
  BY <1>1, <1>2, <1>3, <1>4, <1>5, <1>6, <1>7, <1>8, <1>9, <1>10, <1>11, <1>12, <1>13,
       <1>14, <1>15, <1>16, <1>17, <1>18, <1>19, <1>20, <1>21, <1>22, <1>23, <1>24,
       <1>25, <1>26, <1>27 DEF Next, Call, World

\* Every step keeps approvals ahead of funds: a consumed approval stays consumed, and a row
\* takes its terms once.
LEMMA ApprovalStep ==
    ASSUME TypeOK, ApprovalFirst, HeldIsTrue, [Next]_vars
    PROVE  ApprovalFirst'
<1> USE ClockAssumption
<1>1. ASSUME NEW c \in Attempts, Begin(c)
      PROVE  ApprovalFirst'
  BY <1>1 DEF Begin, ApprovalFirst
<1>2. ASSUME NEW c \in Attempts, Find(c)
      PROVE  ApprovalFirst'
  BY <1>2 DEF Find, TypeOK, AttemptTypes, ApprovalFirst, Goto, Proceed, Tell
<1>3. ASSUME NEW c \in Attempts, Offer(c)
      PROVE  ApprovalFirst'
  <2>1. \A w \in 1..MaxTerms : approvals[w] = "consumed" => approvals'[w] = "consumed"
    BY <1>3 DEF Offer, TypeOK, WorldTypes
  <2> QED
    BY <1>3, <2>1 DEF Offer, TypeOK, RowTypes, AttemptTypes, ApprovalFirst, Goto, Tell
<1>4. ASSUME NEW c \in Attempts, NEW ans \in Answers, Accept(c, ans)
      PROVE  ApprovalFirst'
  BY <1>4 DEF Accept, TypeOK, AttemptTypes, ApprovalFirst, HeldIsTrue, Goto, Proceed,
       Tell, ApprovalOf
<1>5. ASSUME NEW c \in Attempts, RecheckAccepted(c)
      PROVE  ApprovalFirst'
  BY <1>5 DEF RecheckAccepted, TypeOK, AttemptTypes, ApprovalFirst, Goto, Tell, Permits
<1>6. ASSUME NEW c \in Attempts, NEW ans \in Answers, Consume(c, ans)
      PROVE  ApprovalFirst'
  <2>1. \A w \in 1..MaxTerms : approvals[w] = "consumed" => approvals'[w] = "consumed"
    BY <1>6 DEF Consume, WorldTypes, NamesThisCall
  <2>2. NamesThisCall(c) /\ approvals[rowApproval] = "approved" /\ ans = "ok"
           => (rowApproval # 0 => approvals'[rowApproval] = "consumed")
    BY <1>6 DEF Consume, TypeOK, RowTypes, WorldTypes
  <2>3. pc'[c] = "reserve" => (rowApproval # 0 => approvals'[rowApproval] = "consumed")
    BY <1>6, <2>2 DEF Consume, TypeOK, AttemptTypes, Goto, Tell
  <2>4. \A b \in Attempts \ {c} : pc'[b] = pc[b]
    BY <1>6 DEF Consume, TypeOK, AttemptTypes, Goto, Tell
  <2> QED
    BY <1>6, <2>1, <2>3, <2>4 DEF Consume, ApprovalFirst
<1>7. ASSUME NEW c \in Attempts, Confirm(c)
      PROVE  ApprovalFirst'
  BY <1>7 DEF Confirm, TypeOK, AttemptTypes, ApprovalFirst, Tell, NamesThisCall
<1>8. ASSUME NEW c \in Attempts, NEW ans \in Answers, Reserve(c, ans)
      PROVE  ApprovalFirst'
  BY <1>8 DEF Reserve, ApprovalFirst, Move
<1>9. ASSUME NEW c \in Attempts, PaymentUnknown(c)
      PROVE  ApprovalFirst'
  BY <1>9 DEF PaymentUnknown, ApprovalFirst, Tell
<1>10. ASSUME NEW c \in Attempts, RecheckReserved(c)
      PROVE  ApprovalFirst'
  BY <1>10 DEF RecheckReserved, TypeOK, AttemptTypes, ApprovalFirst, Goto, Tell,
       Permits, Releasable
<1>11. ASSUME NEW c \in Attempts, NEW ans \in Answers, Dispatch(c, ans)
      PROVE  ApprovalFirst'
  BY <1>11 DEF Dispatch, TypeOK, AttemptTypes, ApprovalFirst, Goto, Proceed, Moved, Move
<1>12. ASSUME NEW c \in Attempts, Reload(c)
      PROVE  ApprovalFirst'
  BY <1>12 DEF Reload, TypeOK, AttemptTypes, ApprovalFirst, Proceed, Tell
<1>13. ASSUME NEW c \in Attempts, Arrive(c)
      PROVE  ApprovalFirst'
  BY <1>13 DEF Arrive, TypeOK, AttemptTypes, ApprovalFirst, Goto, Proceed,
       MayStillAccept
<1>14. ASSUME NEW c \in Attempts, Return(c)
      PROVE  ApprovalFirst'
  BY <1>14 DEF Return, ApprovalFirst
<1>15. ASSUME NEW c \in Attempts, TimesOut(c)
      PROVE  ApprovalFirst'
  BY <1>15 DEF TimesOut, ApprovalFirst, Proceed
<1>16. ASSUME NEW c \in Attempts, DispatchRefused(c)
      PROVE  ApprovalFirst'
  BY <1>16 DEF DispatchRefused, ApprovalFirst, Releasable, Move
<1>17. ASSUME NEW c \in Attempts, Lookup(c)
      PROVE  ApprovalFirst'
  BY <1>17 DEF Lookup, TypeOK, AttemptTypes, ApprovalFirst, Goto, Moved, Absent,
       Releasable
<1>18. ASSUME NEW c \in Attempts, Hold(c)
      PROVE  ApprovalFirst'
  BY <1>18 DEF Hold, ApprovalFirst, Tell
<1>19. ASSUME NEW c \in Attempts, NEW ans \in Answers, Record(c, ans)
      PROVE  ApprovalFirst'
  BY <1>19 DEF Record, TypeOK, AttemptTypes, ApprovalFirst, Goto, Proceed, Moved, Move
<1>20. ASSUME NEW c \in Attempts, Settle(c)
      PROVE  ApprovalFirst'
  BY <1>20 DEF Settle, ApprovalFirst, Tell
<1>21. ASSUME NEW c \in Attempts, Crash(c)
      PROVE  ApprovalFirst'
  BY <1>21 DEF Crash, ApprovalFirst, Tell
<1>22. CASE Complete
  BY <1>22 DEF Complete, ApprovalFirst, WorldTypes
<1>23. CASE Reprice
  BY <1>23 DEF Reprice, ApprovalFirst, WorldTypes
<1>24. CASE ReconcileRow
  BY <1>24 DEF ReconcileRow, ApprovalFirst, WorldTypes
<1>25. CASE Tick
  BY <1>25 DEF Tick, ApprovalFirst, WorldTypes
<1>26. ASSUME NEW v \in 1..MaxTerms, Decide(v)
      PROVE  ApprovalFirst'
  <2>1. \A w \in 1..MaxTerms : approvals[w] = "consumed" => approvals'[w] = "consumed"
    BY <1>26 DEF Decide, TypeOK, WorldTypes
  <2> QED
    BY <1>26, <2>1 DEF Decide, TypeOK, RowTypes, ApprovalFirst
<1>27. CASE UNCHANGED vars
  BY <1>27 DEF vars, ApprovalFirst
<1> QED
  BY <1>1, <1>2, <1>3, <1>4, <1>5, <1>6, <1>7, <1>8, <1>9, <1>10, <1>11, <1>12, <1>13,
       <1>14, <1>15, <1>16, <1>17, <1>18, <1>19, <1>20, <1>21, <1>22, <1>23, <1>24,
       <1>25, <1>26, <1>27 DEF Next, Call, World

\* Every step keeps ApprovalSpent, given that approvals come first.
LEMMA SpentStep ==
    ASSUME TypeOK, ApprovalSpent, ApprovalFirst, [Next]_vars
    PROVE  ApprovalSpent'
<1> USE ClockAssumption
<1>1. ASSUME NEW c \in Attempts, Begin(c)
      PROVE  ApprovalSpent'
  BY <1>1 DEF Begin, ApprovalSpent, ApprovalFirst, Definite
<1>2. ASSUME NEW c \in Attempts, Find(c)
      PROVE  ApprovalSpent'
  BY <1>2 DEF Find, ApprovalSpent, ApprovalFirst, Definite
<1>3. ASSUME NEW c \in Attempts, Offer(c)
      PROVE  ApprovalSpent'
  <2>1. \A w \in 1..MaxTerms : approvals[w] = "consumed" => approvals'[w] = "consumed"
    BY <1>3 DEF Offer, TypeOK, WorldTypes
  <2> QED
    BY <1>3, <2>1 DEF Offer, ApprovalSpent, TypeOK, RowTypes
<1>4. ASSUME NEW c \in Attempts, NEW ans \in Answers, Accept(c, ans)
      PROVE  ApprovalSpent'
  BY <1>4 DEF Accept, ApprovalSpent, ApprovalFirst, Dispatched, Definite
<1>5. ASSUME NEW c \in Attempts, RecheckAccepted(c)
      PROVE  ApprovalSpent'
  BY <1>5 DEF RecheckAccepted, ApprovalSpent, ApprovalFirst, Dispatched, Definite,
       Permits, Move
<1>6. ASSUME NEW c \in Attempts, NEW ans \in Answers, Consume(c, ans)
      PROVE  ApprovalSpent'
  BY <1>6 DEF Consume, ApprovalSpent, ApprovalFirst, Dispatched, Definite,
       NamesThisCall, Move
<1>7. ASSUME NEW c \in Attempts, Confirm(c)
      PROVE  ApprovalSpent'
  BY <1>7 DEF Confirm, ApprovalSpent, ApprovalFirst, Dispatched, Definite,
       NamesThisCall, Move
<1>8. ASSUME NEW c \in Attempts, NEW ans \in Answers, Reserve(c, ans)
      PROVE  ApprovalSpent'
  BY <1>8 DEF Reserve, ApprovalSpent, ApprovalFirst, Definite, Move
<1>9. ASSUME NEW c \in Attempts, PaymentUnknown(c)
      PROVE  ApprovalSpent'
  BY <1>9 DEF PaymentUnknown, ApprovalSpent, ApprovalFirst, Definite
<1>10. ASSUME NEW c \in Attempts, RecheckReserved(c)
      PROVE  ApprovalSpent'
  BY <1>10, RecheckForms DEF ApprovalSpent, Dispatched
<1>11. ASSUME NEW c \in Attempts, NEW ans \in Answers, Dispatch(c, ans)
      PROVE  ApprovalSpent'
  BY <1>11 DEF Dispatch, ApprovalSpent, ApprovalFirst, Definite, Moved, Move
<1>12. ASSUME NEW c \in Attempts, Reload(c)
      PROVE  ApprovalSpent'
  BY <1>12 DEF Reload, ApprovalSpent, ApprovalFirst, Definite
<1>13. ASSUME NEW c \in Attempts, Arrive(c)
      PROVE  ApprovalSpent'
  BY <1>13 DEF Arrive, ApprovalSpent, ApprovalFirst, Definite, MayStillAccept
<1>14. ASSUME NEW c \in Attempts, Return(c)
      PROVE  ApprovalSpent'
  BY <1>14 DEF Return, ApprovalSpent, ApprovalFirst, Definite
<1>15. ASSUME NEW c \in Attempts, TimesOut(c)
      PROVE  ApprovalSpent'
  BY <1>15 DEF TimesOut, ApprovalSpent, ApprovalFirst, Definite
<1>16. ASSUME NEW c \in Attempts, DispatchRefused(c)
      PROVE  ApprovalSpent'
  BY <1>16 DEF DispatchRefused, ApprovalSpent, ApprovalFirst, Dispatched, Definite,
       Releasable, Move
<1>17. ASSUME NEW c \in Attempts, Lookup(c)
      PROVE  ApprovalSpent'
  BY <1>17 DEF Lookup, ApprovalSpent, ApprovalFirst, Definite, Moved, Absent,
       Releasable, Move
<1>18. ASSUME NEW c \in Attempts, Hold(c)
      PROVE  ApprovalSpent'
  BY <1>18 DEF Hold, ApprovalSpent, ApprovalFirst, Dispatched, Definite, Move
<1>19. ASSUME NEW c \in Attempts, NEW ans \in Answers, Record(c, ans)
      PROVE  ApprovalSpent'
  BY <1>19 DEF Record, ApprovalSpent, ApprovalFirst, Dispatched, Definite, Moved, Move
<1>20. ASSUME NEW c \in Attempts, Settle(c)
      PROVE  ApprovalSpent'
  BY <1>20 DEF Settle, ApprovalSpent, ApprovalFirst, Definite
<1>21. ASSUME NEW c \in Attempts, Crash(c)
      PROVE  ApprovalSpent'
  BY <1>21 DEF Crash, ApprovalSpent, ApprovalFirst, Definite
<1>22. CASE Complete
  BY <1>22 DEF Complete, ApprovalSpent, ApprovalFirst, Definite, WorldTypes
<1>23. CASE Reprice
  BY <1>23 DEF Reprice, ApprovalSpent, ApprovalFirst, Definite, WorldTypes
<1>24. CASE ReconcileRow
  BY <1>24 DEF ReconcileRow, ApprovalSpent, ApprovalFirst, Dispatched, Definite,
       WorldTypes
<1>25. CASE Tick
  BY <1>25 DEF Tick, ApprovalSpent, ApprovalFirst, Definite, WorldTypes
<1>26. ASSUME NEW v \in 1..MaxTerms, Decide(v)
      PROVE  ApprovalSpent'
  BY <1>26 DEF Decide, ApprovalSpent, ApprovalFirst, Dispatched, Definite, WorldTypes
<1>27. CASE UNCHANGED vars
  BY <1>27 DEF vars, ApprovalSpent, ApprovalFirst
<1> QED
  BY <1>1, <1>2, <1>3, <1>4, <1>5, <1>6, <1>7, <1>8, <1>9, <1>10, <1>11, <1>12, <1>13,
       <1>14, <1>15, <1>16, <1>17, <1>18, <1>19, <1>20, <1>21, <1>22, <1>23, <1>24,
       <1>25, <1>26, <1>27 DEF Next, Call, World

\* Every step keeps the definite answers true: with one caller alone, an uncharged row
\* stays uncharged.
LEMMA AnswersStep ==
    ASSUME TypeOK, AnswersAreTrue, CallerIsAlone, RowFollowsEffect,
           HeldIsTrue,
           [Next]_vars
    PROVE  AnswersAreTrue'
<1> USE ClockAssumption
<1>1. ASSUME NEW c \in Attempts, Begin(c)
      PROVE  AnswersAreTrue'
  BY <1>1 DEF Begin, AnswersAreTrue, Definite
<1>2. ASSUME NEW c \in Attempts, Find(c)
      PROVE  AnswersAreTrue'
  BY <1>2 DEF Find, TypeOK, AttemptTypes, AnswersAreTrue, Definite, Goto, Proceed, Tell
<1>3. ASSUME NEW c \in Attempts, Offer(c)
      PROVE  AnswersAreTrue'
  BY <1>3 DEF Offer, TypeOK, AttemptTypes, AnswersAreTrue, Definite, Goto, Tell
<1>4. ASSUME NEW c \in Attempts, NEW ans \in Answers, Accept(c, ans)
      PROVE  AnswersAreTrue'
  BY <1>4 DEF Accept, TypeOK, AttemptTypes, AnswersAreTrue, Uncharged, Definite, Goto,
       Proceed, Tell
<1>5. ASSUME NEW c \in Attempts, RecheckAccepted(c)
      PROVE  AnswersAreTrue'
  BY <1>5 DEF RecheckAccepted, TypeOK, AttemptTypes, AnswersAreTrue, Uncharged,
       Definite, Goto, Tell, Permits, Move
<1>6. ASSUME NEW c \in Attempts, NEW ans \in Answers, Consume(c, ans)
      PROVE  AnswersAreTrue'
  BY <1>6 DEF Consume, TypeOK, AttemptTypes, AnswersAreTrue, Uncharged, Definite, Goto,
       Tell, NamesThisCall, Move
<1>7. ASSUME NEW c \in Attempts, Confirm(c)
      PROVE  AnswersAreTrue'
  BY <1>7 DEF Confirm, TypeOK, AttemptTypes, AnswersAreTrue, Uncharged, Definite, Goto,
       Tell, NamesThisCall, Move
<1>8. ASSUME NEW c \in Attempts, NEW ans \in Answers, Reserve(c, ans)
      PROVE  AnswersAreTrue'
  BY <1>8 DEF Reserve, AnswersAreTrue, Uncharged, Definite, Goto, Proceed, Move
<1>9. ASSUME NEW c \in Attempts, PaymentUnknown(c)
      PROVE  AnswersAreTrue'
  BY <1>9 DEF PaymentUnknown, AnswersAreTrue, Definite, Tell
<1>10. ASSUME NEW c \in Attempts, RecheckReserved(c)
      PROVE  AnswersAreTrue'
  <2>1. \A a \in Attempts : told'[a] \in {told[a], "none"}
    BY <1>10, RecheckForms DEF TypeOK, AttemptTypes, Definite, Goto, Tell
  <2> QED
    BY <1>10, <2>1, RecheckForms DEF AnswersAreTrue, Uncharged
<1>11. ASSUME NEW c \in Attempts, NEW ans \in Answers, Dispatch(c, ans)
      PROVE  AnswersAreTrue'
  BY <1>11 DEF Dispatch, AnswersAreTrue, Uncharged, Definite, Goto, Proceed, Moved, Move
<1>12. ASSUME NEW c \in Attempts, Reload(c)
      PROVE  AnswersAreTrue'
  BY <1>12 DEF Reload, TypeOK, AttemptTypes, AnswersAreTrue, HeldIsTrue, Finished,
       Definite, Proceed, Tell
<1>13. ASSUME NEW c \in Attempts, Arrive(c)
      PROVE  AnswersAreTrue'
  <2>1. MayStillAccept => phase # "released" \/ undone
    BY <1>13 DEF Arrive, MayStillAccept, CallerIsAlone, TypeOK, WorldTypes
  <2> QED
    BY <1>13, <2>1 DEF Arrive, AnswersAreTrue, CallerIsAlone, Authorised, Goto,
         Uncharged
<1>14. ASSUME NEW c \in Attempts, Return(c)
      PROVE  AnswersAreTrue'
  BY <1>14 DEF Return, AnswersAreTrue, Definite
<1>15. ASSUME NEW c \in Attempts, TimesOut(c)
      PROVE  AnswersAreTrue'
  BY <1>15 DEF TimesOut, AnswersAreTrue, Definite, Proceed
<1>16. ASSUME NEW c \in Attempts, DispatchRefused(c)
      PROVE  AnswersAreTrue'
  BY <1>16 DEF DispatchRefused, AnswersAreTrue, Uncharged, Definite, Releasable, Move
<1>17. ASSUME NEW c \in Attempts, Lookup(c)
      PROVE  AnswersAreTrue'
  BY <1>17 DEF Lookup, AnswersAreTrue, Uncharged, Definite, Goto, Moved, Absent,
       Releasable, Move
<1>18. ASSUME NEW c \in Attempts, Hold(c)
      PROVE  AnswersAreTrue'
  BY <1>18 DEF Hold, AnswersAreTrue, Uncharged, Definite, Tell, Move
<1>19. ASSUME NEW c \in Attempts, NEW ans \in Answers, Record(c, ans)
      PROVE  AnswersAreTrue'
  BY <1>19 DEF Record, AnswersAreTrue, Uncharged, Definite, Goto, Proceed, Moved, Move
<1>20. ASSUME NEW c \in Attempts, Settle(c)
      PROVE  AnswersAreTrue'
  <2>1. phase = held[c] /\ phase \in Terminal
    BY <1>20 DEF Settle, HeldIsTrue
  <2>2. CASE phase \in Uncharged
    <3>1. told' = [told EXCEPT ![c] = "not_charged"]
      BY <1>20, <2>1, <2>2 DEF Settle, Tell, Definite, Uncharged
    <3>2. runs = 0 \/ undone
      BY <2>2 DEF RowFollowsEffect
    <3> QED
      BY <1>20, <2>2, <3>1, <3>2 DEF Settle, AnswersAreTrue
  <2>3. CASE phase = "finalized"
    <3>1. told' = [told EXCEPT ![c] = IF effect = "failed" THEN "failed" ELSE "ok"]
      BY <1>20, <2>1, <2>3 DEF Settle, Tell, Definite, RowFollowsEffect
    <3>2. effect \in Finished
      BY <2>3 DEF RowFollowsEffect
    <3> QED
      BY <1>20, <3>1, <3>2 DEF Settle, AnswersAreTrue, Finished
  <2> QED
    BY <2>1, <2>2, <2>3 DEF Terminal
<1>21. ASSUME NEW c \in Attempts, Crash(c)
      PROVE  AnswersAreTrue'
  BY <1>21 DEF Crash, AnswersAreTrue, Definite, Tell
<1>22. CASE Complete
  BY <1>22 DEF Complete, AnswersAreTrue, Definite, WorldTypes
<1>23. CASE Reprice
  BY <1>23 DEF Reprice, AnswersAreTrue, Definite, WorldTypes
<1>24. CASE ReconcileRow
  BY <1>24 DEF ReconcileRow, AnswersAreTrue, Uncharged, Definite, WorldTypes
<1>25. CASE Tick
  BY <1>25 DEF Tick, AnswersAreTrue, Definite, WorldTypes
<1>26. ASSUME NEW v \in 1..MaxTerms, Decide(v)
      PROVE  AnswersAreTrue'
  BY <1>26 DEF Decide, AnswersAreTrue, Definite, WorldTypes
<1>27. CASE UNCHANGED vars
  BY <1>27 DEF vars, AnswersAreTrue
<1> QED
  BY <1>1, <1>2, <1>3, <1>4, <1>5, <1>6, <1>7, <1>8, <1>9, <1>10, <1>11, <1>12, <1>13,
       <1>14, <1>15, <1>16, <1>17, <1>18, <1>19, <1>20, <1>21, <1>22, <1>23, <1>24,
       <1>25, <1>26, <1>27 DEF Next, Call, World
-----------------------------------------------------------------------------
\* The refinement

\* Every step of the call is a step of the contract, or leaves it alone.
LEMMA ContractStep ==
    ASSUME TypeOK, Safe, [Next]_vars
    PROVE  [Contract!Next]_(Contract!contractVars)
<1> USE ClockAssumption DEF Contract!Next, Contract!Run, Contract!Finish, Contract!Charge,
        Contract!Waive, Contract!Undo, Contract!contractVars, Contract!Finished
<1>1. ASSUME NEW c \in Attempts, Begin(c)
      PROVE  [Contract!Next]_(Contract!contractVars)
  BY <1>1 DEF Begin, Safe
<1>2. ASSUME NEW c \in Attempts, Find(c)
      PROVE  [Contract!Next]_(Contract!contractVars)
  BY <1>2 DEF Find, Safe
<1>3. ASSUME NEW c \in Attempts, Offer(c)
      PROVE  [Contract!Next]_(Contract!contractVars)
  BY <1>3 DEF Offer, Safe
<1>4. ASSUME NEW c \in Attempts, NEW ans \in Answers, Accept(c, ans)
      PROVE  [Contract!Next]_(Contract!contractVars)
  BY <1>4 DEF Accept, Safe, Uncharged
<1>5. ASSUME NEW c \in Attempts, RecheckAccepted(c)
      PROVE  [Contract!Next]_(Contract!contractVars)
  BY <1>5 DEF RecheckAccepted, Safe, RowFollowsEffect, Uncharged, Permits, Move
<1>6. ASSUME NEW c \in Attempts, NEW ans \in Answers, Consume(c, ans)
      PROVE  [Contract!Next]_(Contract!contractVars)
  BY <1>6 DEF Consume, Safe, RowFollowsEffect, Uncharged, NamesThisCall, Move
<1>7. ASSUME NEW c \in Attempts, Confirm(c)
      PROVE  [Contract!Next]_(Contract!contractVars)
  BY <1>7 DEF Confirm, Safe, RowFollowsEffect, Uncharged, NamesThisCall, Move
<1>8. ASSUME NEW c \in Attempts, NEW ans \in Answers, Reserve(c, ans)
      PROVE  [Contract!Next]_(Contract!contractVars)
  BY <1>8 DEF Reserve, Safe, RowFollowsEffect, Uncharged, Move
<1>9. ASSUME NEW c \in Attempts, PaymentUnknown(c)
      PROVE  [Contract!Next]_(Contract!contractVars)
  BY <1>9 DEF PaymentUnknown, Safe
<1>10. ASSUME NEW c \in Attempts, RecheckReserved(c)
      PROVE  [Contract!Next]_(Contract!contractVars)
  <2>1. CASE phase' = phase /\ undone' = undone
    BY <1>10, <2>1, RecheckForms DEF Uncharged
  <2>2. CASE /\ phase \in {"reserved", "dispatching"}
             /\ phase' = "released"
             /\ undone => undone'
             /\ phase = "dispatching" => undone'
             /\ undone' => undone \/ phase = "dispatching"
    <3>1. ~undone /\ undone \in BOOLEAN /\ undone' \in BOOLEAN
      BY <1>10, <2>2, RecheckForms DEF Safe, RowFollowsEffect, TypeOK, RowTypes
    <3>2. CASE phase = "reserved"
      <4>1. undone' = undone
        BY <2>2, <3>1, <3>2
      <4> QED
        BY <1>10, <2>2, <3>1, <3>2, <4>1, RecheckForms DEF Safe, RowFollowsEffect, Uncharged
    <3>3. CASE phase = "dispatching"
      <4>1. undone' = TRUE
        BY <2>2, <3>1, <3>3
      <4> QED
        BY <1>10, <2>2, <3>3, <4>1, RecheckForms DEF Uncharged
    <3> QED
      BY <2>2, <3>2, <3>3
  <2> QED
    BY <1>10, <2>1, <2>2, RecheckForms
<1>11. ASSUME NEW c \in Attempts, NEW ans \in Answers, Dispatch(c, ans)
      PROVE  [Contract!Next]_(Contract!contractVars)
  BY <1>11 DEF Dispatch, Safe, Uncharged, Moved, Move
<1>12. ASSUME NEW c \in Attempts, Reload(c)
      PROVE  [Contract!Next]_(Contract!contractVars)
  BY <1>12 DEF Reload, Safe
<1>13. ASSUME NEW c \in Attempts, Arrive(c)
      PROVE  [Contract!Next]_(Contract!contractVars)
  <2>1. MayStillAccept => phase # "released" \/ undone
    BY <1>13 DEF Arrive, MayStillAccept, Safe, CallerIsAlone, TypeOK, WorldTypes
  <2> QED
    BY <1>13, <2>1 DEF Arrive, Safe, CallerIsAlone, Authorised, RowFollowsEffect,
         Uncharged
<1>14. ASSUME NEW c \in Attempts, Return(c)
      PROVE  [Contract!Next]_(Contract!contractVars)
  BY <1>14 DEF Return, Safe
<1>15. ASSUME NEW c \in Attempts, TimesOut(c)
      PROVE  [Contract!Next]_(Contract!contractVars)
  BY <1>15 DEF TimesOut, Safe
<1>16. ASSUME NEW c \in Attempts, DispatchRefused(c)
      PROVE  [Contract!Next]_(Contract!contractVars)
  BY <1>16 DEF DispatchRefused, TypeOK, RowTypes, ProviderTypes, Safe, CallerIsAlone,
       Authorised, RowFollowsEffect, Uncharged, Releasable, Move
<1>17. ASSUME NEW c \in Attempts, Lookup(c)
      PROVE  [Contract!Next]_(Contract!contractVars)
  BY <1>17 DEF Lookup, Safe, RowFollowsEffect, Uncharged, Moved, Absent, Releasable,
       Move
<1>18. ASSUME NEW c \in Attempts, Hold(c)
      PROVE  [Contract!Next]_(Contract!contractVars)
  BY <1>18 DEF Hold, Safe, Uncharged, Move
<1>19. ASSUME NEW c \in Attempts, NEW ans \in Answers, Record(c, ans)
      PROVE  [Contract!Next]_(Contract!contractVars)
  BY <1>19 DEF Record, TypeOK, AttemptTypes, Safe, HeldIsTrue, Finished, Uncharged,
       Moved, Move
<1>20. ASSUME NEW c \in Attempts, Settle(c)
      PROVE  [Contract!Next]_(Contract!contractVars)
  BY <1>20 DEF Settle, Safe
<1>21. ASSUME NEW c \in Attempts, Crash(c)
      PROVE  [Contract!Next]_(Contract!contractVars)
  BY <1>21 DEF Crash, Safe
<1>22. CASE Complete
  BY <1>22 DEF Complete, Safe, Finished, WorldTypes
<1>23. CASE Reprice
  BY <1>23 DEF Reprice, Safe, WorldTypes
<1>24. CASE ReconcileRow
  BY <1>24 DEF ReconcileRow, Safe, RowFollowsEffect, Finished, Uncharged, WorldTypes
<1>25. CASE Tick
  BY <1>25 DEF Tick, Safe, WorldTypes
<1>26. ASSUME NEW v \in 1..MaxTerms, Decide(v)
      PROVE  [Contract!Next]_(Contract!contractVars)
  BY <1>26 DEF Decide, Safe, WorldTypes
<1>27. CASE UNCHANGED vars
  BY <1>27 DEF vars
<1> QED
  BY <1>1, <1>2, <1>3, <1>4, <1>5, <1>6, <1>7, <1>8, <1>9, <1>10, <1>11, <1>12, <1>13,
       <1>14, <1>15, <1>16, <1>17, <1>18, <1>19, <1>20, <1>21, <1>22, <1>23, <1>24,
       <1>25, <1>26, <1>27 DEF Next, Call, World
-----------------------------------------------------------------------------
\* The theorems

\* The inductive invariant with the properties that lean on it.
Inductive == TypeOK /\ Safe /\ ApprovalSpent /\ AnswersAreTrue

\* It holds of every reachable state.
LEMMA InductiveHolds == Spec => []Inductive
<1>1. Init => Inductive
  <2> SUFFICES ASSUME Init PROVE Inductive
    OBVIOUS
  <2>1. TypeOK
    BY InitTypes
  <2>2. Safe
    BY DEF Init, Safe, CallerIsAlone, Authorised, RowFollowsEffect, HeldIsTrue,
         ApprovalFirst
  <2>3. ApprovalSpent /\ AnswersAreTrue
    BY DEF Init, ApprovalSpent, AnswersAreTrue
  <2> QED
    BY <2>1, <2>2, <2>3 DEF Inductive
<1>2. Inductive /\ [Next]_vars => Inductive'
  BY TypeStep, CallerStep, RowStep, HeldStep, ApprovalStep, SpentStep, AnswersStep DEF
       Inductive, Safe
<1> QED
  BY <1>1, <1>2, PTL DEF Spec

(* However attempts, lost answers, crashes and clocks interleave, the      *)
(* provider runs the call at most once, a charge is what it recorded, and  *)
(* a call whose charge was waived never runs, unless a stale recheck       *)
(* waived it after its dispatch (`_recheck`, `_from_dispatch`, `_dispatch`,*)
(* ProviderIngress).                                                       *)
THEOREM PaidCallImplementsContract == Spec => ImplementsContract
<1>1. Init => Contract!Init
  BY DEF Init, Contract!Init, Uncharged
<1>2. Inductive /\ [Next]_vars => [Contract!Next]_(Contract!contractVars)
  BY ContractStep DEF Inductive
<1> QED
  BY <1>1, <1>2, InductiveHolds, PTL DEF Spec, ImplementsContract, Contract!Spec

(* A row for which funds were ever held has spent the approval of exactly  *)
(* the terms it was quoted at (`_consume_approval`, `_verify_quote`).      *)
THEOREM ApprovalIsSpent == Spec => []ApprovalSpent
BY InductiveHolds, PTL DEF Inductive

(* What a caller was told of the call is true and stays true: "not         *)
(* charged" never changes, and such a call never runs, unless a stale      *)
(* recheck released its dispatched row (`_answer`, `_settled`, `_recheck`).*)
THEOREM AnswersStayTrue == Spec => []AnswersAreTrue
BY InductiveHolds, PTL DEF Inductive
=============================================================================

--------------------------- MODULE PaidInvocation ---------------------------
(***************************************************************************)
(* One paid capability call of orchestrator/commerce_gateway.py and the    *)
(* attempts that carry it: several processes, retries and restarts that    *)
(* all derive the same idempotency key and so meet at the same row of      *)
(* mctl-api's ledger.  Each ledger call is a step of its own, and its      *)
(* answer may be lost before or after it took effect.  The provider is     *)
(* the ingress of orchestrator/commerce_provider.py, with a clock that     *)
(* may run behind or ahead of the gateway's.                               *)
(***************************************************************************)
EXTENDS Integers

CONSTANTS
    Attempts,           \* the processes that may carry the call
    MaxTerms,           \* bound: versions of the terms ever in force
    Lifetime,           \* a dispatch authorization's deadline, in ticks
    Margin,             \* CommerceRuntime.max_clock_skew_s, in ticks
    MaxSkew,            \* how far the provider's clock may really be off
    MaxTime             \* bound: ticks counted after the dispatch

ASSUME ClockAssumption ==
    /\ MaxTerms \in Nat \ {0}
    /\ {Lifetime, Margin, MaxSkew, MaxTime} \subseteq Nat
    /\ MaxSkew <= Margin

VARIABLES
    terms,          \* the version of the terms in force
    approvals,      \* approvals[v]: the approval request that names terms v
    phase,          \* the ledger row of this key, "none" until accepted
    rowTerms,       \* the terms the row was quoted at
    rowApproval,    \* the approval bound to the row, 0 for none
    outcome,        \* the execution outcome the row was finalized with
    undone,         \* history: a stale recheck released the row after its dispatch
    effect,         \* the provider's record under the operation key
    runs,           \* how often the provider started the handler
    handler,        \* the handler of the accepted operation is alive
    now,            \* ticks of the gateway's clock since the dispatch
    pc,             \* where each attempt is
    held,           \* the phase each attempt last read
    policy,         \* the verdict of the rule each attempt runs under
    binding,        \* the terms each attempt bound its decision to, 0 if unread
    result,         \* the provider's answer an attempt holds
    told            \* the definite answer each attempt last gave its caller

ledgerVars   == <<phase, rowTerms, rowApproval, outcome, undone>>
providerVars == <<effect, runs, handler>>
worldVars    == <<terms, approvals, now>>
attemptVars  == <<pc, held, policy, binding, result, told>>
vars == <<terms, approvals, phase, rowTerms, rowApproval, outcome, undone, effect, runs,
          handler, now, pc, held, policy, binding, result, told>>

Finished == {"succeeded", "failed"}
Dispatched == {"dispatching", "dispatched", "outcome_unknown"}
Uncharged == {"refused", "released"}
Terminal == Uncharged \cup {"finalized"}
Phases == {"accepted", "reserved"} \cup Dispatched \cup Terminal
Policies == {"allow", "approve", "deny"}
ApprovalStates == {"none", "pending", "approved", "denied", "expired", "consumed"}

\* A ledger or approval call: observed, or lost before or after it took effect.
Answers == {"ok", "before", "after"}

\* Steps of an attempt, named for what it does next.
Steps == {"idle", "find", "offer", "accept", "refind", "advance", "consume",
          "confirm", "reserve", "dispatch", "calling", "waiting", "dispatch_refused",
          "hold", "record", "reload"}

Init ==
    /\ terms = 1
    /\ approvals = [v \in 1..MaxTerms |-> "none"]
    /\ phase = "none" /\ rowTerms = 0 /\ rowApproval = 0 /\ outcome = "none" /\ undone = FALSE
    /\ effect = "none" /\ runs = 0 /\ handler = FALSE
    /\ now = 0
    /\ pc = [a \in Attempts |-> "idle"]
    /\ held = [a \in Attempts |-> "none"]
    /\ policy = [a \in Attempts |-> "deny"]
    /\ binding = [a \in Attempts |-> 0]
    /\ result = [a \in Attempts |-> "none"]
    /\ told = [a \in Attempts |-> "none"]

-----------------------------------------------------------------------------
\* How a step of attempt a ends.

Goto(a, step) ==
    /\ pc' = [pc EXCEPT ![a] = step]
    /\ UNCHANGED <<held, policy, binding, result, told>>

\* `inv` becomes the row as the ledger just returned it.  Past the dispatch
\* neither the policy nor the terms are read again: they are forgotten.
Proceed(a, p) ==
    /\ pc' = [pc EXCEPT ![a] = "advance"]
    /\ held' = [held EXCEPT ![a] = p]
    /\ IF p \in Dispatched \cup Terminal
       THEN /\ policy' = [policy EXCEPT ![a] = "deny"]
            /\ binding' = [binding EXCEPT ![a] = 0]
       ELSE UNCHANGED <<policy, binding>>
    /\ UNCHANGED <<result, told>>

\* Answers that say what became of the call; the others ("refused", "unknown")
\* leave it to a retry.
Definite == {"ok", "failed", "not_charged"}

\* A PaidResult: the object is built per call and never reused.
Tell(a, answer) ==
    /\ pc' = [pc EXCEPT ![a] = "idle"]
    /\ held' = [held EXCEPT ![a] = "none"]
    /\ policy' = [policy EXCEPT ![a] = "deny"]
    /\ binding' = [binding EXCEPT ![a] = 0]
    /\ result' = [result EXCEPT ![a] = "none"]
    /\ told' = [told EXCEPT ![a] = IF answer \in Definite THEN answer ELSE "none"]

\* The ledger's compare-and-set: a transition that does not match the row's
\* phase is rejected, and a lost answer may or may not have been applied.
Move(ans, from, to) ==
    /\ phase' = IF ans # "before" /\ phase \in from THEN to ELSE phase
    /\ UNCHANGED <<rowTerms, rowApproval>>

Moved(ans, from) == ans = "ok" /\ phase \in from

\* The phases mctl-api releases from: the request carries a reason code and no
\* expected phase.
Releasable == {"reserved", "dispatching"}
-----------------------------------------------------------------------------
\* Attempts

(* The call starts: the terms are read (or cannot be: binding 0) and the   *)
(* rule of this process's policy is evaluated.                             *)
Begin(a) ==
    /\ pc[a] = "idle"
    /\ \E v \in {0, terms}, rule \in Policies :
          /\ binding' = [binding EXCEPT ![a] = v]
          /\ policy' = [policy EXCEPT ![a] = rule]
    /\ pc' = [pc EXCEPT ![a] = "find"]
    /\ told' = [told EXCEPT ![a] = "none"]
    /\ UNCHANGED <<ledgerVars, providerVars, worldVars, held, result>>

(* `_find`: an unreadable ledger is never "absent".  A first attempt goes  *)
(* on to an offer, a retry resumes the row; without terms a row that was   *)
(* not dispatched is named in the refusal and not advanced.                *)
Find(a) ==
    /\ pc[a] \in {"find", "refind"}
    /\ \/ Tell(a, "unknown")
       \/ /\ phase = "none"
          /\ IF pc[a] = "find" /\ binding[a] # 0 /\ policy[a] # "deny"
             THEN Goto(a, "offer")
             ELSE Tell(a, IF pc[a] = "find" THEN "refused" ELSE "unknown")
       \/ /\ phase # "none"
          /\ IF binding[a] = 0 /\ phase \in {"accepted", "reserved"}
             THEN Tell(a, "refused")
             ELSE Proceed(a, phase)
    /\ UNCHANGED <<ledgerVars, providerVars, worldVars>>

(* Budget precheck, approval, quote.  The approval request is found or     *)
(* created for exactly these terms and only read; the quote must reproduce *)
(* the terms the decision was bound to.                                    *)
Offer(a) ==
    /\ pc[a] = "offer"
    /\ \/ Tell(a, "refused") /\ UNCHANGED approvals
       \/ /\ policy[a] = "approve" /\ approvals[binding[a]] = "none"
          /\ approvals' = [approvals EXCEPT ![binding[a]] = "pending"]
          /\ Tell(a, "refused")
       \/ /\ policy[a] = "approve" => approvals[binding[a]] = "approved"
          /\ terms = binding[a]
          /\ Goto(a, "accept")
          /\ UNCHANGED approvals
    /\ UNCHANGED <<ledgerVars, providerVars, terms, now>>

ApprovalOf(a) == IF policy[a] = "approve" THEN binding[a] ELSE 0

(* `accept` under the idempotency key: a row that is there already answers *)
(* idempotency-conflict (another quote), and the ledger says which row.    *)
Accept(a, ans) ==
    /\ pc[a] = "accept"
    /\ LET taken == phase = "none" /\ terms = binding[a]
       IN  /\ IF taken /\ ans # "before"
              THEN /\ phase' = "accepted"
                   /\ rowTerms' = binding[a]
                   /\ rowApproval' = ApprovalOf(a)
              ELSE UNCHANGED <<phase, rowTerms, rowApproval>>
           /\ CASE ans = "ok" /\ taken -> Proceed(a, "accepted")
                [] ans = "ok" /\ ~taken /\ phase = "none" -> Tell(a, "refused")
                [] OTHER -> Goto(a, "refind")
    /\ UNCHANGED <<outcome, undone, providerVars, worldVars>>

\* `_decide` at a recheck: the execution identity is read again and may not resolve.
Permits(a) == policy[a] # "deny" /\ (policy[a] = "approve" => rowApproval # 0)

(* Step 7 of the call, on an accepted row: decide again, else refuse it.   *)
RecheckAccepted(a) ==
    /\ pc[a] = "advance" /\ held[a] = "accepted"
    /\ \/ /\ Permits(a)
          /\ Goto(a, IF rowApproval = 0 THEN "reserve" ELSE "consume")
          /\ UNCHANGED phase
       \/ /\ \E ans \in Answers : Move(ans, {"accepted"}, "refused")
          /\ Tell(a, "refused")
    /\ UNCHANGED <<rowTerms, rowApproval, outcome, undone, providerVars, worldVars>>

\* The approval's intent covers the terms and the rule that asked for it.
NamesThisCall(a) == policy[a] = "approve" /\ binding[a] = rowApproval

(* `_consume_approval`: spend it for this invocation.  An approval already *)
(* spent, or an answer that was lost, is read back before it is judged.    *)
Consume(a, ans) ==
    /\ pc[a] = "consume"
    /\ LET spent == NamesThisCall(a) /\ approvals[rowApproval] = "approved"
           again == NamesThisCall(a) /\ approvals[rowApproval] = "consumed"
       IN  /\ approvals' = IF spent /\ ans # "before"
                           THEN [approvals EXCEPT ![rowApproval] = "consumed"]
                           ELSE approvals
           /\ \/ ans = "ok" /\ spent /\ Goto(a, "reserve") /\ UNCHANGED phase
              \/ (ans # "ok" \/ again) /\ Goto(a, "confirm") /\ UNCHANGED phase
              \/ /\ ans = "ok" /\ ~spent /\ ~again
                 /\ \E lost \in Answers : Move(lost, {"accepted"}, "refused")
                 /\ Tell(a, "refused")
    /\ UNCHANGED <<rowTerms, rowApproval, outcome, undone, providerVars, terms, now>>

\* A bug: an answer that was lost is taken for a consumed approval.
ConfirmAnyway(a) ==
    /\ pc[a] = "confirm"
    /\ Goto(a, "reserve")
    /\ UNCHANGED <<ledgerVars, providerVars, worldVars>>

Confirm(a) ==
    /\ pc[a] = "confirm"
    /\ \/ Tell(a, "refused") /\ UNCHANGED phase
       \/ /\ approvals[rowApproval] = "consumed" /\ NamesThisCall(a)
          /\ Goto(a, "reserve")
          /\ UNCHANGED phase
       \/ /\ approvals[rowApproval] # "approved"
          /\ ~(approvals[rowApproval] = "consumed" /\ NamesThisCall(a))
          /\ \E lost \in Answers : Move(lost, {"accepted"}, "refused")
          /\ Tell(a, "refused")
    /\ UNCHANGED <<rowTerms, rowApproval, outcome, undone, providerVars, worldVars>>

(* `reserve`: the budget is held, or the row is refused for good.          *)
Reserve(a, ans) ==
    /\ pc[a] = "reserve"
    /\ \E to \in {"reserved", "refused"} :
          /\ Move(ans, {"accepted"}, to)
          /\ CASE ans = "ok" /\ phase' = "reserved" -> Proceed(a, "reserved")
               [] OTHER -> Goto(a, "reload")
    /\ UNCHANGED <<outcome, undone, providerVars, worldVars>>

\* A bug: the row is left in a phase the state machine does not know.
PaymentUnknownPhase(a) ==
    /\ pc[a] \in {"reserve", "dispatch"}
    /\ Tell(a, "unknown")
    /\ phase' = "payment_unknown"
    /\ UNCHANGED <<rowTerms, rowApproval, outcome, undone, providerVars, worldVars>>

(* The ledger cannot tell the payment's state (payment-unknown): nothing   *)
(* was dispatched, and the attempt ends here.                              *)
PaymentUnknown(a) ==
    /\ pc[a] \in {"reserve", "dispatch"}
    /\ Tell(a, "unknown")
    /\ UNCHANGED <<ledgerVars, providerVars, worldVars>>

(* The recheck before the dispatch: a refusal gives the reservation back.  *)
(* The row it read as reserved may have been dispatched by another attempt *)
(* meanwhile.                                                              *)
RecheckReserved(a) ==
    /\ pc[a] = "advance" /\ held[a] = "reserved"
    /\ \/ Permits(a) /\ Goto(a, "dispatch") /\ UNCHANGED <<phase, undone>>
       \/ /\ \E ans \in Answers :
                /\ Move(ans, Releasable, "released")
                /\ undone' = (undone \/ (ans # "before" /\ phase = "dispatching"))
          /\ Tell(a, "refused")
    /\ UNCHANGED <<rowTerms, rowApproval, outcome, providerVars, worldVars>>

(* `dispatch`: the ledger signs one authorization.  An answer marked       *)
(* replayed, or an authorization that cannot be read, calls nobody.        *)
Dispatch(a, ans) ==
    /\ pc[a] = "dispatch"
    /\ Move(ans, {"reserved"}, "dispatching")
    /\ \/ Moved(ans, {"reserved"}) /\ Goto(a, "calling")
       \/ Moved(ans, {"reserved", "dispatching"}) /\ Proceed(a, "dispatching")
       \/ ~Moved(ans, {"reserved", "dispatching"}) /\ Goto(a, "reload")
    /\ UNCHANGED <<outcome, undone, providerVars, worldVars>>

(* `_reload` after a write that was not taken.  A row still where the      *)
(* attempt left it before the dispatch ends the attempt; an unreadable     *)
(* ledger does too, with the provider's result if there is one.            *)
Reload(a) ==
    /\ pc[a] = "reload"
    /\ \/ Tell(a, IF result[a] = "none" THEN "unknown"
                  ELSE IF result[a] = "succeeded" THEN "ok" ELSE "failed")
       \/ IF held[a] = phase /\ phase \in {"accepted", "reserved"}
          THEN Tell(a, "unknown")
          ELSE Proceed(a, phase)
    /\ UNCHANGED <<ledgerVars, providerVars, worldVars>>
-----------------------------------------------------------------------------
\* The provider's ingress

\* The provider judges the deadline on its own clock, which may be off by up
\* to MaxSkew, and only for a new key.
MayStillAccept == now <= Lifetime + MaxSkew

(* `ProviderIngress.call`: the acceptance is recorded before the handler   *)
(* starts.  A key that is already there never runs again: its outcome is   *)
(* returned, and one still in progress is no answer.                       *)
Arrive(a) ==
    /\ pc[a] = "calling"
    /\ \/ /\ effect = "none" /\ MayStillAccept
          /\ effect' = "in_progress" /\ runs' = runs + 1 /\ handler' = TRUE
          /\ Goto(a, "waiting")
       \/ /\ effect = "none"            \* past the deadline, or not for this call
          /\ Goto(a, "dispatch_refused")
          /\ UNCHANGED providerVars
       \/ /\ effect = "in_progress"
          /\ Proceed(a, "dispatching")
          /\ UNCHANGED providerVars
       \/ /\ effect \in Finished
          /\ result' = [result EXCEPT ![a] = effect]
          /\ pc' = [pc EXCEPT ![a] = "record"]
          /\ held' = [held EXCEPT ![a] = "dispatching"]
          /\ UNCHANGED <<providerVars, policy, binding, told>>
    /\ UNCHANGED <<ledgerVars, worldVars>>

(* The handler ends; a handler that raises is a recorded failure.          *)
Complete ==
    /\ handler /\ effect = "in_progress"
    /\ effect' \in Finished
    /\ handler' = FALSE
    /\ UNCHANGED <<ledgerVars, worldVars, attemptVars, runs>>

(* The call returns to the attempt that is still waiting for it.           *)
Return(a) ==
    /\ pc[a] = "waiting" /\ effect \in Finished
    /\ result' = [result EXCEPT ![a] = effect]
    /\ pc' = [pc EXCEPT ![a] = "record"]
    /\ held' = [held EXCEPT ![a] = "dispatching"]
    /\ UNCHANGED <<ledgerVars, providerVars, worldVars, policy, binding, told>>

\* A bug: a timeout is reported as the provider's failure.
TimesOutFailed(a) ==
    /\ pc[a] \in {"calling", "waiting"}
    /\ Tell(a, "failed")
    /\ UNCHANGED <<ledgerVars, providerVars, worldVars>>

(* Timeout or transport failure: ambiguous.  The accepted handler runs on. *)
TimesOut(a) ==
    /\ pc[a] \in {"calling", "waiting"}
    /\ Proceed(a, "dispatching")
    /\ UNCHANGED <<ledgerVars, providerVars, worldVars>>

(* DispatchRefused: nothing ran, so the reservation is given back.         *)
DispatchRefused(a) ==
    /\ pc[a] = "dispatch_refused"
    /\ \E ans \in Answers : Move(ans, Releasable, "released")
    /\ held' = [held EXCEPT ![a] = "dispatching"]
    /\ pc' = [pc EXCEPT ![a] = "reload"]
    /\ UNCHANGED <<outcome, undone, providerVars, worldVars, policy, binding, result, told>>

-----------------------------------------------------------------------------
\* After the dispatch: only the provider's record settles the row.

\* A bug: the margin for the provider's clock is left out.
AbsentAtDeadline(a) == effect = "none" /\ held[a] = "dispatching" /\ now > Lifetime

\* not_found proves absence only past the deadline plus the allowed skew, and
\* only while the provider never confirmed that it accepted the call.
Absent(a) == effect = "none" /\ held[a] = "dispatching" /\ now > Lifetime + Margin

(* `_from_dispatch`: look the outcome up.  An outcome that cannot be read  *)
(* is unknown, never not_found.                                            *)
Lookup(a) ==
    /\ pc[a] = "advance" /\ held[a] \in Dispatched
    /\ \/ /\ Goto(a, IF result[a] = "none" THEN "hold" ELSE "record")
          /\ UNCHANGED phase
       \/ /\ result[a] = "none" /\ effect \in Finished
          /\ result' = [result EXCEPT ![a] = effect]
          /\ pc' = [pc EXCEPT ![a] = "record"]
          /\ UNCHANGED <<phase, held, policy, binding, told>>
       \/ /\ result[a] = "none" /\ effect = "in_progress" /\ held[a] = "dispatching"
          /\ \E ans \in Answers :
                /\ Move(ans, {"dispatching"}, "dispatched")
                /\ held' = IF Moved(ans, {"dispatching"})
                           THEN [held EXCEPT ![a] = "dispatched"] ELSE held
          /\ pc' = [pc EXCEPT ![a] = "hold"]
          /\ UNCHANGED <<policy, binding, result, told>>
       \/ /\ result[a] = "none" /\ Absent(a)
          /\ \E ans \in Answers : Move(ans, Releasable, "released")
          /\ Goto(a, "reload")
    /\ UNCHANGED <<rowTerms, rowApproval, outcome, undone, providerVars, worldVars>>

(* `_hold_unknown`: the liability stays held and the call is not repeated. *)
Hold(a) ==
    /\ pc[a] = "hold"
    /\ IF held[a] = "dispatched"
       THEN \E ans \in Answers : Move(ans, {"dispatched"}, "outcome_unknown")
       ELSE UNCHANGED phase
    /\ Tell(a, "unknown")
    /\ UNCHANGED <<rowTerms, rowApproval, outcome, undone, providerVars, worldVars>>

(* `_record_outcome`: dispatching -> dispatched, then finalize with what   *)
(* the provider answered.  A finalize the ledger already holds is replayed.*)
Record(a, ans) ==
    /\ pc[a] = "record"
    /\ IF held[a] = "dispatching"
       THEN /\ Move(ans, {"dispatching"}, "dispatched")
            /\ UNCHANGED outcome
            /\ IF Moved(ans, {"dispatching"})
               THEN /\ held' = [held EXCEPT ![a] = "dispatched"]
                    /\ UNCHANGED <<pc, policy, binding, result, told>>
               ELSE Goto(a, "reload")
       ELSE LET taken == phase \in {"dispatched", "outcome_unknown"}
                same == phase = "finalized" /\ outcome = result[a]
            IN  /\ Move(ans, {"dispatched", "outcome_unknown"}, "finalized")
                /\ outcome' = IF taken /\ ans # "before" THEN result[a] ELSE outcome
                /\ IF ans = "ok" /\ (taken \/ same)
                   THEN Proceed(a, "finalized")
                   ELSE Goto(a, "reload")
    /\ UNCHANGED <<undone, providerVars, worldVars>>

(* `_settled` / `_answer`: a finalized row answers with its own outcome,   *)
(* any other terminal row was not charged.                                 *)
Settle(a) ==
    /\ pc[a] = "advance" /\ held[a] \in Terminal
    /\ Tell(a, CASE held[a] \in Uncharged -> "not_charged"
                 [] held[a] = "finalized" /\ outcome = "failed" -> "failed"
                 [] OTHER -> "ok")
    /\ UNCHANGED <<ledgerVars, providerVars, worldVars>>

(* The process of attempt a dies.  An execution-local provider dies with   *)
(* it: a handler that was running is cut off and deliberately not recorded.*)
Crash(a) ==
    /\ pc[a] # "idle"
    /\ handler' \in {handler, FALSE}
    /\ Tell(a, "none")
    /\ UNCHANGED <<ledgerVars, effect, runs, worldVars>>

-----------------------------------------------------------------------------
\* mctl-api, people and time (external)

(* A person decides the approval; a request not decided in time expires.   *)
(* Nobody reads an approval or the terms once funds are held, so both only *)
(* change before that.                                                     *)
Decide(v) ==
    /\ phase \in {"none", "accepted"}
    /\ \/ approvals[v] = "pending" /\ \E d \in {"approved", "denied", "expired"} :
            approvals' = [approvals EXCEPT ![v] = d]
       \/ approvals[v] = "approved" /\ approvals' = [approvals EXCEPT ![v] = "expired"]
    /\ UNCHANGED <<ledgerVars, providerVars, terms, now, attemptVars>>

(* The price of the capability changes.                                    *)
Reprice ==
    /\ phase \in {"none", "accepted"}
    /\ terms < MaxTerms
    /\ terms' = terms + 1
    /\ UNCHANGED <<ledgerVars, providerVars, approvals, now, attemptVars>>

(* mctl-api's reconciler: an accepted row lapses with its quote, a         *)
(* reservation is released at its deadline, and a row past the dispatch is *)
(* settled from the provider's record.                                     *)
ReconcileRow ==
    /\ \/ phase = "accepted" /\ phase' = "refused" /\ UNCHANGED outcome
       \/ phase = "reserved" /\ phase' = "released" /\ UNCHANGED outcome
       \/ /\ phase \in {"dispatched", "outcome_unknown"} /\ effect \in Finished
          /\ phase' = "finalized" /\ outcome' = effect
    /\ UNCHANGED <<rowTerms, rowApproval, undone, providerVars, worldVars, attemptVars>>

(* Time matters once a deadline has been signed.                           *)
Tick ==
    /\ phase \in Dispatched \cup Terminal
    /\ now < MaxTime
    /\ now' = now + 1
    /\ UNCHANGED <<ledgerVars, providerVars, terms, approvals, attemptVars>>

-----------------------------------------------------------------------------
Call(a) ==
    \/ Begin(a) \/ Find(a) \/ Offer(a)
    \/ RecheckAccepted(a) \/ Confirm(a) \/ PaymentUnknown(a)
    \/ RecheckReserved(a) \/ Reload(a)
    \/ Arrive(a) \/ Return(a) \/ TimesOut(a) \/ DispatchRefused(a)
    \/ Lookup(a) \/ Hold(a) \/ Settle(a) \/ Crash(a)
    \/ \E ans \in Answers : \/ Accept(a, ans) \/ Consume(a, ans) \/ Reserve(a, ans)
                            \/ Dispatch(a, ans) \/ Record(a, ans)

World == Complete \/ Reprice \/ ReconcileRow \/ Tick \/ \E v \in 1..MaxTerms : Decide(v)

Next == (\E a \in Attempts : Call(a)) \/ World

Spec == Init /\ [][Next]_vars

-----------------------------------------------------------------------------
RowTypes ==
    /\ phase \in Phases \cup {"none"}
    /\ rowTerms \in 0..MaxTerms
    /\ rowApproval \in 0..MaxTerms
    /\ outcome \in Finished \cup {"none"}
    /\ undone \in BOOLEAN

ProviderTypes ==
    /\ effect \in Finished \cup {"none", "in_progress"}
    /\ runs \in Nat
    /\ handler \in BOOLEAN

WorldTypes ==
    /\ terms \in 1..MaxTerms
    /\ approvals \in [1..MaxTerms -> ApprovalStates]
    /\ now \in 0..MaxTime

AttemptTypes ==
    /\ pc \in [Attempts -> Steps]
    /\ held \in [Attempts -> Phases \cup {"none"}]
    /\ policy \in [Attempts -> Policies]
    /\ binding \in [Attempts -> 0..MaxTerms]
    /\ result \in [Attempts -> Finished \cup {"none"}]
    /\ told \in [Attempts -> Definite \cup {"none"}]

TypeOK == RowTypes /\ ProviderTypes /\ WorldTypes /\ AttemptTypes

Contract == INSTANCE ChargeContract WITH
    effect <- IF effect = "in_progress" THEN "running" ELSE effect,
    charge <- IF phase \in Uncharged THEN "waived"
              ELSE IF phase = "finalized" THEN outcome ELSE "open"

(* However attempts, lost answers, crashes and clocks interleave, the      *)
(* provider runs the call at most once, a charge is what the provider      *)
(* recorded, and a call whose charge was waived never runs, unless it was  *)
(* waived by the stale recheck of an attempt that another one had          *)
(* overtaken (ADR 020 sections 9 and 11, `_recheck`, `_from_dispatch`,     *)
(* `_dispatch`, ProviderIngress).                                          *)
ImplementsContract == Contract!Spec

(* A row for which funds were ever held has spent its approval, and that   *)
(* approval named exactly the terms the row was quoted at (`_consume_      *)
(* approval` with its lost answers, `_verify_quote`, `accept`).            *)
ApprovalSpent ==
    (phase \in {"reserved", "released", "finalized"} \cup Dispatched /\ rowApproval # 0)
        => approvals[rowApproval] = "consumed" /\ rowTerms = rowApproval

(* A definite answer is true and stays true: "ok" and "failed" are what    *)
(* the provider recorded, "not charged" a call that no later attempt will  *)
(* charge, and that never runs unless a stale recheck released the row     *)
(* after its dispatch (`_answer`, `_settled`, `_recheck`).                 *)
AnswersAreTrue ==
    \A a \in Attempts :
        /\ told[a] = "ok" => effect = "succeeded"
        /\ told[a] = "failed" => effect = "failed"
        /\ told[a] = "not_charged" => phase \in Uncharged /\ (runs = 0 \/ undone)

(* ADR 020 and DispatchRefused: a dispatched row is released only when the *)
(* provider is known not to have run.  Not so: see `undone`.               *)
WaivedNeverRuns == phase \in Uncharged => runs = 0
=============================================================================

--------------------------- MODULE ApprovalContract ---------------------------
(***************************************************************************)
(* The pure half of action approvals: the rule that decides a merge        *)
(* (policy_checkpoint.py), what a client makes of an HTTP answer about a   *)
(* receipt (action_approvals.py), and what a wait makes of the decision    *)
(* (workflows/action_approval.py).                                         *)
(***************************************************************************)

\* The states of a receipt that is there.
ReceiptStates == {"pending", "approved", "denied", "expired", "consumed"}

\* A receipt somebody has decided, or time has (_DECIDED_STATES).
DecidedStates == ReceiptStates \ {"pending"}

\* status: "2xx", "404", "401", "403", "4xx" (the lasting ones), or "transient"
\* (5xx, 408, 425, 429, unreachable, no credential); code: the typed code of the
\* envelope, or "none"; rec: the state of the receipt in the body, or "none".
Response(status, code, rec) == [status |-> status, code |-> code, rec |-> rec]
Told(rec) == Response("2xx", "none", rec)
Silence   == Response("transient", "none", "none")

\* The typed refusals.
CodeStatus ==
    [c \in {"approval_not_approved", "approval_denied", "approval_expired",
            "approval_intent_mismatch", "approval_consumed", "approval_not_found",
            "approval_not_consumed", "approval_executed", "approval_target_mismatch"} |->
        CASE c = "approval_not_approved" -> "pending"
          [] c = "approval_denied"       -> "denied"
          [] c = "approval_expired"      -> "expired"
          [] c \in {"approval_intent_mismatch", "approval_target_mismatch"} -> "mismatch"
          [] c = "approval_consumed"     -> "consumed"
          [] c = "approval_not_found"    -> "not-found"
          [] c = "approval_not_consumed" -> "not-consumed"
          [] c = "approval_executed"     -> "executed"]
Typed(code) == code \in DOMAIN CodeStatus

\* A refusal counts only if status and code agree; a credential that fails says
\* nothing about the receipt.
Agrees(resp)  == Typed(resp.code) /\ (resp.status = "404") = (resp.code = "approval_not_found")
BadToken(resp) == resp.status = "401" \/ (resp.status = "403" /\ resp.code = "none")

Refusal(resp) ==
    IF resp.status = "transient" THEN "unknown"
    ELSE IF Agrees(resp) THEN CodeStatus[resp.code]
    ELSE IF BadToken(resp) THEN "unknown" ELSE "refused"

\* ActionApprovalClient._read.
Answer(resp) ==
    CASE resp.status # "2xx"                        -> Refusal(resp)
      [] resp.status = "2xx" /\ resp.rec = "none"   -> "unknown"
      [] OTHER                                      -> resp.rec

\* Mutant: a spend that cannot be read is taken for one.
SpentIfUnread(resp) == IF Answer(resp) \in {"consumed", "unknown"} THEN "spent" ELSE Answer(resp)

\* consume: only an answer that shows this receipt consumed is a spend; the typed
\* refusal of a second spend says consumed too, but carries no receipt.
SpendAnswer(resp) ==
    CASE resp.status = "2xx" /\ resp.rec = "consumed" -> "spent"
      [] resp.status = "2xx" /\ resp.rec # "consumed" -> "unknown"
      [] OTHER -> Answer(resp)

\* What a policy decision reports of an answer: _outcome with _APPROVAL_CODES.
Code(status) ==
    CASE status = "spent" -> "approved"
      [] status \in {"consumed", "executed"} -> "consumed"
      [] status \in {"not-consumed", "not-found", "refused"} -> "refused"
      [] status \in {"pending", "denied", "expired", "mismatch"} -> status
      [] OTHER -> "undecided"

\* redeem up to the spend: a receipt of another intent is never spent, nor one
\* whose expiry cannot be read or has passed.
Lookup(resp, intent, expiry) ==
    LET status == Answer(resp)
    IN CASE resp.status # "2xx" \/ resp.rec = "none" -> Code(status)
         [] resp.rec # "none" /\ resp.status = "2xx" /\ intent = "other" -> "mismatch"
         [] resp.rec # "none" /\ resp.status = "2xx" /\ intent = "same" ->
              CASE status # "approved"                       -> Code(status)
                [] status = "approved" /\ expiry = "unread"  -> "undecided"
                [] status = "approved" /\ expiry = "past"    -> "expired"
                [] status = "approved" /\ expiry = "ahead"   -> "spend"

\* The rule a merge is decided under: operation is "merge", or one of the two
\* that always need a person.  A policy nobody knows denies every merge.
MergeRule(policy, operation) ==
    CASE policy = "misconfigured" -> "deny"
      [] policy # "misconfigured" /\ operation # "merge" -> "require-approval"
      [] policy = "merge-approval" /\ operation = "merge" -> "require-approval"
      [] policy = "builtin" /\ operation = "merge" -> "allow"

\* The codes a wait goes on after; every other code is how it ends (outcome_of).
KeepsWaiting == {"pending", "undecided"}

\* Asking again for a head that is settled would bring the same receipt back.
SettledOutcomes ==
    {"denied", "expired", "timed-out", "timed-out-blind", "consumed", "failed", "ran"}
===============================================================================

---------------------------- MODULE MergeGateProofs ----------------------------
(***************************************************************************)
(* Proofs about MergeGate, for every set of heads and every limit: types,  *)
(* that an approval is spent by one thread before it acts, and that the    *)
(* gate implements ApprovedMerge.                                          *)
(***************************************************************************)
EXTENDS MergeGate, TLAPS, FiniteSetTheorems

(* What the types leave out: a thread that somebody waits for has been     *)
(* started once at least, and gate and thread are about a head.            *)
JobSound  == job.pc \in Working => job.runs > 0 /\ job.head \in Heads
GateSound == GateRuns => gate.head \in Heads
PrSound   == pr.by = "gate" => pr.state = "merged"

\* Whoever is about to spend a receipt has seen it.
SeenFirst == \A j \in Threads : j.pc = "spend" => receipt[j.head] # "none"

Sound == TypeOK /\ JobSound /\ GateSound /\ SeenFirst
IInv  == Sound /\ PrSound /\ SpentOnce
-----------------------------------------------------------------------------
\* What a call to mctl-api answers is an answer, and leaves a receipt.
LEMMA AnswerTypes ==
    ASSUME TypeOK, NEW j, j.head \in Heads,
           NEW r \in Lookups(j) \cup (IF receipt[j.head] = "none" THEN {} ELSE Spendings(j))
    PROVE  /\ r.state \in ReceiptStates \cup {"none"} /\ r.fault \in {0, 1}
           /\ Lookup(r.resp, "same", "ahead") \in Codes \cup {"spend"}
           /\ Code(SpendAnswer(r.resp)) \in Codes \cup {"approved"}
<1>1. receipt[j.head] \in ReceiptStates \cup {"none"}
  BY DEF TypeOK
<1>2. r.state \in ReceiptStates \cup {"none"} /\ r.fault \in {0, 1}
  BY <1>1 DEF Lookups, Spendings, Reply, ReceiptStates
<1> DEFINE Plain(resp) ==
             /\ resp.status \in {"2xx", "4xx", "transient"}
             /\ resp.rec \in ReceiptStates \cup {"none"}
             /\ resp.code \in {"none", "approval_consumed", "approval_expired",
                               "approval_denied", "approval_not_approved"}
<1>3. Plain(r.resp)
  <2>1. Plain(Silence) /\ Plain(Response("4xx", "none", "none"))
        /\ Plain(Response("2xx", "none", "none"))
    BY DEF Silence, Response
  <2>2. \A s \in ReceiptStates : Plain(Told(s)) /\ Plain(Response("4xx", Refused2nd[s], "none"))
    BY DEF Told, Response, Refused2nd
  <2>3. \A s, resp, f : Reply(s, resp, f).resp = resp
    BY DEF Reply
  <2>4. "pending" \in ReceiptStates /\ "consumed" \in ReceiptStates
    BY DEF ReceiptStates
  <2> HIDE DEF Plain
  <2>5. r \in Lookups(j) => Plain(r.resp)
    BY <1>1, <2>1, <2>2, <2>3, <2>4 DEF Lookups
  <2>6. receipt[j.head] # "none" /\ r \in Spendings(j) => Plain(r.resp)
    BY <1>1, <2>1, <2>2, <2>3, <2>4 DEF Spendings
  <2> QED
    BY <2>5, <2>6
<1>4. Answer(r.resp) \in ReceiptStates \cup {"unknown", "refused"}
  BY <1>3 DEF Answer, Refusal, Agrees, Typed, BadToken, CodeStatus, ReceiptStates
<1>5. Code(Answer(r.resp)) \in Codes
  BY <1>4 DEF Code, Codes, ReceiptStates
<1>6. Lookup(r.resp, "same", "ahead") \in Codes \cup {"spend"}
  BY <1>3, <1>4, <1>5 DEF Lookup, ReceiptStates
<1>7. SpendAnswer(r.resp) \in ReceiptStates \cup {"unknown", "refused", "spent"}
  BY <1>3, <1>4 DEF SpendAnswer, ReceiptStates
<1>8. Code(SpendAnswer(r.resp)) \in Codes \cup {"approved"}
  BY <1>7 DEF Code, Codes, ReceiptStates
<1> QED
  BY <1>2, <1>6, <1>8

\* What the answers that mctl-api may give mean.
LEMMA Meanings ==
    /\ \A s \in ReceiptStates :
          /\ SpendAnswer(Told(s)) = IF s = "consumed" THEN "spent" ELSE "unknown"
          /\ Lookup(Told(s), "same", "ahead") = IF s = "approved" THEN "spend" ELSE Code(s)
    /\ \A resp \in {Silence, Response("2xx", "none", "none"), Response("4xx", "none", "none")} :
          Lookup(resp, "same", "ahead") \in Codes /\ Code(SpendAnswer(resp)) # "approved"
    /\ \A code \in {"approval_consumed", "approval_expired", "approval_denied",
                    "approval_not_approved"} :
          Code(SpendAnswer(Response("4xx", code, "none"))) # "approved"
<1>1. ASSUME NEW s \in ReceiptStates
      PROVE  /\ SpendAnswer(Told(s)) = IF s = "consumed" THEN "spent" ELSE "unknown"
             /\ Lookup(Told(s), "same", "ahead") = IF s = "approved" THEN "spend" ELSE Code(s)
  <2>1. Told(s) = [status |-> "2xx", code |-> "none", rec |-> s] /\ s # "none"
    BY DEF Told, Response, ReceiptStates
  <2>2. Answer(Told(s)) = s
    BY <2>1 DEF Answer
  <2> QED
    BY <2>1, <2>2 DEF SpendAnswer, Lookup, ReceiptStates
<1>2. \A resp : resp \in {Silence, Response("2xx", "none", "none"),
                          Response("4xx", "none", "none")}
                  => /\ Lookup(resp, "same", "ahead") \in Codes
                     /\ Code(SpendAnswer(resp)) # "approved"
  <2>1. Lookup(Silence, "same", "ahead") = "undecided" /\ Code(SpendAnswer(Silence)) = "undecided"
    BY DEF Silence, Response, SpendAnswer, Lookup, Answer, Refusal, Code
  <2>2. LET resp == Response("2xx", "none", "none")
        IN Lookup(resp, "same", "ahead") = "undecided" /\ Code(SpendAnswer(resp)) = "undecided"
    BY DEF Response, SpendAnswer, Lookup, Answer, Code
  <2>3. LET resp == Response("4xx", "none", "none")
        IN Lookup(resp, "same", "ahead") = "refused" /\ Code(SpendAnswer(resp)) = "refused"
    BY DEF Response, SpendAnswer, Lookup, Answer, Refusal, Agrees, Typed, BadToken, CodeStatus,
           Code
  <2> QED
    BY <2>1, <2>2, <2>3 DEF Codes
<1>3. ASSUME NEW code \in {"approval_consumed", "approval_expired", "approval_denied",
                           "approval_not_approved"}
      PROVE  Code(SpendAnswer(Response("4xx", code, "none"))) # "approved"
  <2>1. Typed(code) /\ CodeStatus[code] \in ReceiptStates
    BY DEF Typed, CodeStatus, ReceiptStates
  <2>2. Refusal(Response("4xx", code, "none")) \in ReceiptStates
    BY <2>1 DEF Refusal, Response, Agrees
  <2>3. SpendAnswer(Response("4xx", code, "none")) \in ReceiptStates
    BY <2>2 DEF SpendAnswer, Answer, Response
  <2> QED
    BY <2>3 DEF Code, ReceiptStates
<1> QED
  BY <1>1, <1>2, <1>3

\* A lookup that says "spend" has seen an approved receipt.
LEMMA SpendSeen ==
    ASSUME TypeOK, NEW j, j.head \in Heads, NEW r \in Lookups(j),
           Lookup(r.resp, "same", "ahead") = "spend"
    PROVE  r.state # "none"
<1>1. receipt[j.head] \in ReceiptStates \cup {"none"} /\ "pending" \in ReceiptStates
  BY DEF TypeOK, ReceiptStates
<1>2. "spend" \notin Codes /\ Code("pending") # "spend"
  BY DEF Codes, Code
<1>3. \A s, resp, f : Reply(s, resp, f).resp = resp /\ Reply(s, resp, f).state = s
  BY DEF Reply
<1>4. CASE ~j.known
  BY <1>2, <1>3, <1>4, Meanings DEF Lookups
<1>5. CASE j.known
  <2>1. r.resp \in {Silence, Response("2xx", "none", "none")} => FALSE
    BY <1>2, Meanings
  <2>2. r = Reply(IF receipt[j.head] = "none" THEN "pending" ELSE receipt[j.head],
                  Told(IF receipt[j.head] = "none" THEN "pending" ELSE receipt[j.head]), 0)
    BY <1>3, <1>5, <2>1 DEF Lookups
  <2> QED
    BY <1>1, <1>2, <1>3, <2>2, Meanings DEF ReceiptStates
<1> QED
  BY <1>4, <1>5

\* A spend that says so has turned an approved receipt into a consumed one.
LEMMA SpendMeans ==
    ASSUME TypeOK, NEW j, j.head \in Heads, receipt[j.head] # "none", NEW r \in Spendings(j),
           Code(SpendAnswer(r.resp)) = "approved"
    PROVE  receipt[j.head] = "approved" /\ r.state = "consumed"
<1>1. \A s, resp, f : Reply(s, resp, f).resp = resp /\ Reply(s, resp, f).state = s
  BY DEF Reply
<1>2. CASE receipt[j.head] = "approved"
  BY <1>1, <1>2, Meanings DEF Spendings
<1>3. CASE receipt[j.head] # "approved"
  <2>1. Refused2nd[receipt[j.head]] \in {"approval_consumed", "approval_expired",
                                         "approval_denied", "approval_not_approved"}
    BY DEF TypeOK, Refused2nd, ReceiptStates
  <2> QED
    BY <1>1, <1>3, <2>1, Meanings DEF Spendings
<1> QED
  BY <1>2, <1>3

-----------------------------------------------------------------------------
\* Types

\* The limits are numbers, and there is a head to begin with.
LEMMA Limits ==
    /\ EffectTries \in Nat \ {0} /\ ActivityTries \in Nat \ {0} /\ OffPolls \in Nat \ {0}
    /\ Grace \in Nat \ {0} /\ Confirm \in Nat \ {0}
    /\ MaxPushes \in Nat /\ MaxStray \in Nat /\ MaxTroubles \in Nat
    /\ FirstHead \in Heads /\ NoHead \notin Heads
  BY GateAssumption

\* The threads after a step of one of them.
LEMMA ThreadsMove ==
    ASSUME Sound, NEW j \in Threads, NEW next, GoesOn(j, next)
    PROVE  Threads' = (Threads \ {j}) \cup (IF next.pc \in Working THEN {next} ELSE {})
<1>1. job.pc \in Working => job \notin stray
  BY DEF Sound, TypeOK, JobSound, StrayStates
<1>2. CASE job = j /\ job' = next /\ UNCHANGED stray
  BY <1>1, <1>2 DEF Threads
<1>3. CASE /\ j \in stray /\ UNCHANGED job
           /\ stray' = (stray \ {j}) \cup (IF next.pc \in Working THEN {next} ELSE {})
  BY <1>1, <1>3 DEF Threads
<1> QED
  BY <1>2, <1>3 DEF GoesOn

\* A thread is about a head of the branch.
LEMMA ThreadTypes ==
    ASSUME Sound, NEW j \in Threads
    PROVE  /\ j \in JobStates /\ j.pc \in Working /\ j.head \in Heads
           /\ j \in stray => j.runs = 0
           /\ j = job => j.runs > 0
  BY Limits DEF Sound, TypeOK, JobSound, Threads, StrayStates, JobStates

\* A thread that has ended is no thread any more.
LEMMA EndTypes ==
    ASSUME NEW j, NEW code \in Codes
    PROVE  Ends(j, code) \in JobStates /\ Ends(j, code).pc \notin Working
<1>1. 0 \in 0..EffectTries - 1 /\ 0 \in 0..ActivityTries
  BY Limits
<1>2. NoJob \in JobStates
  BY <1>1 DEF NoJob, JobStates
<1>3. Ends(j, code) \in JobStates
  BY <1>2 DEF Ends, JobStates
<1>4. Ends(j, code).pc = code
  BY <1>2 DEF Ends, JobStates
<1>5. code \notin Working
  BY DEF Codes, Working
<1> QED
  BY <1>3, <1>4, <1>5

\* The types after a step of one thread.
LEMMA GoesOnTypes ==
    ASSUME Sound, NEW j \in Threads, NEW next, GoesOn(j, next),
           \/ next \in JobStates /\ next.pc \in Working /\ next.head = j.head
                 /\ next.runs = j.runs
           \/ \E code \in Codes : next = Ends(j, code)
    PROVE  job' \in JobStates /\ stray' \subseteq StrayStates /\ JobSound'
<1>1. \A code \in Codes : Ends(j, code) \in JobStates /\ Ends(j, code).pc \notin Working
  BY EndTypes
<1>2. next \in JobStates
  BY <1>1
<1>3. next.pc \in Working => next \in [pc : Working, head : Heads, known : BOOLEAN,
                                       tries : 0..EffectTries - 1, runs : 0..ActivityTries]
  BY <1>1, ThreadTypes DEF JobStates
<1>4. CASE job = j /\ job' = next /\ UNCHANGED stray
  BY <1>1, <1>2, <1>4, ThreadTypes DEF Sound, TypeOK, JobSound
<1>5. CASE /\ j \in stray /\ UNCHANGED job
           /\ stray' = (stray \ {j}) \cup (IF next.pc \in Working THEN {next} ELSE {})
  <2>1. next.pc \in Working => next \in StrayStates
    BY <1>1, <1>3, <1>5, ThreadTypes DEF StrayStates
  <2> QED
    BY <1>5, <2>1 DEF Sound, TypeOK, JobSound
<1> QED
  BY <1>4, <1>5 DEF GoesOn

\* A thread ends, or goes on as itself.
GoesOnAs(j, next) ==
    \/ next \in JobStates /\ next.pc \in Working /\ next.head = j.head /\ next.runs = j.runs
    \/ \E code \in Codes : next = Ends(j, code)

\* A thread that goes to another point of its work goes on as itself.
LEMMA MovesAs ==
    ASSUME Sound, NEW j \in Threads, NEW pc \in Working
    PROVE  GoesOnAs(j, [j EXCEPT !.pc = pc]) /\ [j EXCEPT !.pc = pc].pc = pc
  BY ThreadTypes DEF GoesOnAs, JobStates

\* A merge that is tried again stays where it is, or fails.
LEMMA TriesAs ==
    ASSUME Sound, NEW j \in Threads
    PROVE  /\ GoesOnAs(j, TriesAgain(j))
           /\ TriesAgain(j).pc = j.pc \/ TriesAgain(j).pc \notin Working
<1>1. CASE j.tries + 1 = EffectTries
  BY <1>1, EndTypes DEF TriesAgain, GoesOnAs, Codes
<1>2. CASE j.tries + 1 # EffectTries
  <2>1. j \in JobStates /\ j.tries + 1 \in 0..EffectTries - 1
    BY <1>2, ThreadTypes, Limits DEF JobStates
  <2>2. TriesAgain(j) = [j EXCEPT !.tries = j.tries + 1]
    BY <1>2 DEF TriesAgain
  <2>3. TriesAgain(j) \in JobStates
    BY <2>1, <2>2 DEF JobStates
  <2>4. TriesAgain(j).pc = j.pc /\ TriesAgain(j).head = j.head /\ TriesAgain(j).runs = j.runs
    BY <2>1, <2>2 DEF JobStates
  <2> QED
    BY <2>3, <2>4, ThreadTypes DEF GoesOnAs
<1> QED
  BY <1>1, <1>2

\* A receipt is never forgotten, and a spent one stays spent.
ReceiptsKept ==
    \A h \in Heads : /\ receipt[h] # "none" => receipt'[h] # "none"
                     /\ receipt[h] = "consumed" => receipt'[h] = "consumed"

\* What a step of the thread j may be, with next for the thread after it.
JobMoves(j, next) ==
    /\ GoesOn(j, next) /\ GoesOnAs(j, next)
    /\ receipt' \in [Heads -> ReceiptStates \cup {"none"}] /\ ReceiptsKept
    /\ next.pc = "spend" => receipt'[j.head] # "none"
    /\ next.pc = "effect" =>
          \/ j.pc = "effect" /\ receipt' = receipt
          \/ j.pc = "spend" /\ receipt[j.head] = "approved" /\ receipt'[j.head] = "consumed"
    /\ \/ receipt' = receipt
       \/ /\ j.pc = "redeem" /\ receipt[j.head] = "none"
          /\ receipt' = [receipt EXCEPT ![j.head] = "pending"]
       \/ /\ j.pc = "spend" /\ receipt[j.head] = "approved"
          /\ receipt' = [receipt EXCEPT ![j.head] = "consumed"]
    /\ \/ UNCHANGED pr
       \/ /\ j.pc = "effect" /\ receipt' = receipt
          /\ pr.state = "open" /\ pr.head = j.head
          /\ pr' = [pr EXCEPT !.state = "merged", !.by = "gate"]
    /\ UNCHANGED <<policy, watch, gate>> /\ troubles' \in 0..MaxTroubles

\* The count of troubles stays within its bound.
LEMMA TroubleTypes ==
    ASSUME TypeOK, Trouble \/ UNCHANGED troubles
    PROVE  troubles' \in 0..MaxTroubles
  BY Limits DEF TypeOK, Trouble

\* An answer of mctl-api changes the receipt of one head, and forgets none.
LEMMA ReplyTypes ==
    ASSUME TypeOK, NEW head \in Heads, NEW r, Replied(head, r),
           r.state \in ReceiptStates \cup {"none"}, r.fault \in {0, 1},
           receipt[head] # "none" => r.state # "none",
           receipt[head] = "consumed" => r.state = "consumed"
    PROVE  /\ receipt' \in [Heads -> ReceiptStates \cup {"none"}] /\ ReceiptsKept
           /\ receipt'[head] = r.state /\ troubles' \in 0..MaxTroubles
           /\ receipt' = IF r.state = receipt[head] THEN receipt
                         ELSE [receipt EXCEPT ![head] = r.state]
<1>1. receipt' \in [Heads -> ReceiptStates \cup {"none"}] /\ receipt'[head] = r.state
  BY DEF TypeOK, Replied
<1>2. ReceiptsKept
  BY DEF TypeOK, Replied, ReceiptsKept
<1>3. troubles' \in 0..MaxTroubles
  BY Limits DEF TypeOK, Replied
<1>4. receipt' = IF r.state = receipt[head] THEN receipt
                 ELSE [receipt EXCEPT ![head] = r.state]
  BY DEF TypeOK, Replied
<1> QED
  BY <1>1, <1>2, <1>3, <1>4

\* Every step of a thread is such a move.
LEMMA JobFacts ==
    ASSUME Sound, NEW j \in Threads, JobStep(j)
    PROVE  \E next : JobMoves(j, next)
<1>1. "redeem" \in Working /\ "spend" \in Working /\ "effect" \in Working
  BY DEF Working
<1>2. \A code \in Codes : GoesOnAs(j, Ends(j, code)) /\ Ends(j, code).pc \notin Working
  BY EndTypes DEF GoesOnAs
<1>3. TypeOK /\ j.head \in Heads
  BY ThreadTypes DEF Sound
<1>4. CASE Checks(j)
  <2>1. UNCHANGED <<pr, policy, receipt, watch, gate>> /\ troubles' \in 0..MaxTroubles
    BY <1>3, <1>4, TroubleTypes DEF Checks
  <2>2. Checked(j.head) \in {"off", "unmet", "blocked", "redeem"}
    BY DEF Checked
  <2>3. {"off", "unmet", "blocked"} \subseteq Codes
    BY DEF Codes
  <2>4. PICK next : /\ GoesOn(j, next)
                    /\ \/ next = [j EXCEPT !.pc = "redeem"]
                       \/ \E code \in Codes : next = Ends(j, code)
    BY <1>4, <2>2, <2>3 DEF Checks
  <2>5. GoesOnAs(j, next) /\ next.pc # "spend" /\ next.pc # "effect"
    BY <1>1, <1>2, <2>4, MovesAs
  <2> QED
    BY <1>3, <2>1, <2>4, <2>5 DEF JobMoves, TypeOK, ReceiptsKept
<1>5. CASE Redeems(j)
  <2>1. PICK r \in Lookups(j) :
           /\ Replied(j.head, r)
           /\ LET code == Lookup(r.resp, "same", "ahead")
              IN GoesOn(j, IF code = "spend" THEN [j EXCEPT !.pc = "spend"] ELSE Ends(j, code))
    BY <1>5 DEF Redeems
  <2>2. /\ r.state \in ReceiptStates \cup {"none"} /\ r.fault \in {0, 1}
        /\ Lookup(r.resp, "same", "ahead") \in Codes \cup {"spend"}
    BY <1>3, <2>1, AnswerTypes
  <2>3. /\ receipt[j.head] # "none" => r.state # "none"
        /\ receipt[j.head] = "consumed" => r.state = "consumed"
        /\ r.state # receipt[j.head] => receipt[j.head] = "none" /\ r.state = "pending"
    BY DEF Lookups, Reply
  <2>4. /\ receipt' \in [Heads -> ReceiptStates \cup {"none"}] /\ ReceiptsKept
        /\ receipt'[j.head] = r.state /\ troubles' \in 0..MaxTroubles
        /\ receipt' = IF r.state = receipt[j.head] THEN receipt
                      ELSE [receipt EXCEPT ![j.head] = r.state]
    BY <1>3, <2>1, <2>2, <2>3, ReplyTypes
  <2>5. PICK next : /\ GoesOn(j, next)
                    /\ \/ /\ next = [j EXCEPT !.pc = "spend"]
                          /\ Lookup(r.resp, "same", "ahead") = "spend"
                       \/ \E code \in Codes : next = Ends(j, code)
    BY <2>1, <2>2
  <2>6. GoesOnAs(j, next) /\ next.pc # "effect"
    BY <1>1, <1>2, <2>5, MovesAs
  <2>7. next.pc = "spend" => receipt'[j.head] # "none"
    BY <1>1, <1>2, <1>3, <2>1, <2>4, <2>5, SpendSeen
  <2>8. j.pc = "redeem" /\ UNCHANGED <<pr, policy, watch, gate>>
    BY <1>5, <2>1 DEF Redeems, Replied
  <2> QED
    BY <2>3, <2>4, <2>5, <2>6, <2>7, <2>8 DEF JobMoves
<1>6. CASE Spends(j)
  <2>1. j.pc = "spend" /\ receipt[j.head] # "none"
    BY <1>6 DEF Spends, Sound, SeenFirst
  <2>2. PICK r \in Spendings(j) :
           /\ Replied(j.head, r)
           /\ LET code == Code(SpendAnswer(r.resp))
              IN GoesOn(j, IF code = "approved" THEN [j EXCEPT !.pc = "effect"]
                           ELSE Ends(j, code))
    BY <1>6 DEF Spends
  <2>3. /\ r.state \in ReceiptStates \cup {"none"} /\ r.fault \in {0, 1}
        /\ Code(SpendAnswer(r.resp)) \in Codes \cup {"approved"}
    BY <1>3, <2>1, <2>2, AnswerTypes
  <2>4. /\ r.state # "none"
        /\ receipt[j.head] = "consumed" => r.state = "consumed"
        /\ r.state # receipt[j.head] => receipt[j.head] = "approved" /\ r.state = "consumed"
    <3>1. \A s, resp, f : Reply(s, resp, f).state = s
      BY DEF Reply
    <3>2. CASE receipt[j.head] = "approved"
      BY <2>2, <3>1, <3>2 DEF Spendings
    <3>3. CASE receipt[j.head] # "approved"
      <4>1. r.state = receipt[j.head]
        BY <2>2, <3>1, <3>3 DEF Spendings
      <4> QED
        BY <2>1, <4>1
    <3> QED
      BY <3>2, <3>3
  <2>5. /\ receipt' \in [Heads -> ReceiptStates \cup {"none"}] /\ ReceiptsKept
        /\ receipt'[j.head] = r.state /\ troubles' \in 0..MaxTroubles
        /\ receipt' = IF r.state = receipt[j.head] THEN receipt
                      ELSE [receipt EXCEPT ![j.head] = r.state]
    BY <1>3, <2>2, <2>3, <2>4, ReplyTypes
  <2>6. PICK next : /\ GoesOn(j, next)
                    /\ \/ /\ next = [j EXCEPT !.pc = "effect"]
                          /\ Code(SpendAnswer(r.resp)) = "approved"
                       \/ \E code \in Codes : next = Ends(j, code)
    BY <2>2, <2>3
  <2>7. GoesOnAs(j, next) /\ next.pc # "spend"
    <3>1. GoesOnAs(j, [j EXCEPT !.pc = "effect"]) /\ [j EXCEPT !.pc = "effect"].pc = "effect"
      BY <1>1, MovesAs
    <3> QED
      BY <1>1, <1>2, <2>6, <3>1
  <2>8. next.pc = "effect" => receipt[j.head] = "approved" /\ receipt'[j.head] = "consumed"
    BY <1>1, <1>2, <1>3, <2>1, <2>2, <2>5, <2>6, SpendMeans
  <2>9. UNCHANGED <<pr, policy, watch, gate>>
    BY <2>2 DEF Replied
  <2> QED
    BY <2>1, <2>4, <2>5, <2>6, <2>7, <2>8, <2>9 DEF JobMoves
<1>7. CASE Merges(j)
  <2>1. j.pc = "effect" /\ UNCHANGED <<policy, receipt, watch, gate>>
    BY <1>7 DEF Merges
  <2>2. troubles' \in 0..MaxTroubles
    BY <1>3, <1>7, TroubleTypes DEF Merges
  <2>3. "ran" \in Codes /\ "failed" \in Codes
    BY DEF Codes
  <2>4. PICK next : /\ GoesOn(j, next)
                    /\ \/ next = TriesAgain(j)
                       \/ \E code \in Codes : next = Ends(j, code)
    BY <1>7, <2>3 DEF Merges
  <2>5. GoesOnAs(j, next) /\ next.pc # "spend"
    BY <1>1, <1>2, <2>1, <2>4, TriesAs
  <2>6. \/ UNCHANGED pr
        \/ /\ pr.state = "open" /\ pr.head = j.head
           /\ pr' = [pr EXCEPT !.state = "merged", !.by = "gate"]
    BY <1>7 DEF Merges
  <2> QED
    BY <1>3, <2>1, <2>2, <2>4, <2>5, <2>6 DEF JobMoves, TypeOK, ReceiptsKept
<1> QED
  BY <1>4, <1>5, <1>6, <1>7 DEF JobStep

\* A step of a thread keeps the types.
LEMMA JobKeeps ==
    ASSUME Sound, NEW j \in Threads, JobStep(j)
    PROVE  Sound'
<1>1. PICK next : JobMoves(j, next)
  BY JobFacts
<1>2. job' \in JobStates /\ stray' \subseteq StrayStates /\ JobSound'
  BY <1>1, GoesOnTypes DEF JobMoves, GoesOnAs
<1>3. Threads' = (Threads \ {j}) \cup (IF next.pc \in Working THEN {next} ELSE {})
  BY <1>1, ThreadsMove DEF JobMoves
<1>4. next.pc \in Working => next.head = j.head
  BY <1>1, EndTypes DEF JobMoves, GoesOnAs
<1>5. SeenFirst'
  BY <1>1, <1>3, <1>4, ThreadTypes DEF JobMoves, ReceiptsKept, Sound, SeenFirst
<1>6. pr' \in PrStates
  BY <1>1 DEF JobMoves, Sound, TypeOK, PrStates
<1>7. GateSound'
  BY <1>1 DEF JobMoves, Sound, GateSound, GateRuns, ChildPCs
<1> QED
  BY <1>1, <1>2, <1>5, <1>6, <1>7 DEF JobMoves, Sound, TypeOK

-----------------------------------------------------------------------------
(* A quiet step moves no thread towards the pull request: threads go, and   *)
(* the one that is waited for may begin anew.                               *)
Quiet ==
    \/ UNCHANGED <<job, stray>>
    \/ job'.pc \notin {"spend", "effect"} /\ stray' \subseteq Deserted

\* A deserted thread is one nobody waits for.
LEMMA DesertedTypes ==
    ASSUME Sound
    PROVE  /\ Deserted \subseteq StrayStates
           /\ Deserted \subseteq stray \cup {[job EXCEPT !.runs = 0]}
           /\ job.pc \in Working \/ Deserted = stray
<1>1. job.pc \in Working => [job EXCEPT !.runs = 0] \in StrayStates
  BY DEF Sound, TypeOK, JobSound, JobStates, StrayStates
<1> QED
  BY <1>1 DEF Deserted, Sound, TypeOK

\* The threads after a quiet step that reads or spends are threads of before.
LEMMA QuietThreads ==
    ASSUME Sound, Quiet, NEW k \in Threads', k.pc \in {"spend", "effect"}
    PROVE  \/ k \in Threads
           \/ /\ job.pc = k.pc /\ job.head = k.head /\ job \in Threads
              /\ k = [job EXCEPT !.runs = 0] /\ job'.pc \notin {"spend", "effect"}
<1>1. CASE UNCHANGED <<job, stray>>
  BY <1>1 DEF Threads
<1>2. CASE job'.pc \notin {"spend", "effect"} /\ stray' \subseteq Deserted
  <2>1. k \in Deserted /\ k.pc \in Working
    BY <1>2 DEF Threads
  <2>2. job \in JobStates
    BY DEF Sound, TypeOK
  <2> QED
    BY <1>2, <2>1, <2>2, DesertedTypes DEF Threads, JobStates
<1> QED
  BY <1>1, <1>2 DEF Quiet

\* After a quiet step whoever is about to spend a receipt has still seen it.
LEMMA QuietSeen ==
    ASSUME Sound, Quiet, ReceiptsKept
    PROVE  SeenFirst'
  BY QuietThreads, ThreadTypes DEF Sound, SeenFirst, ReceiptsKept

-----------------------------------------------------------------------------
(* The gate and the watch: what their steps leave alone.                    *)

GateMoves ==
    /\ UNCHANGED <<pr, policy, receipt, watch, stray>>
    /\ gate' \in GateStates /\ GateSound'
    /\ job' \in JobStates /\ JobSound' /\ (job' = job \/ job'.pc \notin {"spend", "effect"})

\* An activity begins with the checks.
LEMMA StartTypes ==
    ASSUME NEW head \in Heads, NEW known \in BOOLEAN, NEW runs \in 1..ActivityTries
    PROVE  /\ Started(head, known, runs) \in JobStates
           /\ Started(head, known, runs).pc = "checks"
           /\ Started(head, known, runs).head = head
           /\ Started(head, known, runs).runs = runs
<1>1. 0 \in 0..EffectTries - 1
  BY Limits
<1> QED
  BY <1>1 DEF Started, JobStates, Working

\* No activity is of the type of one.
LEMMA NoJobTypes == NoJob \in JobStates /\ NoJob.pc = "none"
<1>1. 0 \in 0..EffectTries - 1 /\ 0 \in 0..ActivityTries
  BY Limits
<1> QED
  BY <1>1 DEF NoJob, JobStates

\* No gate is of the type of one.
LEMMA NoGateTypes == NoGate \in GateStates /\ NoGate.pc = "none"
  BY DEF NoGate, GateStates

\* The child workflow goes on as g.
LEMMA KeepsMoves ==
    ASSUME Sound, NEW g \in GateStates, g.head \in Heads, Keeps(g)
    PROVE  GateMoves
  BY DEF Sound, TypeOK, JobSound, Keeps, GateSet, GateMoves, GateSound, GateRuns

\* The activity has answered, and the gate goes on as g.
LEMMA AnsweredMoves ==
    ASSUME Sound, NEW g \in GateStates, g.head \in Heads, Answered(g)
    PROVE  GateMoves
  BY NoJobTypes DEF Answered, GateSet, GateMoves, GateSound, JobSound, Working

\* The gate calls the activity with the receipt.
LEMMA RechecksMoves ==
    ASSUME Sound, GateRuns, NEW g \in GateStates, g.head = gate.head,
           NEW pc \in ChildPCs, Rechecks(pc, g)
    PROVE  GateMoves
<1>1. gate.head \in Heads /\ gate.known \in BOOLEAN /\ 1 \in 1..ActivityTries
  BY Limits DEF Sound, TypeOK, GateStates, GateSound
<1>2. gate' \in GateStates /\ gate'.head = gate.head
  BY DEF Rechecks, GateSet, GateStates
<1> QED
  BY <1>1, <1>2, StartTypes DEF Rechecks, GateSet, GateMoves, GateSound, JobSound

\* A gate that is done knows its head.
LEMMA DoneTypes ==
    ASSUME Sound, GateRuns, NEW outcome \in Codes \cup {"timed-out", "timed-out-blind"}
    PROVE  Done(outcome) \in GateStates /\ Done(outcome).head \in Heads
<1>1. gate.head \in Heads
  BY DEF Sound, GateSound
<1> QED
  BY <1>1, NoGateTypes DEF Done, GateStates

\* Every step of the gate is such a move.
LEMMA GateFacts ==
    ASSUME Sound, GateStep \/ GateLate
    PROVE  GateMoves /\ troubles' \in 0..MaxTroubles
<1>1. gate \in GateStates /\ job \in JobStates
  BY DEF Sound, TypeOK
<1>2. GateRuns /\ gate.head \in Heads
  BY DEF Sound, GateSound, GateStep, GateLate, GateRuns, ChildPCs, FirstAnswered, ReadsFirst,
         Woken, TimerFires, LastLook, Rechecked, LastRechecked
<1>3. troubles' \in 0..MaxTroubles
  <2>1. \A state : Reads(state) => Trouble \/ UNCHANGED troubles
    BY DEF Reads
  <2> QED
    BY <2>1, TroubleTypes DEF Sound, GateStep, GateLate, FirstAnswered, ReadsFirst, Woken,
       TimerFires, LastLook, Rechecked, LastRechecked, Answered
<1> SUFFICES GateMoves
  BY <1>3
<1>4. \A pc \in ChildPCs : [gate EXCEPT !.pc = pc] \in GateStates
                           /\ [gate EXCEPT !.pc = pc].head = gate.head
  BY <1>1 DEF GateStates
<1>5. CASE FirstAnswered
  <2>1. CASE job.pc = "pending"
    BY <1>2, <1>4, <1>5, <2>1, AnsweredMoves DEF FirstAnswered, ChildPCs
  <2>2. CASE job.pc # "pending"
    BY <1>2, <1>5, <2>2, AnsweredMoves, DoneTypes DEF FirstAnswered, Answered
  <2> QED
    BY <2>1, <2>2
<1>6. CASE ReadsFirst
  <2>1. PICK state : LET g == [gate EXCEPT !.margin = state # "unknown"]
                     IN \/ Rechecks("rechecking", g)
                        \/ Keeps([g EXCEPT !.pc = "waiting"])
    BY <1>6 DEF ReadsFirst
  <2> DEFINE g == [gate EXCEPT !.margin = state # "unknown"]
  <2>2. g \in GateStates /\ g.head = gate.head
    BY <1>1 DEF GateStates
  <2> HIDE DEF g
  <2>3. [g EXCEPT !.pc = "waiting"] \in GateStates /\ [g EXCEPT !.pc = "waiting"].head = gate.head
    BY <2>2 DEF GateStates, ChildPCs
  <2> QED
    BY <1>2, <2>1, <2>2, <2>3, KeepsMoves, RechecksMoves DEF ChildPCs, g
<1>7. CASE Woken
  BY <1>1, <1>2, <1>7, RechecksMoves DEF Woken, ChildPCs
<1>8. CASE TimerFires
  BY <1>1, <1>2, <1>8, RechecksMoves, KeepsMoves DEF TimerFires, ChildPCs
<1>9. CASE LastLook
  BY <1>1, <1>2, <1>9, RechecksMoves, KeepsMoves, DoneTypes DEF LastLook, ChildPCs
<1>10. CASE Rechecked
  <2> DEFINE g == [gate EXCEPT !.pc = "waiting", !.retry = job.pc = "undecided"]
  <2>1. g \in GateStates /\ g.head = gate.head
    BY <1>1 DEF GateStates, ChildPCs
  <2> HIDE DEF g
  <2>2. Answered(g) \/ (job.pc \in Codes /\ Answered(Done(job.pc)))
    BY <1>10 DEF Rechecked, Answered, g
  <2> QED
    BY <1>2, <2>1, <2>2, AnsweredMoves, DoneTypes
<1>11. CASE LastRechecked
  BY <1>2, <1>11, AnsweredMoves, DoneTypes DEF LastRechecked, Answered
<1>12. CASE GateLate
  <2>1. [gate EXCEPT !.late = TRUE] \in GateStates /\ [gate EXCEPT !.late = TRUE].head = gate.head
    BY <1>1 DEF GateStates
  <2> QED
    BY <1>2, <1>12, <2>1, KeepsMoves DEF GateLate
<1> QED
  BY <1>3, <1>5, <1>6, <1>7, <1>8, <1>9, <1>10, <1>11, <1>12 DEF GateStep

WatchMoves ==
    /\ UNCHANGED <<pr, policy, receipt>>
    /\ watch' \in WatchStates
    /\ gate' \in GateStates /\ GateSound'
    /\ job' \in JobStates /\ JobSound' /\ stray' \subseteq StrayStates /\ Quiet

\* A watch at its start.
LEMMA FreshTypes == FreshWatch \in WatchStates
<1>1. 0 \in 0..OffPolls /\ 0 \in 0..Grace - 1 /\ 0 \in 0..Confirm - 1
  BY Limits
<1> QED
  BY <1>1 DEF FreshWatch, WatchStates

\* The watch ends, and cancels what it waited for.
LEMMA LeavesMoves ==
    ASSUME Sound, Leaves
    PROVE  WatchMoves
<1>1. [FreshWatch EXCEPT !.pc = "gone"] \in WatchStates
  BY FreshTypes DEF WatchStates
<1> QED
  BY <1>1, NoGateTypes, NoJobTypes, DesertedTypes
     DEF Leaves, WatchSet, WatchMoves, GateSound, GateRuns, ChildPCs, JobSound, Working, Quiet

\* A result of the gate is written down.
LEMMA RecordedTypes ==
    ASSUME TypeOK, NEW w \in WatchStates
    PROVE  Recorded(w) \in WatchStates
<1>1. OffPolls \in 0..OffPolls /\ gate.head \in Heads \cup {NoHead}
  BY Limits DEF TypeOK, GateStates
<1>2. /\ [w EXCEPT !.off = OffPolls] \in WatchStates
      /\ [w EXCEPT !.settled = gate.head] \in WatchStates
  BY <1>1 DEF WatchStates
<1>3. Recorded(w) \in {w, [w EXCEPT !.off = OffPolls], [w EXCEPT !.settled = gate.head]}
  BY DEF Recorded, SettledOutcomes
<1> QED
  BY <1>2, <1>3

\* A gate begins for the head that was read, or cannot begin.
LEMMA AsksMoves ==
    ASSUME Sound, NEW w \in WatchStates, Asks(w), stray' \subseteq Deserted
    PROVE  WatchMoves
<1>1. pr.head \in Heads /\ 1 \in 1..ActivityTries
  BY Limits DEF Sound, TypeOK, PrStates
<1>2. [w EXCEPT !.minted = TRUE] \in WatchStates
  BY DEF WatchStates
<1>3. ASSUME NEW v \in WatchStates, NEW known \in BOOLEAN, Begins(v, known)
      PROVE  WatchMoves
  <2>1. gate' \in GateStates /\ gate'.head = pr.head
    BY <1>1, <1>3, NoGateTypes DEF Begins, GateStates
  <2> QED
    BY <1>1, <1>3, <2>1, StartTypes, DesertedTypes
       DEF Begins, WatchSet, WatchMoves, GateSound, JobSound, Quiet
<1>4. ASSUME WatchSet(w), gate' = NoGate, job' = NoJob
      PROVE  WatchMoves
  BY <1>4, NoGateTypes, NoJobTypes, DesertedTypes
     DEF WatchSet, WatchMoves, GateSound, GateRuns, ChildPCs, JobSound, Working, Quiet
<1> QED
  BY <1>2, <1>3, <1>4 DEF Asks

\* Every step of the watch is such a move.
LEMMA WatchFacts ==
    ASSUME Sound, WatchStep \/ RunsOut
    PROVE  WatchMoves /\ troubles' \in 0..MaxTroubles
<1>1. TypeOK /\ watch \in WatchStates
  BY DEF Sound, TypeOK
<1>2. troubles' \in 0..MaxTroubles
  BY <1>1, TroubleTypes
     DEF WatchStep, RunsOut, Hop, PollFails, PollEnds, PollMissing, PollOpen, Asks
<1> SUFFICES WatchMoves
  BY <1>2
<1>3. UNCHANGED <<pr, policy, receipt, watch, gate, job, stray>> => WatchMoves
  BY DEF Sound, TypeOK, GateSound, GateRuns, JobSound, WatchMoves, Quiet
<1>4. CASE RunsOut
  BY <1>4, LeavesMoves DEF RunsOut
<1>5. CASE Hop
  <2> DEFINE w == IF gate.pc = "done" THEN Recorded(watch) ELSE watch
  <2>1. w \in WatchStates
    BY <1>1, RecordedTypes
  <2> HIDE DEF w
  <2>2. [w EXCEPT !.off = 0, !.polled = FALSE] \in WatchStates
    <3>1. 0 \in 0..OffPolls
      BY Limits
    <3> QED
      BY <2>1, <3>1 DEF WatchStates
  <2>3. watch' \in WatchStates /\ UNCHANGED <<pr, policy, receipt, job, stray>> /\ gate' = NoGate
    BY <1>5, <2>2 DEF Hop, WatchSet, w
  <2> QED
    BY <2>3, NoGateTypes
       DEF Sound, TypeOK, JobSound, WatchMoves, GateSound, GateRuns, ChildPCs, Quiet
<1>6. CASE PollFails
  BY <1>3, <1>6, LeavesMoves DEF PollFails
<1>7. CASE PollEnds
  BY <1>7, LeavesMoves DEF PollEnds
<1>8. CASE PollMissing
  <2>1. CASE Leaves
    BY <2>1, LeavesMoves
  <2>2. CASE ~Leaves
    <3> DEFINE e == IF pr.dropped /\ ~watch.sawOpen THEN watch.ended + 1 ELSE 0
    <3>1. /\ e # Confirm /\ watch.missing + 1 # Grace
          /\ WatchSet([watch EXCEPT !.polled = TRUE, !.missing = @ + 1, !.ended = e])
          /\ NoChange
      BY <1>8, <2>2 DEF PollMissing
    <3>2. e \in 0..Confirm - 1 /\ watch.missing + 1 \in 0..Grace - 1
      BY <1>1, <3>1, Limits DEF WatchStates
    <3> HIDE DEF e
    <3>3. watch' = [watch EXCEPT !.polled = TRUE, !.missing = watch.missing + 1, !.ended = e]
      BY <3>1 DEF WatchSet
    <3>4. watch' \in WatchStates
      BY <1>1, <3>2, <3>3 DEF WatchStates
    <3> QED
      BY <3>1, <3>4
         DEF Sound, TypeOK, GateSound, GateRuns, JobSound, NoChange, WatchSet, WatchMoves, Quiet
  <2> QED
    BY <2>1, <2>2
<1>9. CASE PollOpen
  <2> DEFINE seen  == [watch EXCEPT !.polled = TRUE, !.missing = 0, !.ended = 0,
                                    !.sawOpen = TRUE, !.off = IF @ = 0 THEN 0 ELSE @ - 1]
             w     == IF gate.pc = "done" THEN Recorded(seen) ELSE seen
             keeps == GateRuns /\ gate.head = pr.head
  <2>1. seen \in WatchStates
    <3>1. /\ (IF watch.off = 0 THEN 0 ELSE watch.off - 1) \in 0..OffPolls
          /\ 0 \in 0..Grace - 1 /\ 0 \in 0..Confirm - 1
      BY <1>1, Limits DEF WatchStates
    <3> QED
      BY <1>1, <3>1 DEF WatchStates
  <2> HIDE DEF seen
  <2>2. w \in WatchStates
    BY <1>1, <2>1, RecordedTypes
  <2>3. IF keeps THEN WatchSet(w) /\ NoChange
        ELSE /\ stray' = IF GateRuns THEN Deserted ELSE stray
             /\ Asks(w) \/ (WatchSet(w) /\ gate' = NoGate /\ job' = NoJob)
    BY <1>9 DEF PollOpen, seen
  <2> HIDE DEF w
  <2>4. CASE keeps
    BY <2>2, <2>3, <2>4
       DEF Sound, TypeOK, GateSound, GateRuns, JobSound, NoChange, WatchSet, WatchMoves, Quiet
  <2>5. CASE ~keeps
    <3>1. stray' \subseteq Deserted
      BY <2>3, <2>5 DEF Deserted
    <3>2. CASE Asks(w)
      BY <2>2, <3>1, <3>2, AsksMoves
    <3>3. CASE WatchSet(w) /\ gate' = NoGate /\ job' = NoJob
      BY <2>2, <3>1, <3>3, NoGateTypes, NoJobTypes, DesertedTypes
         DEF WatchSet, WatchMoves, GateSound, GateRuns, ChildPCs, JobSound, Working, Quiet
    <3> QED
      BY <2>3, <2>5, <3>2, <3>3
  <2> QED
    BY <2>4, <2>5
<1> QED
  BY <1>2, <1>4, <1>5, <1>6, <1>7, <1>8, <1>9 DEF WatchStep

\* A thread whose worker is gone begins anew, or comes to an end.
LEMMA LostFacts ==
    ASSUME Sound, JobLost
    PROVE  /\ UNCHANGED <<pr, policy, receipt, watch, gate>> /\ troubles' \in 0..MaxTroubles
           /\ job' \in JobStates /\ JobSound' /\ stray' \subseteq StrayStates /\ Quiet
<1>1. job \in JobStates /\ job.runs > 0 /\ job.head \in Heads /\ troubles' \in 0..MaxTroubles
  BY TroubleTypes DEF Sound, TypeOK, JobSound, JobLost
<1>2. stray' \subseteq Deserted /\ stray' \subseteq StrayStates
  BY DesertedTypes DEF JobLost, Deserted, Sound, TypeOK
<1>3. CASE job.runs = ActivityTries
  <2>1. "error" \in Codes
    BY DEF Codes
  <2>2. job' \in JobStates /\ job'.pc \notin Working
    BY <1>3, <2>1, EndTypes DEF JobLost
  <2> QED
    BY <1>1, <1>2, <2>2 DEF JobLost, JobSound, Quiet, Working
<1>4. CASE job.runs # ActivityTries
  <2>1. job.runs + 1 \in 1..ActivityTries /\ job.known \in BOOLEAN
    BY <1>1, <1>4, Limits DEF JobStates
  <2> QED
    BY <1>1, <1>2, <1>4, <2>1, StartTypes DEF JobLost, JobSound, Quiet
<1> QED
  BY <1>3, <1>4

-----------------------------------------------------------------------------
(* People, time, GitHub and deployments; and all quiet steps together.      *)

Merged  == IF pr.by = "gate" THEN pr.head ELSE NoHead
Permits == {j.head : j \in {k \in Threads : k.pc = "effect"}}

\* A person decides about a receipt, or its time runs out.
Decides == \E h \in Heads : Approved!Decide(h) \/ Approved!Expire(h)

\* What happens at GitHub changes nothing that the gate has merged.
LEMMA PrMoves ==
    ASSUME Sound, PrSound, PrOpens \/ Push \/ Judged \/ PrEnds \/ Dropped
    PROVE  /\ pr' \in PrStates /\ PrSound' /\ UNCHANGED Merged
           /\ UNCHANGED <<policy, receipt, watch, gate, job, stray, troubles>>
<1>1. pr \in PrStates
  BY DEF Sound, TypeOK
<1>2. CASE PrOpens
  BY <1>1, <1>2 DEF PrOpens, PrSet, PrSound, PrStates, Merged
<1>3. CASE Push
  <2>1. PICK h \in Heads : PrSet([pr EXCEPT !.head = h, !.ready = FALSE, !.pushes = @ + 1])
    BY <1>3 DEF Push
  <2>2. pr.pushes + 1 \in 0..MaxPushes
    <3>1. pr.pushes \in 0..MaxPushes /\ pr.pushes < MaxPushes
      BY <1>1, <1>3 DEF Push, PrStates
    <3> QED
      BY <3>1, Limits
  <2>3. pr' = [pr EXCEPT !.head = h, !.ready = FALSE, !.pushes = pr.pushes + 1]
    BY <2>1 DEF PrSet
  <2>4. pr' \in PrStates /\ pr'.by = pr.by /\ pr'.state = pr.state
    BY <1>1, <2>2, <2>3 DEF PrStates
  <2> QED
    BY <1>3, <2>1, <2>4 DEF Push, PrSet, PrSound, Merged
<1>4. CASE Judged
  <2>1. \E ready \in BOOLEAN : pr' = [pr EXCEPT !.ready = ready]
    BY <1>4, Zenon DEF Judged, PrSet
  <2>2. /\ pr' \in PrStates /\ pr'.by = pr.by /\ pr'.state = pr.state
        /\ pr'.head = pr.head
    BY <1>1, <2>1 DEF PrStates
  <2> QED
    BY <1>4, <2>2 DEF Judged, PrSet, PrSound, Merged
<1>5. CASE PrEnds
  BY <1>1, <1>5 DEF PrEnds, PrSet, PrSound, PrStates, Merged
<1>6. CASE Dropped
  BY <1>1, <1>6 DEF Dropped, PrSet, PrSound, PrStates, Merged
<1> QED
  BY <1>2, <1>3, <1>4, <1>5, <1>6

\* A decision, or the end of a receipt, touches that receipt alone.
LEMMA DecidedFacts ==
    ASSUME Sound, NEW h \in Heads, Decided(h) \/ Expires(h)
    PROVE  /\ UNCHANGED <<pr, policy, watch, job, stray>> /\ troubles' \in 0..MaxTroubles
           /\ receipt' \in [Heads -> ReceiptStates \cup {"none"}] /\ ReceiptsKept
           /\ gate' \in GateStates /\ GateSound'
           /\ Approved!Decide(h) \/ Approved!Expire(h)
<1>1. TypeOK /\ gate \in GateStates /\ receipt \in [Heads -> ReceiptStates \cup {"none"}]
  BY DEF Sound, TypeOK
<1>2. UNCHANGED <<job, stray, pr>>
  BY DEF Decided, Expires
<1>3. UNCHANGED Threads
  BY <1>2 DEF Threads
<1>4. CASE Decided(h)
  <2>1. PICK d \in {"approved", "denied"} :
           receipt[h] = "pending" /\ receipt' = [receipt EXCEPT ![h] = d]
    BY <1>4 DEF Decided
  <2>2. receipt' \in [Heads -> ReceiptStates \cup {"none"}] /\ ReceiptsKept
    BY <1>1, <2>1 DEF ReceiptsKept, ReceiptStates
  <2>3. troubles' \in 0..MaxTroubles
    BY <1>1, <1>4, TroubleTypes DEF Decided
  <2>4. gate' = gate \/ gate' = [gate EXCEPT !.wake = TRUE]
    BY <1>4 DEF Decided
  <2>5. gate' \in GateStates /\ gate'.pc = gate.pc /\ gate'.head = gate.head
    BY <1>1, <2>4 DEF GateStates
  <2>6. GateSound'
    BY <2>5 DEF Sound, GateSound, GateRuns
  <2>7. Approved!Decide(h)
    BY <1>2, <1>3, <2>1 DEF Approved!Decide, Approved!Moves
  <2> QED
    BY <1>2, <1>4, <2>2, <2>3, <2>5, <2>6, <2>7 DEF Decided
<1>5. CASE Expires(h)
  <2>1. receipt[h] \in {"pending", "approved"} /\ receipt' = [receipt EXCEPT ![h] = "expired"]
    BY <1>5 DEF Expires
  <2>2. receipt' \in [Heads -> ReceiptStates \cup {"none"}] /\ ReceiptsKept
    BY <1>1, <2>1 DEF ReceiptsKept, ReceiptStates
  <2>3. UNCHANGED <<pr, policy, watch, gate, job, stray, troubles>>
    BY <1>5 DEF Expires
  <2>4. GateSound'
    BY <2>3 DEF Sound, GateSound, GateRuns
  <2>5. Approved!Expire(h)
    BY <1>2, <1>3, <2>1 DEF Approved!Expire, Approved!Moves
  <2> QED
    BY <1>1, <2>2, <2>3, <2>4, <2>5 DEF TypeOK
<1> QED
  BY <1>4, <1>5

\* After a deployment only the activity that is waited for goes on, from its start.
LEMMA DeployedFacts ==
    ASSUME Sound, Deployed
    PROVE  /\ UNCHANGED <<pr, receipt, watch, gate>> /\ troubles' \in 0..MaxTroubles
           /\ policy' \in {"builtin", "merge-approval", "misconfigured"}
           /\ job' \in JobStates /\ JobSound' /\ stray' \subseteq StrayStates /\ Quiet
<1>1. job \in JobStates /\ troubles' \in 0..MaxTroubles
  BY TroubleTypes DEF Sound, TypeOK, Deployed
<1>2. stray' = {}
  BY DEF Deployed
<1>3. CASE job.pc \in Working
  <2>1. job.runs \in 1..ActivityTries /\ job.known \in BOOLEAN /\ job.head \in Heads
    BY <1>1, <1>3, Limits DEF Sound, JobSound, JobStates
  <2> QED
    BY <1>1, <1>2, <1>3, <2>1, StartTypes DEF Deployed, JobSound, Quiet
<1>4. CASE job.pc \notin Working
  BY <1>1, <1>2, <1>4 DEF Deployed, JobSound, Working, Quiet
<1> QED
  BY <1>3, <1>4

QuietSteps ==
    WatchStep \/ RunsOut \/ GateStep \/ GateLate \/ Environment \/ JobLost

\* A quiet step keeps the types, moves no thread towards the request, merges nothing,
\* and changes a receipt only by a decision or by its end.
LEMMA QuietFacts ==
    ASSUME Sound, PrSound, QuietSteps
    PROVE  /\ Sound' /\ PrSound' /\ Quiet /\ ReceiptsKept /\ UNCHANGED Merged
           /\ UNCHANGED receipt \/ (UNCHANGED <<job, stray>> /\ Decides)
<1>1. \/ GateStep \/ GateLate \/ WatchStep \/ RunsOut \/ JobLost \/ Deployed
      \/ PrOpens \/ Push \/ Judged \/ PrEnds \/ Dropped
      \/ \E h \in Heads : Decided(h) \/ Expires(h)
  BY DEF QuietSteps, Environment
<1>2. UNCHANGED pr => pr' \in PrStates /\ PrSound' /\ UNCHANGED Merged
  BY DEF Sound, TypeOK, PrSound, Merged
<1>3. /\ UNCHANGED receipt => receipt' \in [Heads -> ReceiptStates \cup {"none"}] /\ ReceiptsKept
      /\ UNCHANGED policy => policy' \in {"builtin", "merge-approval", "misconfigured"}
      /\ UNCHANGED watch => watch' \in WatchStates
      /\ UNCHANGED gate => gate' \in GateStates /\ GateSound'
      /\ UNCHANGED <<job, stray>> =>
            job' \in JobStates /\ JobSound' /\ stray' \subseteq StrayStates /\ Quiet
      /\ UNCHANGED troubles => troubles' \in 0..MaxTroubles
  BY DEF Sound, TypeOK, ReceiptsKept, GateSound, GateRuns, JobSound, Quiet
<1>4. GateMoves => job' \in JobStates /\ JobSound' /\ stray' \subseteq StrayStates /\ Quiet
  BY DEF GateMoves, Sound, TypeOK, Quiet, Deserted
<1> DEFINE Types == /\ pr' \in PrStates
                    /\ policy' \in {"builtin", "merge-approval", "misconfigured"}
                    /\ receipt' \in [Heads -> ReceiptStates \cup {"none"}]
                    /\ watch' \in WatchStates /\ gate' \in GateStates /\ job' \in JobStates
                    /\ stray' \subseteq StrayStates /\ troubles' \in 0..MaxTroubles
           Goal == /\ Types /\ JobSound' /\ GateSound' /\ PrSound' /\ Quiet /\ ReceiptsKept
                   /\ UNCHANGED Merged
                   /\ UNCHANGED receipt \/ (UNCHANGED <<job, stray>> /\ Decides)
<1>5. Goal
  <2>1. CASE GateStep \/ GateLate
    BY <1>2, <1>3, <1>4, <2>1, GateFacts DEF GateMoves
  <2>2. CASE WatchStep \/ RunsOut
    BY <1>2, <1>3, <2>2, WatchFacts DEF WatchMoves
  <2>3. CASE JobLost
    BY <1>2, <1>3, <2>3, LostFacts
  <2>4. CASE Deployed
    BY <1>2, <1>3, <2>4, DeployedFacts
  <2>5. CASE PrOpens \/ Push \/ Judged \/ PrEnds \/ Dropped
    BY <1>3, <2>5, PrMoves
  <2>6. CASE \E h \in Heads : Decided(h) \/ Expires(h)
    <3>1. PICK h \in Heads : Decided(h) \/ Expires(h)
      BY <2>6
    <3> QED
      BY <1>2, <1>3, <3>1, DecidedFacts DEF Decides
  <2> QED
    BY <1>1, <2>1, <2>2, <2>3, <2>4, <2>5, <2>6
<1>6. SeenFirst'
  BY <1>5, QuietSeen
<1> QED
  BY <1>5, <1>6 DEF Sound, TypeOK

-----------------------------------------------------------------------------
\* The invariant

\* A quiet step spends nothing twice.
LEMMA QuietSpent ==
    ASSUME Sound, SpentOnce, Quiet, ReceiptsKept
    PROVE  SpentOnce'
<1> SUFFICES ASSUME NEW k \in Threads', k.pc = "effect"
             PROVE  /\ receipt'[k.head] = "consumed"
                    /\ \A l \in Threads' : l.pc = "effect" /\ l.head = k.head => l = k
  BY DEF SpentOnce
<1> DEFINE Left(x) == x = [job EXCEPT !.runs = 0] /\ job.head = x.head /\ job.pc = "effect"
                      /\ job \in Threads /\ job'.pc # "effect"
<1>1. ASSUME NEW x \in Threads', x.pc = "effect"
      PROVE  x \in Threads \/ Left(x)
  BY <1>1, QuietThreads
<1>2. receipt'[k.head] = "consumed"
  BY <1>1, ThreadTypes DEF SpentOnce, ReceiptsKept
<1>3. ASSUME NEW l \in Threads', l.pc = "effect", l.head = k.head
      PROVE  l = k
  <2>1. job'.pc # "effect" => k \in stray' /\ l \in stray'
    BY <1>3 DEF Threads
  <2>2. ASSUME NEW x \in Threads, x.pc = "effect", NEW y, Left(y), x.head = y.head, x \in stray',
               Quiet
        PROVE  x = y
    <3>1. x = job
      BY <2>2 DEF SpentOnce
    <3>2. stray' \subseteq Deserted
      BY <2>2, <3>1 DEF Quiet, Threads, Sound
    <3>3. job.runs > 0 /\ Deserted \subseteq StrayStates
      BY <2>2, ThreadTypes, DesertedTypes
    <3> QED
      BY <2>2, <3>1, <3>2, <3>3 DEF StrayStates
  <2>3. k \in Threads /\ l \in Threads => k = l
    BY <1>3 DEF SpentOnce
  <2> QED
    BY <1>1, <1>3, <2>1, <2>2, <2>3
<1> QED
  BY <1>2, <1>3

\* Nor does the step of a thread.
LEMMA JobSpent ==
    ASSUME IInv, NEW j \in Threads, NEW next, JobMoves(j, next)
    PROVE  SpentOnce' /\ PrSound'
<1>1. Threads' = (Threads \ {j}) \cup (IF next.pc \in Working THEN {next} ELSE {})
  BY ThreadsMove DEF IInv, JobMoves
<1>2. j.head \in Heads /\ \A k \in Threads : k.head \in Heads
  BY ThreadTypes DEF IInv
<1>3. next.pc = "effect" => next.head = j.head
  BY EndTypes DEF JobMoves, GoesOnAs, Working
<1>4. \A k \in Threads' : k.pc = "effect" => receipt'[k.head] = "consumed"
  BY <1>1, <1>2, <1>3 DEF IInv, SpentOnce, JobMoves, ReceiptsKept
<1>5. ASSUME NEW k \in Threads \ {j}, k.pc = "effect", next.pc = "effect"
      PROVE  k.head # j.head
  BY <1>5 DEF IInv, SpentOnce, JobMoves
<1>6. ASSUME NEW k \in Threads', NEW l \in Threads', k.pc = "effect", l.pc = "effect",
             l.head = k.head
      PROVE  l = k
  BY <1>1, <1>3, <1>5, <1>6 DEF IInv, SpentOnce
<1>7. PrSound'
  BY DEF IInv, Sound, TypeOK, PrStates, PrSound, JobMoves
<1> QED
  BY <1>4, <1>6, <1>7 DEF SpentOnce

\* The invariant holds at first, and after every step.
LEMMA InvInit == Init => IInv
<1> SUFFICES ASSUME Init
             PROVE  IInv
  OBVIOUS
<1>1. Threads = {}
  BY NoJobTypes DEF Init, Threads, NoJob, Working
<1>2. pr \in PrStates /\ pr.by = "none"
  <2>1. 0 \in 0..MaxPushes /\ FirstHead \in Heads
    BY Limits
  <2> QED
    BY <2>1 DEF Init, PrStates
<1>3. TypeOK
  BY <1>2, FreshTypes, NoGateTypes, NoJobTypes, Limits DEF Init, TypeOK
<1>4. JobSound /\ GateSound
  BY NoGateTypes, NoJobTypes DEF Init, JobSound, GateSound, GateRuns, ChildPCs, Working
<1> QED
  BY <1>1, <1>2, <1>3, <1>4 DEF IInv, Sound, SeenFirst, PrSound, SpentOnce

\* See InvInit; a step is quiet, or a step of one thread.
LEMMA InvStep ==
    ASSUME IInv, [Next]_vars
    PROVE  IInv'
<1>1. CASE QuietSteps
  BY <1>1, QuietFacts, QuietSpent DEF IInv
<1>2. CASE \E j \in Threads : JobStep(j)
  BY <1>2, JobFacts, JobKeeps, JobSpent DEF IInv
<1>3. CASE UNCHANGED vars
  BY <1>3 DEF vars, IInv, Sound, TypeOK, JobSound, GateSound, GateRuns, SeenFirst, Threads,
              PrSound, SpentOnce
<1> QED
  BY <1>1, <1>2, <1>3 DEF Next, QuietSteps

\* So it holds always.
LEMMA Invariant == Spec => []IInv
  BY InvInit, InvStep, PTL DEF Spec

\* Every variable keeps its type, for any set of heads and any limits.
THEOREM TypeCorrect == Spec => []TypeOK
<1>1. IInv => TypeOK
  BY DEF IInv, Sound
<1> QED
  BY <1>1, Invariant, PTL

\* Whoever tries to merge has spent the receipt of the head first, and no other thread
\* tries on the same receipt: not a retry of the activity, and not a thread that ran on
\* after a timeout or a cancel.
THEOREM SpentOnceHolds == Spec => []SpentOnce
<1>1. IInv => SpentOnce
  BY DEF IInv
<1> QED
  BY <1>1, Invariant, PTL

-----------------------------------------------------------------------------
\* The refinement

\* A quiet step decides, or loses permits.
LEMMA QuietImplements ==
    ASSUME IInv, QuietSteps
    PROVE  Approved!Next
<1>1. /\ Sound /\ Quiet /\ UNCHANGED Merged
      /\ UNCHANGED receipt \/ (UNCHANGED <<job, stray>> /\ Decides)
  BY QuietFacts DEF IInv
<1>2. CASE UNCHANGED receipt
  <2>1. ASSUME NEW k \in Threads', k.pc = "effect"
        PROVE  \E l \in Threads : l.pc = "effect" /\ l.head = k.head
    BY <1>1, <2>1, QuietThreads
  <2>2. Permits' \subseteq Permits
    BY <2>1 DEF Permits
  <2>3. Approved!Lose
    BY <1>1, <1>2, <2>2 DEF Approved!Lose, Permits, Merged
  <2> QED
    BY <2>3 DEF Approved!Next
<1>3. CASE Decides
  BY <1>3 DEF Decides, Approved!Next
<1> QED
  BY <1>1, <1>2, <1>3

\* The heads that may be merged after a thread's step.
LEMMA JobPermits ==
    ASSUME IInv, NEW j \in Threads, NEW next, JobMoves(j, next)
    PROVE  /\ j.pc = "effect" =>
                 j.head \in Permits /\ Permits' \in {Permits, Permits \ {j.head}}
           /\ j.pc = "spend" => Permits' \in {Permits, Permits \cup {j.head}}
           /\ j.pc \notin {"spend", "effect"} => Permits' = Permits
<1>1. Threads' = (Threads \ {j}) \cup (IF next.pc \in Working THEN {next} ELSE {})
  BY ThreadsMove DEF IInv, JobMoves
<1>2. next.pc = "effect" => next.head = j.head /\ next.pc \in Working
  BY EndTypes DEF JobMoves, GoesOnAs, Working
<1>3. CASE j.pc = "effect"
  <2>1. \A k \in Threads \ {j} : k.pc = "effect" => k.head # j.head
    BY <1>3 DEF IInv, SpentOnce
  <2>2. CASE next.pc = "effect"
    BY <1>1, <1>2, <1>3, <2>2 DEF Permits
  <2>3. CASE next.pc # "effect"
    BY <1>1, <1>3, <2>1, <2>3 DEF Permits
  <2> QED
    BY <1>3, <2>2, <2>3 DEF Permits
<1>4. CASE j.pc = "spend"
  <2>1. CASE next.pc = "effect"
    BY <1>1, <1>2, <1>4, <2>1 DEF Permits
  <2>2. CASE next.pc # "effect"
    BY <1>1, <1>4, <2>2 DEF Permits
  <2> QED
    BY <1>4, <2>1, <2>2
<1>5. CASE j.pc \notin {"spend", "effect"}
  <2>1. next.pc # "effect"
    BY <1>5 DEF JobMoves
  <2> QED
    BY <1>1, <1>5, <2>1 DEF Permits
<1> QED
  BY <1>3, <1>4, <1>5

\* A thread's step asks, uses up an approval, merges, or loses a permit.
LEMMA JobImplements ==
    ASSUME IInv, NEW j \in Threads, JobStep(j)
    PROVE  Approved!Next
<1>1. PICK next : JobMoves(j, next)
  BY JobFacts DEF IInv
<1>2. j.head \in Heads
  BY ThreadTypes DEF IInv
<1>3. /\ j.pc = "effect" => j.head \in Permits /\ Permits' \in {Permits, Permits \ {j.head}}
      /\ j.pc = "spend" => Permits' \in {Permits, Permits \cup {j.head}}
      /\ j.pc \notin {"spend", "effect"} => Permits' = Permits
  BY <1>1, JobPermits
<1>4. CASE UNCHANGED pr /\ receipt' = receipt
  <2>1. CASE j.pc = "spend" /\ Permits' # Permits
    <3>1. next.pc = "effect"
      BY <1>1, <1>2, <2>1, ThreadsMove DEF JobMoves, IInv, Permits
    <3> QED
      BY <1>1, <1>4, <2>1, <3>1 DEF JobMoves
  <2>2. CASE j.pc # "spend" \/ Permits' = Permits
    <3>1. Permits' \subseteq Permits
      BY <1>3, <2>2
    <3> QED
      BY <1>4, <3>1 DEF Approved!Next, Approved!Lose, Permits
  <2> QED
    BY <2>1, <2>2
<1>5. CASE UNCHANGED pr /\ j.pc = "redeem" /\ receipt[j.head] = "none"
             /\ receipt' = [receipt EXCEPT ![j.head] = "pending"]
  <2>1. Approved!Ask(j.head)
    BY <1>3, <1>5 DEF Approved!Ask, Approved!Moves, Permits
  <2> QED
    BY <1>2, <2>1 DEF Approved!Next
<1>6. CASE UNCHANGED pr /\ j.pc = "spend" /\ receipt[j.head] = "approved"
             /\ receipt' = [receipt EXCEPT ![j.head] = "consumed"]
  <2>1. Approved!Use(j.head)
    BY <1>3, <1>6 DEF Approved!Use, Approved!Moves, Permits
  <2> QED
    BY <1>2, <2>1 DEF Approved!Next
<1>7. CASE /\ j.pc = "effect" /\ receipt' = receipt
           /\ pr.state = "open" /\ pr.head = j.head
           /\ pr' = [pr EXCEPT !.state = "merged", !.by = "gate"]
  <2>1. pr.by # "gate" /\ pr'.by = "gate" /\ pr'.head = j.head
    BY <1>7 DEF IInv, PrSound, Sound, TypeOK, PrStates
  <2>2. Approved!Merge(j.head)
    BY <1>3, <1>7, <2>1 DEF Approved!Merge, Permits
  <2> QED
    BY <1>2, <2>2 DEF Approved!Next
<1> QED
  BY <1>1, <1>4, <1>5, <1>6, <1>7 DEF JobMoves

\* The gate merges a head only by using up a person's approval of that head, and each
\* approval once: run_gated, the gated activity in its threads, and the spend in mctl-api
\* implement ApprovedMerge.
THEOREM MergeIsApprovedHolds == Spec => MergeIsApproved
<1>1. Init => Approved!Init
  <2>1. Init => Threads = {}
    BY NoJobTypes DEF Init, Threads, NoJob, Working
  <2>2. Init => pr.by = "none"
    BY DEF Init
  <2> QED
    BY <2>1, <2>2 DEF Init, Approved!Init
<1>2. ASSUME IInv, [Next]_vars
      PROVE  [Approved!Next]_(Approved!vars)
  <2>1. CASE QuietSteps
    BY <1>2, <2>1, QuietImplements
  <2>2. CASE \E j \in Threads : JobStep(j)
    BY <1>2, <2>2, JobImplements
  <2>3. CASE UNCHANGED vars
    BY <2>3 DEF vars, Approved!vars, Threads
  <2> QED
    BY <1>2, <2>1, <2>2, <2>3 DEF Next, QuietSteps
<1> QED
  BY <1>1, <1>2, Invariant, PTL DEF Spec, MergeIsApproved, Approved!Spec
=============================================================================

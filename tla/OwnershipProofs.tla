--------------------------- MODULE OwnershipProofs ---------------------------
(***************************************************************************)
(* Theorems about Ownership, for any loops, sweeps, limits and troubles.   *)
(***************************************************************************)
EXTENDS Ownership, TLAPS

States == {"none"} \cup HoldingStates \cup FreeStates

Rows == [owner : Owners \cup {NoOne}, epoch : Nat, state : States, dead : BOOLEAN,
         stuck : BOOLEAN, target : Loops \cup {NoOne}, version : 0..MaxHead]

Requests == [state : {"open", "ended"}, head : 1..MaxHead, listed : BOOLEAN]

\* A record as it is told: maybe in a state the client does not know.
Records == [owner : Owners \cup {NoOne}, epoch : Nat, state : States \cup {"newer"},
            dead : BOOLEAN, stuck : BOOLEAN, target : Loops \cup {NoOne}, version : 0..MaxHead]

Verdicts == {"unowned", "unknown", "owned-by-me", "owned-by-other", "wrote-no-record"}

Answers == [verdict : Verdicts, accepted : BOOLEAN, rec : Records]

\* What the calls in flight and the two other writers remember.
CallsType ==
    /\ call \in [Loops -> Answers]
    /\ rec \in [pc : {"idle", "looked", "recover", "complete", "follow"},
                me : Sweeps \cup {NoOne}, live : Loops \cup {NoOne}, terminal : BOOLEAN,
                to : Owners \cup {NoOne}, epoch : Nat, then : {"none", "release", "terminal"}]
    /\ rec.pc # "idle" => rec.me \in Sweeps
    /\ rec.pc \in {"recover", "follow"} => rec.then # "none"
    /\ rec.pc = "complete" => rec.to \in Owners
    /\ shep \in [pc : {"idle", "adoptable", "adopted", "releasing", "done"}, epoch : Nat]

Watches ==
    [pc : LoopPCs, owned : BOOLEAN, epoch : Nat, head : 0..MaxHead, seen : 0..MaxHead,
     beat : 0..HeartbeatEvery - 1, unAcq : 0..UnknownLimit, unPro : 0..UnknownLimit,
     unBeat : 0..HeartbeatLimit - 1, refused : BOOLEAN, wait : 0..BackoffPolls,
     by : Owners \cup {NoOne}, refusals : 0..RefusalLimit, over : BOOLEAN]

\* The watch w of loop l with the answer a on its way, beside the row r.  What it
\* takes for its claim it was granted: the row has gone to a later epoch since, or
\* is still the loop's and has the head that was reported.
Granting(l, w, r) ==
    w.owned => /\ w.epoch <= r.epoch
               /\ w.epoch = r.epoch => r.owner = l /\ r.version >= w.head

\* So will it be when an answer that is a grant, or that takes a report, is read.
Arriving(l, w, a, r) ==
    /\ w.pc \in {"acquiring", "progressing", "beating"} /\ Mine(a) =>
          /\ a.rec.epoch <= r.epoch
          /\ a.rec.epoch = r.epoch => r.owner = l /\ r.version >= w.seen
    /\ w.pc = "progressing" /\ a.accepted /\ w.epoch = r.epoch => r.version >= w.seen

\* Heads are reported as they come, and only of one's own row.
InOrder(w, head) ==
    /\ w.head <= head /\ w.seen <= head
    /\ w.pc \in {"acquiring", "progressing", "beat-due", "beating"} => w.head <= w.seen
    /\ w.pc \in {"progressing", "beat-due", "beating"} => w.owned

Sound(l, w, a, r, head) == Granting(l, w, r) /\ Arriving(l, w, a, r) /\ InOrder(w, head)

IInv == TypeOK /\ CallsType /\ \A l \in Loops : Sound(l, loop[l], call[l], row, pr.head)

Ops == {"acquire", "recover", "complete", "progress", "release", "terminal"}

\* How one write of who moves the row: to a new epoch, or inside the epoch of its
\* owner, and the version only if it is the owner who sends one.
RowMove(new, op, who, version) ==
    /\ new.epoch >= row.epoch
    /\ new.epoch = row.epoch =>
          /\ new.owner = row.owner
          /\ \/ new.version = row.version
             \/ op \in {"acquire", "progress"} /\ row.owner = who /\ new.version = version

\* No record is a row, and a record.
LEMMA NoRecordType == NoRecord \in Rows /\ NoRecord \in Records /\ Rows \subseteq Records
  BY OwnershipLimits DEF NoRecord, Rows, Records, States

\* What a granted write leaves is a row, moved as RowMove says.
LEMMA AfterFacts ==
  ASSUME row \in Rows, NEW op \in Ops, NEW who \in Owners, NEW epoch \in Nat,
         NEW version \in 0..MaxHead, Granted(op, who, epoch)
  PROVE  /\ After(op, who, version) \in Rows
         /\ RowMove(After(op, who, version), op, who, version)
         /\ op \in {"acquire", "progress"} => After(op, who, version).version = version
  <1>1. CASE op = "acquire" /\ row.owner = who /\ row.state = "active"
    <2>1. After(op, who, version) = [row EXCEPT !.dead = FALSE, !.version = version]
      BY <1>1 DEF After
    <2>2. After(op, who, version) \in Rows
      BY <2>1 DEF Rows
    <2>3. /\ After(op, who, version).version = version /\ After(op, who, version).epoch = row.epoch
          /\ After(op, who, version).owner = row.owner
      BY <2>1 DEF Rows
    <2> QED BY <1>1, <2>2, <2>3 DEF RowMove, Rows
  <1>2. CASE op = "acquire" /\ ~(row.owner = who /\ row.state = "active")
    BY <1>2 DEF After, NewGeneration, RowMove, Rows, States, Ops, HoldingStates
  <1>3. CASE op \in {"recover", "complete"}
    BY <1>3 DEF After, NewGeneration, RowMove, Rows, States, Ops, HoldingStates
  <1>4. CASE op = "progress"
    <2>1. After(op, who, version) = [row EXCEPT !.dead = FALSE, !.stuck = FALSE, !.version = version]
      BY <1>4 DEF After
    <2>2. After(op, who, version) \in Rows
      BY <2>1 DEF Rows
    <2>3. /\ After(op, who, version).version = version /\ After(op, who, version).epoch = row.epoch
          /\ After(op, who, version).owner = row.owner
      BY <2>1 DEF Rows
    <2>4. row.owner = who
      BY <1>4 DEF Granted, Held
    <2> QED BY <1>4, <2>2, <2>3, <2>4 DEF RowMove, Rows
  <1>5. CASE op \in {"release", "terminal"}
    <2>1. PICK st \in FreeStates :
             After(op, who, version) = [row EXCEPT !.state = st, !.dead = FALSE, !.stuck = FALSE]
      BY <1>5 DEF After, FreeStates
    <2>2. After(op, who, version) \in Rows
      BY <2>1 DEF Rows, States
    <2>3. /\ After(op, who, version).version = row.version
          /\ After(op, who, version).epoch = row.epoch /\ After(op, who, version).owner = row.owner
      BY <2>1 DEF Rows
    <2> QED BY <1>5, <2>2, <2>3 DEF RowMove, Rows
  <1> QED BY <1>1, <1>2, <1>3, <1>4, <1>5 DEF Ops

\* What one call may leave: a typed row that moved as the operation says, and an
\* answer that says 2xx only of a write that had its effect.
LEMMA ReplyFacts ==
  ASSUME TypeOK, NEW op \in Ops, NEW who \in Owners, NEW epoch \in Nat,
         NEW version \in 0..MaxHead, NEW r \in Replies(op, who, epoch, version)
  PROVE  /\ r.row \in Rows /\ r.resp.rec \in Records
         /\ troubles + r.fault \in 0..MaxTroubles
         /\ RowMove(r.row, op, who, version)
         /\ r.resp.status = "2xx" =>
               /\ r.row = After(op, who, version) /\ Granted(op, who, epoch)
               /\ \/ r.resp.rec = NoRecord
                  \/ r.resp.rec.epoch = r.row.epoch /\ r.resp.rec.owner = r.row.owner
  <1> DEFINE after == After(op, who, version)
  <1>0. row \in Rows /\ troubles \in 0..MaxTroubles /\ MaxTroubles \in Nat
    BY OwnershipLimits DEF TypeOK, Rows, States
  <1>r. RowMove(row, op, who, version)
    BY <1>0 DEF RowMove, Rows
  <1>1. CASE ~Granted(op, who, epoch)
    <2>1. /\ r.row = row /\ r.resp.status \in {"409", "other"}
          /\ r.fault \in {0, 1} /\ (r.fault = 1 => troubles # MaxTroubles)
      BY <1>1 DEF Replies, Told, Garbled, Reply, Fault, Response
    <2>2. r.resp.rec \in {row, NoRecord}
      BY <1>1 DEF Replies, Told, Garbled, Reply, Fault, Response
    <2> QED BY <2>1, <2>2, <1>0, <1>r, NoRecordType
  <1>2. CASE Granted(op, who, epoch)
    <2>0. after \in Rows /\ RowMove(after, op, who, version)
      BY <1>0, <1>2, AfterFacts
    <2> DEFINE told  == [after EXCEPT !.dead = row.dead /\ row.owner = who]
               newer == [after EXCEPT !.state = "newer"]
    <2>1. \A rc \in {told, newer} :
             rc \in Records /\ rc.epoch = after.epoch /\ rc.owner = after.owner
      BY <2>0, <1>0 DEF Rows, Records
    <2>2. /\ r.row \in {row, after} /\ r.resp.status \in {"2xx", "other"}
          /\ r.fault \in {0, 1} /\ (r.fault = 1 => troubles # MaxTroubles)
          /\ r.resp.status = "2xx" => r.row = after
      BY <1>2 DEF Replies, Told, Garbled, Reply, Fault, Response
    <2>3. r.resp.rec \in {after, told, newer, NoRecord}
      BY <1>2 DEF Replies, Told, Garbled, Reply, Fault, Response
    <2> HIDE DEF told, newer, after
    <2> QED BY <2>0, <2>1, <2>2, <2>3, <1>0, <1>r, <1>2, NoRecordType DEF after
  <1> QED BY <1>1, <1>2

\* What a client makes of the answer to its own write.
LEMMA AnswerFacts ==
  ASSUME TypeOK, NEW op \in Ops, NEW who \in Owners, NEW epoch \in Nat,
         NEW version \in 0..MaxHead, NEW r \in Replies(op, who, epoch, version)
  PROVE  LET a == AnswerFrom(op, r.resp, who)
         IN /\ a \in Answers
            /\ a.accepted => r.row = After(op, who, version) /\ Granted(op, who, epoch)
            /\ Mine(a) =>
                  /\ r.row = After(op, who, version) /\ Granted(op, who, epoch)
                  /\ a.rec.epoch = r.row.epoch /\ r.row.owner = who
  <1> DEFINE a == AnswerFrom(op, r.resp, who)
  <1>1. /\ r.resp.rec \in Records
        /\ r.resp.status = "2xx" =>
               /\ r.row = After(op, who, version) /\ Granted(op, who, epoch)
               /\ \/ r.resp.rec = NoRecord
                  \/ r.resp.rec.epoch = r.row.epoch /\ r.resp.rec.owner = r.row.owner
    BY ReplyFacts
  <1>2. a.verdict \in Verdicts
    BY DEF AnswerFrom, Verdict, VerdictFor, Verdicts
  <1>3. a.rec \in {r.resp.rec, NoRecord} /\ (a.accepted <=> Accepted(op, r.resp))
    BY DEF AnswerFrom
  <1>4. a \in Answers
    BY <1>1, <1>2, NoRecordType, Zenon DEF Answers, AnswerFrom, Accepted
  <1>5. a.accepted => r.resp.status = "2xx"
    BY <1>3 DEF Accepted
  <1>6. Mine(a) => r.resp.status = "2xx" /\ a.rec = r.resp.rec /\ a.rec # NoRecord /\ a.rec.owner = who
    BY DEF Mine, AnswerFrom, Verdict, VerdictFor, IsRecord, NoRecord
  <1> QED BY <1>1, <1>4, <1>5, <1>6
-----------------------------------------------------------------------------
\* The type invariant in the terms of this module.
LEMMA TypeParts ==
  TypeOK <=> /\ row \in Rows
             /\ pr \in Requests /\ pr.head \in 1..MaxHead
             /\ loop \in [Loops -> Watches]
             /\ troubles \in 0..MaxTroubles
  BY DEF TypeOK, Rows, States, Watches, Requests

\* Whoever else moves the row, a watch stays sound.
LEMMA RowKeeps ==
  ASSUME NEW l \in Loops, NEW w \in Watches, NEW a \in Answers, NEW old \in Rows, NEW new \in Rows,
         NEW head \in 0..MaxHead, NEW later \in 0..MaxHead,
         Sound(l, w, a, old, head), head <= later,
         new.epoch >= old.epoch,
         new.epoch = old.epoch =>
            new.owner = old.owner /\ (new.version = old.version \/ old.owner # l)
  PROVE  Sound(l, w, a, new, later)
  <1>1. Granting(l, w, new)
    BY OwnershipLimits DEF Sound, Granting, Watches, Rows
  <1>2. InOrder(w, later)
    BY OwnershipLimits DEF Sound, InOrder, Watches
  <1>3. Arriving(l, w, a, new)
    <2>1. ASSUME w.pc \in {"acquiring", "progressing", "beating"}, Mine(a)
          PROVE  /\ a.rec.epoch <= new.epoch
                 /\ a.rec.epoch = new.epoch => new.owner = l /\ new.version >= w.seen
      BY <2>1, OwnershipLimits DEF Sound, Arriving, Watches, Rows, Answers, Records
    <2>2. ASSUME w.pc = "progressing", a.accepted, w.epoch = new.epoch
          PROVE  new.version >= w.seen
      <3>1. w.owned
        BY <2>2 DEF Sound, InOrder
      <3>2. old.epoch = new.epoch /\ old.owner = l
        BY <2>2, <3>1 DEF Sound, Granting, Watches, Rows
      <3> QED BY <2>2, <3>2 DEF Sound, Arriving
    <2> QED BY <2>1, <2>2 DEF Arriving
  <1> QED BY <1>1, <1>2, <1>3 DEF Sound
\* A step of loop l that ends in the watch w without a call on its way.
LEMMA WatchStep ==
  ASSUME IInv, NEW l \in Loops, NEW w \in Watches, Set(l, w),
         UNCHANGED <<row, pr, rec, shep>>, troubles' \in 0..MaxTroubles,
         call' \in [Loops -> Answers], \A m \in Loops \ {l} : call'[m] = call[m],
         w.pc \notin {"acquiring", "progressing", "beating"},
         Granting(l, w, row), InOrder(w, pr.head)
  PROVE  IInv'
  <1>1. loop' \in [Loops -> Watches] /\ loop'[l] = w /\ \A m \in Loops \ {l} : loop'[m] = loop[m]
    BY TypeParts DEF IInv, Set
  <1>2. TypeOK'
    BY <1>1, TypeParts DEF IInv, TypeOK, Rows, States, Watches
  <1>3. CallsType'
    BY DEF IInv, CallsType
  <1>4. Sound(l, w, call'[l], row, pr.head)
    BY DEF Sound, Arriving
  <1>5. \A m \in Loops : Sound(m, loop'[m], call'[m], row', pr'.head)
    BY <1>1, <1>4 DEF IInv
  <1> QED BY <1>2, <1>3, <1>5 DEF IInv

\* The answer that was read is an answer.
LEMMA NoAnswerType == NoAnswer \in Answers
  <1>1. NoRecord \in Records
    BY NoRecordType
  <1>2. NoAnswer.verdict \in Verdicts /\ NoAnswer.accepted = FALSE /\ NoAnswer.rec = NoRecord
    BY DEF NoAnswer, AnswerFrom, Response, Verdict, Accepted, Verdicts
  <1> QED BY <1>1, <1>2, Zenon DEF NoAnswer, AnswerFrom, Answers, Response, Accepted, Verdict,
                                  Verdicts

\* So is one that reads an answer, or that does without.
LEMMA QuietStep ==
  ASSUME IInv, NEW l \in Loops, NEW w \in Watches, Moves(l, w) \/ Answered(l, w),
         w.pc \notin {"acquiring", "progressing", "beating"},
         Granting(l, w, row), InOrder(w, pr.head)
  PROVE  IInv'
  <1>1. call' \in [Loops -> Answers] /\ \A m \in Loops \ {l} : call'[m] = call[m]
    BY NoAnswerType DEF Moves, Answered, IInv, CallsType
  <1>2. Set(l, w) /\ UNCHANGED <<row, pr, rec, shep>> /\ troubles' \in 0..MaxTroubles
    BY TypeParts DEF Moves, Answered, IInv
  <1> QED BY <1>1, <1>2, WatchStep

\* A step of loop l that sends a write, with its effect.
LEMMA CallStep ==
  ASSUME IInv, NEW l \in Loops, NEW w \in Watches, NEW op \in {"acquire", "progress", "release", "terminal"},
         NEW pc \in LoopPCs, Calls(l, w, op, pc),
         pc \in {"acquiring", "progressing", "beating"} <=> op \in {"acquire", "progress"},
         pc = "progressing" <=> op = "progress",
         Granting(l, w, row), InOrder([w EXCEPT !.pc = pc], pr.head)
  PROVE  IInv'
  <1> DEFINE v == [w EXCEPT !.pc = pc]
  <1>0. PICK r \in Replies(op, l, w.epoch, w.seen) :
           /\ row' = r.row /\ troubles' = troubles + r.fault
           /\ call' = [call EXCEPT ![l] = AnswerFrom(op, r.resp, l)]
           /\ loop' = [loop EXCEPT ![l] = v]
           /\ UNCHANGED <<pr, rec, shep>>
    BY DEF Calls, Happens, Set
  <1>1. l \in Owners /\ op \in Ops /\ w.epoch \in Nat /\ w.seen \in 0..MaxHead /\ TypeOK
    BY DEF IInv, Owners, Ops, Watches
  <1> DEFINE a == AnswerFrom(op, r.resp, l)
  <1>2. /\ row' \in Rows /\ troubles' \in 0..MaxTroubles /\ RowMove(row', op, l, w.seen)
    BY <1>0, <1>1, ReplyFacts
  <1>3. /\ a \in Answers
        /\ a.accepted => row' = After(op, l, w.seen) /\ Granted(op, l, w.epoch)
        /\ Mine(a) => /\ row' = After(op, l, w.seen) /\ Granted(op, l, w.epoch)
                      /\ a.rec.epoch = row'.epoch /\ row'.owner = l
    BY <1>0, <1>1, AnswerFacts
  <1> HIDE DEF a
  <1>4. /\ v \in Watches /\ v.pc = pc /\ v.owned = w.owned /\ v.epoch = w.epoch /\ v.seen = w.seen
        /\ v.head = w.head
    BY DEF Watches
  <1> HIDE DEF v
  <1>5. loop' \in [Loops -> Watches] /\ loop'[l] = v /\ \A m \in Loops \ {l} : loop'[m] = loop[m]
    BY <1>0, <1>4, TypeParts DEF IInv
  <1>6. call' \in [Loops -> Answers] /\ call'[l] = a /\ \A m \in Loops \ {l} : call'[m] = call[m]
    BY <1>0, <1>3 DEF IInv, CallsType, a
  <1>7. TypeOK' /\ CallsType'
    BY <1>0, <1>2, <1>5, <1>6, TypeParts DEF IInv, CallsType, TypeOK, Rows, States, Watches
  <1>8. Sound(l, v, a, row', pr.head)
    <2>0. row \in Rows /\ row' \in Rows
      BY <1>2, TypeParts DEF IInv
    <2>1. op \in {"acquire", "progress"} => v.head <= v.seen
      BY DEF InOrder, v
    <2>2. op \in {"acquire", "progress"} /\ row' = After(op, l, w.seen) /\ Granted(op, l, w.epoch)
            => row'.version = v.seen
      BY <1>1, <1>4, <2>0, AfterFacts
    <2>3. Granting(l, v, row')
      BY <1>1, <1>2, <1>4, <2>0, <2>1 DEF Granting, RowMove, Rows, Watches
    <2>4. Arriving(l, v, a, row')
      BY <1>3, <1>4, <2>0, <2>2 DEF Arriving, Rows, Watches, Answers, Records
    <2> QED BY <2>3, <2>4 DEF Sound, v
  <1>9. ASSUME NEW m \in Loops \ {l}
        PROVE  Sound(m, loop'[m], call'[m], row', pr'.head)
    <2>1. row'.epoch >= row.epoch
          /\ (row'.epoch = row.epoch =>
                row'.owner = row.owner /\ (row'.version = row.version \/ row.owner # m))
      BY <1>2 DEF RowMove
    <2>2. /\ loop[m] \in Watches /\ call[m] \in Answers /\ row \in Rows
          /\ pr.head \in 0..MaxHead /\ pr.head <= pr.head
          /\ Sound(m, loop[m], call[m], row, pr.head)
      BY TypeParts, OwnershipLimits DEF IInv, CallsType
    <2>3. Sound(m, loop[m], call[m], row', pr.head)
      BY <1>2, <2>1, <2>2, RowKeeps
    <2> QED BY <1>0, <1>5, <1>6, <2>3
  <1> QED BY <1>0, <1>5, <1>6, <1>7, <1>8, <1>9 DEF IInv

-----------------------------------------------------------------------------
(* What a watch becomes.                                                    *)

\* The claim of w, for the comparison of one watch with another.
SameClaim(v, w) == v.owned = w.owned /\ v.epoch = w.epoch /\ v.head = w.head /\ v.seen = w.seen

\* The limits, as single facts for the provers.
LEMMA Limits ==
  /\ HeartbeatEvery \in Nat /\ UnknownLimit \in Nat /\ HeartbeatLimit \in Nat
  /\ BackoffPolls \in Nat /\ RefusalLimit \in Nat /\ MaxHead \in Nat
  /\ 0 < HeartbeatEvery /\ 0 < UnknownLimit /\ 0 < HeartbeatLimit /\ 0 < BackoffPolls
  /\ 0 < RefusalLimit /\ 0 < MaxHead
  BY OwnershipLimits

\* Counters stay in their ranges.
LEMMA Ranges ==
  /\ 0 \in 0..MaxHead /\ 0 \in 0..HeartbeatEvery - 1 /\ 0 \in 0..UnknownLimit
  /\ 0 \in 0..HeartbeatLimit - 1 /\ 0 \in 0..BackoffPolls /\ BackoffPolls \in 0..BackoffPolls
  /\ 0 \in 0..RefusalLimit /\ 1 \in 0..RefusalLimit /\ 0 \in Nat
  /\ \A n \in 0..RefusalLimit : Least(n + 1, RefusalLimit) \in 0..RefusalLimit
  /\ \A n \in 0..UnknownLimit : Least(n + 1, UnknownLimit) \in 0..UnknownLimit
  /\ \A n \in 0..HeartbeatEvery - 1 : (n + 1) % HeartbeatEvery \in 0..HeartbeatEvery - 1
  /\ \A n \in 0..BackoffPolls : (IF n > 0 THEN n - 1 ELSE 0) \in 0..BackoffPolls
  BY Limits DEF Least

\* A watch that begins, and one that is gone, hold nothing.
LEMMA NewWatches ==
  Fresh \in Watches /\ Gone \in Watches /\ ~Fresh.owned /\ ~Gone.owned /\ Gone.pc = "gone"
  /\ Gone.head = 0 /\ Gone.seen = 0 /\ Fresh.head = 0 /\ Fresh.seen = 0 /\ Fresh.pc = "poll"
  <1>1. Fresh \in Watches
    BY Ranges DEF Fresh, Watches, LoopPCs
  <1>2. Gone \in Watches
    BY <1>1 DEF Gone, Watches, LoopPCs
  <1> QED BY <1>1, <1>2 DEF Fresh, Gone

\* What the updates of a claim do to it: a refusal leaves it alone, the others
\* drop it or advance its head (DropClaim, LoseClaim, Advance).
LEMMA ClaimOps ==
  ASSUME NEW w \in Watches, NEW owner \in Owners \cup {NoOne}
  PROVE  /\ Refused(w, owner) \in Watches /\ SameClaim(Refused(w, owner), w)
         /\ ForgetRefusal(w) \in Watches /\ SameClaim(ForgetRefusal(w), w)
         /\ DropClaim(w) \in Watches /\ ~DropClaim(w).owned /\ DropClaim(w).head = 0
         /\ DropClaim(w).seen = w.seen
         /\ LoseClaim(w, owner) \in Watches /\ ~LoseClaim(w, owner).owned
         /\ LoseClaim(w, owner).head = 0 /\ LoseClaim(w, owner).seen = w.seen
         /\ Advance(w) \in Watches /\ Advance(w).head = w.seen /\ Advance(w).seen = w.seen
         /\ Advance(w).owned = w.owned /\ Advance(w).epoch = w.epoch /\ Advance(w).pc = w.pc
  <1>1. ASSUME NEW x \in Watches
        PROVE  Refused(x, owner) \in Watches /\ SameClaim(Refused(x, owner), x)
    <2>1. PICK n \in 0..RefusalLimit :
             Refused(x, owner) =
                [x EXCEPT !.refused = TRUE, !.wait = BackoffPolls, !.by = owner, !.refusals = n]
      BY Ranges DEF Refused, Watches
    <2>2. Refused(x, owner) \in Watches
      BY <2>1, Ranges DEF Watches
    <2>3. SameClaim(Refused(x, owner), x)
      BY <2>1 DEF Watches, SameClaim
    <2> QED BY <2>2, <2>3
  <1>2. ForgetRefusal(w) \in Watches /\ SameClaim(ForgetRefusal(w), w)
    <2>1. ForgetRefusal(w) \in Watches
      BY Ranges DEF ForgetRefusal, Watches
    <2>2. SameClaim(ForgetRefusal(w), w)
      BY DEF ForgetRefusal, Watches, SameClaim
    <2> QED BY <2>1, <2>2
  <1>3. /\ DropClaim(w) \in Watches /\ ~DropClaim(w).owned /\ DropClaim(w).head = 0
        /\ DropClaim(w).seen = w.seen
    <2>1. DropClaim(w) \in Watches
      BY Ranges DEF DropClaim, Watches
    <2> QED BY <2>1 DEF DropClaim, Watches
  <1>4. /\ LoseClaim(w, owner) \in Watches /\ ~LoseClaim(w, owner).owned
        /\ LoseClaim(w, owner).head = 0 /\ LoseClaim(w, owner).seen = w.seen
    BY <1>1, <1>3 DEF LoseClaim, SameClaim
  <1>5. /\ Advance(w) \in Watches /\ Advance(w).head = w.seen /\ Advance(w).seen = w.seen
        /\ Advance(w).owned = w.owned /\ Advance(w).epoch = w.epoch /\ Advance(w).pc = w.pc
    <2>1. Advance(w) \in Watches
      BY Ranges DEF Advance, Watches
    <2> QED BY <2>1 DEF Advance, Watches
  <1> QED BY <1>1, <1>2, <1>3, <1>4, <1>5

\* A poll sees the head and leaves the claim alone.
LEMMA PolledFacts ==
  ASSUME TypeOK, NEW w \in Watches
  PROVE  /\ Polled(w) \in Watches /\ Polled(w).seen = pr.head
         /\ Polled(w).owned = w.owned /\ Polled(w).epoch = w.epoch /\ Polled(w).head = w.head
         /\ Polled(w).pc = w.pc
  <1>1. pr.head \in 0..MaxHead
    BY TypeParts, Limits
  <1>2. PICK b \in 0..HeartbeatEvery - 1, t \in 0..BackoffPolls, o \in BOOLEAN :
           Polled(w) = [w EXCEPT !.seen = pr.head, !.over = o, !.beat = b, !.wait = t]
    <2>1. (w.beat + 1) % HeartbeatEvery \in 0..HeartbeatEvery - 1
          /\ (IF w.wait > 0 THEN w.wait - 1 ELSE 0) \in 0..BackoffPolls
      BY Ranges DEF Watches
    <2> QED BY <2>1 DEF Polled
  <1>3. Polled(w) \in Watches
    BY <1>1, <1>2 DEF Watches
  <1> QED BY <1>2, <1>3 DEF Watches

\* The end of a poll is sound if the watch was.
LEMMA TrackedFacts ==
  ASSUME NEW l \in Loops, NEW w \in Watches, NEW r \in Rows, NEW head \in 0..MaxHead,
         Granting(l, w, r), w.head <= head, w.seen <= head
  PROVE  /\ Tracked(w) \in Watches /\ Granting(l, Tracked(w), r) /\ InOrder(Tracked(w), head)
         /\ Tracked(w).pc \notin {"acquiring", "progressing", "beating"}
  <1>1. CASE ~w.over
    <2>1. Tracked(w) = [w EXCEPT !.seen = 0, !.pc = "poll"]
      BY <1>1 DEF Tracked
    <2>2. Tracked(w) \in Watches
      BY <2>1, Ranges DEF Watches, LoopPCs
    <2> QED BY <2>1, <2>2, Limits DEF Watches, Granting, InOrder
  <1>2. CASE w.over /\ w.owned
    <2>1. Tracked(w) = [w EXCEPT !.pc = "over"]
      BY <1>2 DEF Tracked
    <2>2. Tracked(w) \in Watches
      BY <2>1, Ranges DEF Watches, LoopPCs
    <2> QED BY <2>1, <2>2, Limits DEF Watches, Granting, InOrder
  <1>3. CASE w.over /\ ~w.owned
    <2>1. Tracked(w) = Gone
      BY <1>3 DEF Tracked
    <2> QED BY <2>1, NewWatches, Limits DEF Watches, Granting, InOrder
  <1> QED BY <1>1, <1>2, <1>3

-----------------------------------------------------------------------------
(* What an answer makes of a watch.                                         *)

\* A watch that goes on from w with a claim it was granted, at the row r.
Goes(l, v, w, r) ==
    v \in Watches /\ Granting(l, v, r) /\ v.seen = w.seen /\ v.head <= w.seen

\* The answer to an acquire leaves a claim that was granted (_track_ownership).
LEMMA OnAcquireFacts ==
  ASSUME NEW l \in Loops, NEW w \in Watches, NEW a \in Answers, NEW r \in Rows, NEW head,
         Sound(l, w, a, r, head), w.pc = "acquiring"
  PROVE  Goes(l, OnAcquire(l, w, a), w, r)
  <1>0. w.head <= w.seen /\ w.seen \in 0..MaxHead /\ a.rec.owner \in Owners \cup {NoOne}
    BY DEF Sound, InOrder, Watches, Answers, Records
  <1>1. CASE Mine(a)
    <2> DEFINE v == [w EXCEPT !.owned = TRUE, !.epoch = a.rec.epoch, !.head = w.seen, !.unAcq = 0]
    <2>1. OnAcquire(l, w, a) = ForgetRefusal(v)
      BY <1>1 DEF OnAcquire
    <2>2. v \in Watches
      BY Ranges DEF Watches, Answers, Records
    <2>3. v.owned /\ v.epoch = a.rec.epoch /\ v.head = w.seen /\ v.seen = w.seen
      BY DEF Watches
    <2>4. Granting(l, v, r)
      BY <1>1, <2>3 DEF Sound, Arriving, Granting
    <2> HIDE DEF v
    <2>5. SameClaim(ForgetRefusal(v), v) /\ ForgetRefusal(v) \in Watches
      BY <2>2, ClaimOps
    <2> QED BY <1>0, <2>1, <2>3, <2>4, <2>5 DEF Goes, SameClaim, Granting
  <1>2. CASE ~Mine(a) /\ Lost(l, a)
    <2>1. OnAcquire(l, w, a) = Refused(w, a.rec.owner)
      BY <1>2 DEF OnAcquire
    <2> QED BY <1>0, <2>1, ClaimOps DEF Goes, SameClaim, Granting, Sound
  <1>3. CASE ~Mine(a) /\ ~Lost(l, a)
    <2>1. PICK n \in 0..UnknownLimit : OnAcquire(l, w, a) = [w EXCEPT !.unAcq = n]
      BY <1>3, Ranges DEF OnAcquire, Watches
    <2> QED BY <1>0, <2>1 DEF Goes, Granting, Sound, Watches
  <1> QED BY <1>1, <1>2, <1>3

\* So does the answer to a report of a head.
LEMMA OnProgressFacts ==
  ASSUME NEW l \in Loops, NEW w \in Watches, NEW a \in Answers, NEW r \in Rows,
         NEW head \in 0..MaxHead, Sound(l, w, a, r, head), w.pc = "progressing"
  PROVE  LET v == OnProgress(l, w, a)
         IN /\ v \in Watches /\ Granting(l, v, r) /\ InOrder(v, head)
            /\ v.pc \notin {"acquiring", "progressing", "beating"}
  <1> DEFINE v == OnProgress(l, w, a)
  <1>0. /\ w.head <= w.seen /\ w.seen <= head /\ w.seen \in 0..MaxHead /\ w.owned
        /\ a.rec.owner \in Owners \cup {NoOne}
    BY DEF Sound, InOrder, Watches, Answers, Records
  <1>a. Advance(w) \in Watches /\ Advance(w).head = w.seen /\ Advance(w).seen = w.seen
        /\ Advance(w).owned = w.owned /\ Advance(w).epoch = w.epoch
    BY ClaimOps
  <1>1. CASE Mine(a)
    <2> DEFINE u == [Advance(w) EXCEPT !.epoch = a.rec.epoch]
    <2>1. v = Tracked(u)
      BY <1>1 DEF OnProgress, Mine, Bare, Lost
    <2>2. /\ u \in Watches /\ u.epoch = a.rec.epoch /\ u.head = w.seen /\ u.seen = w.seen
          /\ u.owned = w.owned
      BY <1>a DEF Watches, Answers, Records
    <2> HIDE DEF u
    <2>3. Granting(l, u, r)
      BY <1>1, <2>2 DEF Sound, Arriving, Granting
    <2> QED BY <1>0, <2>1, <2>2, <2>3, TrackedFacts
  <1>2. CASE v = Tracked(Advance(w)) /\ a.accepted
    <2>1. Granting(l, Advance(w), r)
      BY <1>2, <1>a DEF Sound, Arriving, Granting
    <2> QED BY <1>0, <1>2, <1>a, <2>1, TrackedFacts
  <1>3. CASE v = Tracked(LoseClaim(w, a.rec.owner))
    <2>1. /\ LoseClaim(w, a.rec.owner) \in Watches /\ ~LoseClaim(w, a.rec.owner).owned
          /\ LoseClaim(w, a.rec.owner).head = 0 /\ LoseClaim(w, a.rec.owner).seen = w.seen
      BY <1>0, ClaimOps
    <2> QED BY <1>0, <1>3, <2>1, TrackedFacts DEF Granting
  <1>4. ASSUME NEW n \in 0..UnknownLimit,
               v = [w EXCEPT !.unPro = n, !.pc = "beat-due"]
                  \/ v = Tracked([w EXCEPT !.unPro = n])
        PROVE  /\ v \in Watches /\ Granting(l, v, r) /\ InOrder(v, head)
               /\ v.pc \notin {"acquiring", "progressing", "beating"}
    <2>1. CASE v = [w EXCEPT !.unPro = n, !.pc = "beat-due"]
      <3>1. v \in Watches
        BY <2>1 DEF Watches, LoopPCs
      <3>2. SameClaim(v, w) /\ v.pc = "beat-due"
        BY <2>1 DEF Watches, SameClaim
      <3> QED BY <1>0, <3>1, <3>2 DEF SameClaim, Granting, InOrder, Sound
    <2>2. CASE v = Tracked([w EXCEPT !.unPro = n])
      <3> DEFINE u == [w EXCEPT !.unPro = n]
      <3>1. u \in Watches /\ SameClaim(u, w)
        BY DEF Watches, SameClaim
      <3>2. v = Tracked(u)
        BY <2>2 DEF u
      <3> HIDE DEF u, v
      <3>3. u \in Watches /\ Granting(l, u, r) /\ u.head <= head /\ u.seen <= head
        BY <1>0, <3>1 DEF SameClaim, Granting, InOrder, Sound
      <3> QED BY <3>2, <3>3, TrackedFacts
    <2> QED BY <1>4, <2>1, <2>2
  <1>5. \/ Mine(a)
        \/ v = Tracked(Advance(w)) /\ a.accepted
        \/ v = Tracked(LoseClaim(w, a.rec.owner))
        \/ \E n \in 0..UnknownLimit : \/ v = [w EXCEPT !.unPro = n, !.pc = "beat-due"]
                                      \/ v = Tracked([w EXCEPT !.unPro = n])
    <2> DEFINE n == Least(w.unPro + 1, UnknownLimit)
               u == [w EXCEPT !.unPro = n]
    <2>1. n \in 0..UnknownLimit
      BY Ranges DEF Watches
    <2>2. \/ Mine(a)
          \/ v = Tracked(Advance(w)) /\ a.accepted
          \/ v = Tracked(LoseClaim(w, a.rec.owner))
          \/ v = [u EXCEPT !.pc = "beat-due"]
          \/ v = Tracked(u)
      BY DEF OnProgress, Bare
    <2>3. [u EXCEPT !.pc = "beat-due"] = [w EXCEPT !.unPro = n, !.pc = "beat-due"]
      OBVIOUS
    <2> QED BY <2>1, <2>2, <2>3
  <1> QED BY <1>1, <1>2, <1>3, <1>4, <1>5

\* So does the answer to a heartbeat.
LEMMA OnHeartbeatFacts ==
  ASSUME NEW l \in Loops, NEW w \in Watches, NEW a \in Answers, NEW r \in Rows, NEW head,
         Sound(l, w, a, r, head), w.pc = "beating"
  PROVE  Goes(l, OnHeartbeat(l, w, a), w, r)
  <1> DEFINE v == OnHeartbeat(l, w, a)
  <1>0. /\ w.head <= w.seen /\ w.seen \in 0..MaxHead /\ a.rec.owner \in Owners \cup {NoOne}
        /\ w.owned /\ Granting(l, w, r)
    BY DEF Sound, InOrder, Watches, Answers, Records
  <1>z. 0 \in 0..HeartbeatLimit - 1 /\ 0 <= w.seen
    BY <1>0, Ranges
  <1>d. /\ [DropClaim(w) EXCEPT !.unBeat = 0] \in Watches
        /\ ~[DropClaim(w) EXCEPT !.unBeat = 0].owned
        /\ [DropClaim(w) EXCEPT !.unBeat = 0].head = 0
        /\ [DropClaim(w) EXCEPT !.unBeat = 0].seen = w.seen
    <2> DEFINE d == DropClaim(w)
               z == [d EXCEPT !.unBeat = 0]
    <2>1. d \in Watches /\ ~d.owned /\ d.head = 0 /\ d.seen = w.seen
      BY ClaimOps
    <2> HIDE DEF d
    <2>2. z \in Watches /\ z.owned = d.owned /\ z.head = d.head /\ z.seen = d.seen
      BY <2>1, <1>z DEF Watches
    <2> QED BY <2>1, <2>2 DEF d
  <1>1. CASE Mine(a)
    <2>1. v = [w EXCEPT !.epoch = a.rec.epoch, !.unBeat = 0]
      BY <1>1 DEF OnHeartbeat, Mine, Lost
    <2>2. v \in Watches
      BY <2>1, <1>z DEF Watches, Answers, Records
    <2>3. v.epoch = a.rec.epoch /\ v.owned = w.owned /\ v.head = w.head /\ v.seen = w.seen
      BY <2>1 DEF Watches
    <2>4. r.epoch \in Nat /\ r.version \in 0..MaxHead /\ v.head \in 0..MaxHead
      BY <2>2 DEF Rows, Watches
    <2>5. Granting(l, v, r)
      BY <1>0, <1>1, <2>3, <2>4 DEF Sound, Arriving, Granting
    <2> QED BY <1>0, <2>2, <2>3, <2>5 DEF Goes
  <1>2. CASE v = LoseClaim(w, a.rec.owner)
    <2>1. /\ LoseClaim(w, a.rec.owner) \in Watches /\ ~LoseClaim(w, a.rec.owner).owned
          /\ LoseClaim(w, a.rec.owner).head = 0 /\ LoseClaim(w, a.rec.owner).seen = w.seen
      BY <1>0, ClaimOps
    <2> HIDE DEF v
    <2>2. Goes(l, v, w, r)
      BY <1>z, <1>2, <2>1 DEF Goes, Granting
    <2> QED BY <2>2 DEF v
  <1>3. CASE v = [DropClaim(w) EXCEPT !.unBeat = 0]
    BY <1>0, <1>z, <1>3, <1>d DEF Goes, Granting
  <1>4. ASSUME NEW n \in 0..HeartbeatLimit - 1, v = [w EXCEPT !.unBeat = n]
        PROVE  Goes(l, v, w, r)
    <2>1. v \in Watches
      BY <1>4 DEF Watches
    <2>2. SameClaim(v, w)
      BY <1>4 DEF Watches, SameClaim
    <2> QED BY <1>0, <2>1, <2>2 DEF Goes, SameClaim, Granting
  <1>5. CASE v = GiveUpIfUnanswered([w EXCEPT !.unBeat = w.unBeat + 1])
    <2> DEFINE u == [w EXCEPT !.unBeat = w.unBeat + 1]
    <2>0. w.unBeat \in 0..HeartbeatLimit - 1 /\ u.unBeat = w.unBeat + 1
      BY DEF Watches
    <2>1. CASE w.unBeat + 1 < HeartbeatLimit
      <3>1. w.unBeat + 1 \in 0..HeartbeatLimit - 1
        BY <2>0, <2>1, Limits
      <3>2. v = u
        BY <1>5, <2>0, <2>1, Limits DEF GiveUpIfUnanswered
      <3> QED BY <1>4, <3>1, <3>2
    <2>2. CASE ~(w.unBeat + 1 < HeartbeatLimit)
      <3>1. v = [DropClaim(u) EXCEPT !.unBeat = 0]
        BY <1>5, <2>0, <2>2, Limits DEF GiveUpIfUnanswered
      <3>2. [DropClaim(u) EXCEPT !.unBeat = 0] = [DropClaim(w) EXCEPT !.unBeat = 0]
        BY DEF DropClaim, Watches
      <3> QED BY <1>3, <3>1, <3>2
    <2> QED BY <2>1, <2>2
  <1>6. \/ Mine(a)
        \/ v = LoseClaim(w, a.rec.owner)
        \/ v = [DropClaim(w) EXCEPT !.unBeat = 0]
        \/ v = [w EXCEPT !.unBeat = 0]
        \/ v = GiveUpIfUnanswered([w EXCEPT !.unBeat = w.unBeat + 1])
    BY DEF OnHeartbeat
  <1> HIDE DEF v
  <1>7. v = [w EXCEPT !.unBeat = 0] => Goes(l, v, w, r)
    BY <1>4, <1>z
  <1> QED BY <1>1, <1>2, <1>3, <1>5, <1>6, <1>7 DEF v

-----------------------------------------------------------------------------
(* The steps of a watch.                                                    *)

\* What holds of one loop while the invariant does, before and after it polls.
LEMMA StandFacts ==
  ASSUME IInv, NEW l \in Loops
  PROVE  LET w == Polled(loop[l])
         IN /\ loop[l] \in Watches /\ call[l] \in Answers /\ row \in Rows
            /\ pr.head \in 0..MaxHead
            /\ Sound(l, loop[l], call[l], row, pr.head)
            /\ w \in Watches /\ w.seen = pr.head /\ w.head <= pr.head /\ w.pc = loop[l].pc
            /\ w.owned = loop[l].owned
            /\ Granting(l, w, row)
            /\ Tracked(w) \in Watches /\ Granting(l, Tracked(w), row) /\ InOrder(Tracked(w), pr.head)
            /\ Tracked(w).pc \notin {"acquiring", "progressing", "beating"}
  <1> DEFINE w == Polled(loop[l])
  <1>1. /\ loop[l] \in Watches /\ call[l] \in Answers /\ row \in Rows /\ TypeOK
        /\ pr.head \in 0..MaxHead
        /\ Sound(l, loop[l], call[l], row, pr.head)
    BY TypeParts, Limits DEF IInv, CallsType
  <1>2. /\ w \in Watches /\ w.seen = pr.head /\ w.pc = loop[l].pc
        /\ w.owned = loop[l].owned /\ w.epoch = loop[l].epoch /\ w.head = loop[l].head
    BY <1>1, PolledFacts
  <1> HIDE DEF w
  <1>3. Granting(l, w, row) /\ w.head <= pr.head /\ w.seen <= pr.head
    BY <1>1, <1>2 DEF Sound, Granting, InOrder
  <1>4. /\ Tracked(w) \in Watches /\ Granting(l, Tracked(w), row) /\ InOrder(Tracked(w), pr.head)
        /\ Tracked(w).pc \notin {"acquiring", "progressing", "beating"}
    BY <1>1, <1>2, <1>3, TrackedFacts
  <1> QED BY <1>1, <1>2, <1>3, <1>4 DEF w

\* The watch w may call at pc.
LEMMA MayCall ==
  ASSUME NEW w \in Watches, NEW pc \in LoopPCs, NEW head,
         w.head <= head, w.seen <= head,
         pc \in {"acquiring", "progressing", "beat-due", "beating"} => w.head <= w.seen,
         pc \in {"progressing", "beat-due", "beating"} => w.owned
  PROVE  InOrder([w EXCEPT !.pc = pc], head)
  <1> DEFINE v == [w EXCEPT !.pc = pc]
  <1>1. v.pc = pc /\ v.head = w.head /\ v.seen = w.seen /\ v.owned = w.owned
    BY DEF Watches
  <1> HIDE DEF v
  <1>2. InOrder(v, head)
    BY <1>1 DEF InOrder
  <1> QED BY <1>2 DEF v

\* A poll that ends without a call of its own.
LEMMA AfterAnswer ==
  ASSUME IInv, NEW l \in Loops, NEW w \in Watches, Goes(l, w, loop[l], row),
         Answered(l, Tracked(w))
  PROVE  IInv'
  <1>1. /\ row \in Rows /\ pr.head \in 0..MaxHead /\ loop[l].seen <= pr.head
        /\ loop[l].seen \in 0..MaxHead
    BY StandFacts DEF Sound, InOrder, Watches
  <1>2. w.head <= pr.head /\ w.seen <= pr.head /\ Granting(l, w, row) /\ w.head \in 0..MaxHead
    BY <1>1 DEF Goes, Watches
  <1>3. /\ Tracked(w) \in Watches /\ Granting(l, Tracked(w), row) /\ InOrder(Tracked(w), pr.head)
        /\ Tracked(w).pc \notin {"acquiring", "progressing", "beating"}
    BY <1>1, <1>2, TrackedFacts
  <1> QED BY <1>3, QuietStep

\* A watch that is left keeps its claim for the finally block, or is gone.
LEMMA LeavingFacts ==
  ASSUME NEW l \in Loops, NEW w \in Watches, NEW r \in Rows, NEW head \in 0..MaxHead,
         Granting(l, w, r), w.head <= head, w.seen <= head
  PROVE  /\ Leaving(w) \in Watches /\ Granting(l, Leaving(w), r) /\ InOrder(Leaving(w), head)
         /\ Leaving(w).pc \notin {"acquiring", "progressing", "beating"}
  <1>1. CASE w.owned
    <2>1. Leaving(w) = [w EXCEPT !.pc = "leaving"]
      BY <1>1 DEF Leaving
    <2>2. Leaving(w) \in Watches
      BY <2>1 DEF Watches, LoopPCs
    <2>3. SameClaim(Leaving(w), w) /\ Leaving(w).pc = "leaving"
      BY <2>1 DEF SameClaim, Watches
    <2> QED BY <2>2, <2>3 DEF SameClaim, Granting, InOrder
  <1>2. CASE ~w.owned
    <2>1. Leaving(w) = Gone
      BY <1>2 DEF Leaving
    <2> QED BY <2>1, NewWatches, Limits DEF Granting, InOrder
  <1> QED BY <1>1, <1>2

\* A relinquishing write ends a claim or leaves it as it is.
LEMMA FinishFacts ==
  ASSUME NEW l \in Loops, NEW w \in Watches, NEW a \in Answers, NEW r \in Rows, Granting(l, w, r)
  PROVE  /\ FinishClaim(w, a) \in Watches /\ Granting(l, FinishClaim(w, a), r)
         /\ FinishClaim(w, a).head = w.head /\ FinishClaim(w, a).seen = w.seen
  <1>1. CASE a.accepted
    <2>1. FinishClaim(w, a) = [w EXCEPT !.owned = FALSE, !.epoch = 0]
      BY <1>1 DEF FinishClaim
    <2>2. FinishClaim(w, a) \in Watches
      BY <2>1, Ranges DEF Watches
    <2>3. /\ ~FinishClaim(w, a).owned
          /\ FinishClaim(w, a).head = w.head /\ FinishClaim(w, a).seen = w.seen
      BY <2>1 DEF Watches
    <2> QED BY <2>2, <2>3 DEF Granting
  <1>2. CASE ~a.accepted
    BY <1>2 DEF FinishClaim
  <1> QED BY <1>1, <1>2

\* Every step of a loop keeps the invariant.
LEMMA LoopKeeps ==
  ASSUME IInv, NEW l \in Loops,
         LoopStep(l) \/ StopWatching(l) \/ Terminated(l) \/ Restart(l)
  PROVE  IInv'
  <1> DEFINE w == Polled(loop[l])
  <1>f. /\ loop[l] \in Watches /\ call[l] \in Answers /\ row \in Rows /\ pr.head \in 0..MaxHead
        /\ Sound(l, loop[l], call[l], row, pr.head)
        /\ w \in Watches /\ w.seen = pr.head /\ w.head <= pr.head /\ w.pc = loop[l].pc
        /\ w.owned = loop[l].owned
        /\ Granting(l, w, row)
        /\ Tracked(w) \in Watches /\ Granting(l, Tracked(w), row) /\ InOrder(Tracked(w), pr.head)
        /\ Tracked(w).pc \notin {"acquiring", "progressing", "beating"}
    BY StandFacts
  <1> HIDE DEF w
  <1>g. w.seen <= pr.head /\ w.head <= w.seen
    BY <1>f
  <1>p. {"acquiring", "progressing", "beating", "closing", "letting-go"} \subseteq LoopPCs
    BY DEF LoopPCs
  <1>1. CASE AskForClaim(l)
    <2> DEFINE u == [w EXCEPT !.refused = FALSE]
    <2>1. Calls(l, u, "acquire", "acquiring")
      BY <1>1 DEF AskForClaim, w
    <2>2. u \in Watches /\ SameClaim(u, w)
      BY <1>f DEF Watches, SameClaim
    <2> HIDE DEF u
    <2>3. Granting(l, u, row) /\ u.head <= pr.head /\ u.seen <= pr.head /\ u.head <= u.seen
      BY <1>f, <1>g, <2>2 DEF SameClaim, Granting
    <2>4. InOrder([u EXCEPT !.pc = "acquiring"], pr.head)
      BY <1>p, <2>2, <2>3, MayCall
    <2> QED BY <1>p, <2>1, <2>2, <2>3, <2>4, CallStep
  <1>2. CASE StayAway(l)
    <2>1. Moves(l, Tracked(w))
      BY <1>2 DEF StayAway, w
    <2> QED BY <1>f, <2>1, QuietStep
  <1>3. CASE ClaimAnswered(l)
    <2>1. Answered(l, Tracked(OnAcquire(l, loop[l], call[l]))) /\ loop[l].pc = "acquiring"
      BY <1>3 DEF ClaimAnswered
    <2>2. Goes(l, OnAcquire(l, loop[l], call[l]), loop[l], row)
      BY <1>f, <2>1, OnAcquireFacts
    <2> QED BY <2>1, <2>2, AfterAnswer DEF Goes
  <1>4. CASE ReportProgress(l)
    <2>1. Calls(l, w, "progress", "progressing") /\ w.owned
      BY <1>4 DEF ReportProgress, w
    <2>2. InOrder([w EXCEPT !.pc = "progressing"], pr.head)
      BY <1>f, <1>g, <1>p, <2>1, MayCall
    <2> QED BY <1>f, <1>p, <2>1, <2>2, CallStep
  <1>5. CASE ProgressAnswered(l)
    <2>1. Answered(l, OnProgress(l, loop[l], call[l])) /\ loop[l].pc = "progressing"
      BY <1>5 DEF ProgressAnswered
    <2> DEFINE v == OnProgress(l, loop[l], call[l])
    <2>2. /\ v \in Watches /\ Granting(l, v, row) /\ InOrder(v, pr.head)
          /\ v.pc \notin {"acquiring", "progressing", "beating"}
      BY <1>f, <2>1, OnProgressFacts
    <2> HIDE DEF v
    <2>3. Answered(l, v)
      BY <2>1 DEF v
    <2> QED BY <2>2, <2>3, QuietStep
  <1>6. CASE NothingNew(l)
    <2>1. Moves(l, Tracked(w))
      BY <1>6 DEF NothingNew, w
    <2> QED BY <1>f, <2>1, QuietStep
  <1>7. CASE Heartbeat(l)
    <2>1. CASE Calls(l, w, "acquire", "beating") /\ w.owned
      <3>1. InOrder([w EXCEPT !.pc = "beating"], pr.head)
        BY <1>f, <1>g, <1>p, <2>1, MayCall
      <3> QED BY <1>f, <1>p, <2>1, <3>1, CallStep
    <2>2. CASE Calls(l, loop[l], "acquire", "beating") /\ loop[l].pc = "beat-due"
      <3>1. /\ Granting(l, loop[l], row) /\ loop[l].head <= pr.head /\ loop[l].seen <= pr.head
            /\ loop[l].head <= loop[l].seen /\ loop[l].owned
        BY <1>f, <2>2 DEF Sound, InOrder
      <3>2. InOrder([loop[l] EXCEPT !.pc = "beating"], pr.head)
        BY <1>f, <1>p, <3>1, MayCall
      <3> QED BY <1>f, <1>p, <2>2, <3>1, <3>2, CallStep
    <2> QED BY <1>7, <2>1, <2>2 DEF Heartbeat, w
  <1>8. CASE HeartbeatAnswered(l)
    <2>1. Answered(l, Tracked(OnHeartbeat(l, loop[l], call[l]))) /\ loop[l].pc = "beating"
      BY <1>8 DEF HeartbeatAnswered
    <2>2. Goes(l, OnHeartbeat(l, loop[l], call[l]), loop[l], row)
      BY <1>f, <2>1, OnHeartbeatFacts
    <2> QED BY <2>1, <2>2, AfterAnswer DEF Goes
  <1>h. Granting(l, loop[l], row) /\ loop[l].head <= pr.head /\ loop[l].seen <= pr.head
    BY <1>f DEF Sound, InOrder
  <1>9. CASE CloseClaim(l)
    <2>1. Calls(l, loop[l], "terminal", "closing")
      BY <1>9 DEF CloseClaim
    <2>2. InOrder([loop[l] EXCEPT !.pc = "closing"], pr.head)
      BY <1>f, <1>h, <1>p, MayCall
    <2> QED BY <1>f, <1>h, <1>p, <2>1, <2>2, CallStep
  <1>10. CASE CloseAnswered(l)
    <2> DEFINE u == FinishClaim(loop[l], call[l])
    <2>1. Answered(l, Leaving(u))
      BY <1>10 DEF CloseAnswered
    <2>2. u \in Watches /\ Granting(l, u, row) /\ u.head <= pr.head /\ u.seen <= pr.head
      BY <1>f, <1>h, FinishFacts
    <2> HIDE DEF u
    <2>3. /\ Leaving(u) \in Watches /\ Granting(l, Leaving(u), row) /\ InOrder(Leaving(u), pr.head)
          /\ Leaving(u).pc \notin {"acquiring", "progressing", "beating"}
      BY <1>f, <2>2, LeavingFacts
    <2> QED BY <2>1, <2>3, QuietStep
  <1>11. CASE LetGo(l)
    <2>1. PICK op \in {"terminal", "release"} : Calls(l, loop[l], op, "letting-go")
      BY <1>11 DEF LetGo
    <2>2. InOrder([loop[l] EXCEPT !.pc = "letting-go"], pr.head)
      BY <1>f, <1>h, <1>p, MayCall
    <2> QED BY <1>f, <1>h, <1>p, <2>1, <2>2, CallStep
  <1>v. /\ Gone \in Watches /\ Granting(l, Gone, row) /\ InOrder(Gone, pr.head)
        /\ Gone.pc \notin {"acquiring", "progressing", "beating"}
        /\ Fresh \in Watches /\ Granting(l, Fresh, row) /\ InOrder(Fresh, pr.head)
        /\ Fresh.pc \notin {"acquiring", "progressing", "beating"}
    BY <1>f, NewWatches, Limits DEF Granting, InOrder
  <1>12. CASE LetGoAnswered(l) \/ Terminated(l)
    <2>1. Answered(l, Gone)
      BY <1>12 DEF LetGoAnswered, Terminated
    <2> QED BY <1>v, <2>1, QuietStep
  <1>13. CASE StopWatching(l)
    <2>1. Moves(l, Leaving(loop[l]))
      BY <1>13 DEF StopWatching
    <2>2. /\ Leaving(loop[l]) \in Watches /\ Granting(l, Leaving(loop[l]), row)
          /\ InOrder(Leaving(loop[l]), pr.head)
          /\ Leaving(loop[l]).pc \notin {"acquiring", "progressing", "beating"}
      BY <1>f, <1>h, LeavingFacts
    <2> QED BY <2>1, <2>2, QuietStep
  <1>14. CASE Restart(l)
    <2>1. Set(l, Fresh) /\ UNCHANGED <<row, pr, rec, shep, call>>
      BY <1>14 DEF Restart
    <2>2. troubles' \in 0..MaxTroubles
      BY <1>14, TypeParts, OwnershipLimits DEF Restart, IInv
    <2>3. call' \in [Loops -> Answers] /\ \A m \in Loops \ {l} : call'[m] = call[m]
      BY <2>1 DEF IInv, CallsType
    <2> QED BY <1>v, <2>1, <2>2, <2>3, WatchStep
  <1> QED BY <1>1, <1>2, <1>3, <1>4, <1>5, <1>6, <1>7, <1>8, <1>9, <1>10, <1>11, <1>12, <1>13,
             <1>14 DEF LoopStep

-----------------------------------------------------------------------------
(* The steps of the others.                                                 *)

\* A step that leaves the watches alone, and moves the row, if it does, to a new
\* epoch or without touching the version of a loop's own row.
LEMMA OtherStep ==
  ASSUME IInv, UNCHANGED <<loop, call>>, row' \in Rows, CallsType', troubles' \in 0..MaxTroubles,
         pr' \in Requests, pr.head <= pr'.head,
         row'.epoch >= row.epoch,
         row'.epoch = row.epoch =>
            row'.owner = row.owner /\ (row'.version = row.version \/ row.owner \notin Loops)
  PROVE  IInv'
  <1>1. TypeOK'
    BY TypeParts DEF IInv, TypeOK, Rows, States, Watches, Requests
  <1>2. ASSUME NEW l \in Loops
        PROVE  Sound(l, loop'[l], call'[l], row', pr'.head)
    <2>1. /\ loop[l] \in Watches /\ call[l] \in Answers /\ row \in Rows
          /\ pr.head \in 0..MaxHead /\ Sound(l, loop[l], call[l], row, pr.head)
      BY StandFacts
    <2>2. pr'.head \in 0..MaxHead
      BY Limits DEF Requests
    <2>3. row'.epoch = row.epoch =>
            row'.owner = row.owner /\ (row'.version = row.version \/ row.owner # l)
      OBVIOUS
    <2> HIDE DEF IInv
    <2>4. Sound(l, loop[l], call[l], row', pr'.head)
      BY <2>1, <2>2, <2>3, RowKeeps
    <2> QED BY <2>4
  <1> QED BY <1>1, <1>2 DEF IInv

\* A write of an owner that is not a loop, or of one who sends no version.
LEMMA OtherWrite ==
  ASSUME IInv, NEW op \in Ops, NEW who \in Owners, NEW epoch \in Nat,
         NEW r \in Replies(op, who, epoch, pr.head), Happens(r),
         op \in {"acquire", "progress"} => who \notin Loops,
         UNCHANGED <<pr, loop, call>>, CallsType'
  PROVE  IInv'
  <1>0. /\ TypeOK /\ pr.head \in 0..MaxHead /\ pr \in Requests
        /\ pr.head <= pr.head
    BY TypeParts, Limits DEF IInv
  <1>1. r.row \in Rows /\ troubles + r.fault \in 0..MaxTroubles /\ RowMove(r.row, op, who, pr.head)
    BY <1>0, ReplyFacts
  <1>2. row' = r.row /\ troubles' = troubles + r.fault
    BY DEF Happens
  <1> QED BY <1>0, <1>1, <1>2, OtherStep DEF RowMove

\* A read tells the row or nothing, and leaves it.
LEMMA ReadFacts ==
  ASSUME TypeOK, NEW missing, NEW r \in Readings(missing)
  PROVE  /\ r.row = row /\ r.resp.rec \in {row, NoRecord} /\ row \in Rows
         /\ r.resp.rec \in Rows
         /\ troubles + r.fault \in 0..MaxTroubles
  <1>1. row \in Rows /\ troubles \in 0..MaxTroubles /\ MaxTroubles \in Nat /\ NoRecord \in Rows
    BY TypeParts, OwnershipLimits, NoRecordType
  <1>2. /\ r.row = row /\ r.resp.rec \in {row, NoRecord} /\ r.fault \in {0, 1}
        /\ r.fault = 1 => troubles # MaxTroubles
    BY DEF Readings, Reply, Fault, Response
  <1> QED BY <1>1, <1>2

\* A read leaves the row as it is.
LEMMA OtherRead ==
  ASSUME IInv, NEW missing, NEW r \in Readings(missing), Happens(r),
         UNCHANGED <<pr, loop, call>>, CallsType'
  PROVE  IInv'
  <1>0. /\ TypeOK /\ pr \in Requests
        /\ pr.head <= pr.head
    BY TypeParts, Limits DEF IInv
  <1>1. row' = row /\ row \in Rows /\ troubles' \in 0..MaxTroubles /\ row.epoch >= row.epoch
    BY <1>0, ReadFacts DEF Happens, Rows
  <1> QED BY <1>0, <1>1, OtherStep

\* Who may own a row, and the sweep that waits.
LEMMA SweepTypes ==
  /\ Sweeps \subseteq Owners /\ Loops \subseteq Owners /\ Adopter \in Owners
  /\ Adopter \notin Loops /\ NoOne \notin Loops
  /\ Idle.pc = "idle"
  /\ Idle \in [pc : {"idle", "looked", "recover", "complete", "follow"},
               me : Sweeps \cup {NoOne}, live : Loops \cup {NoOne}, terminal : BOOLEAN,
               to : Owners \cup {NoOne}, epoch : Nat, then : {"none", "release", "terminal"}]
  BY OwnersAssumption DEF Owners, Idle

\* What a decision that writes asks for.
LEMMA DecisionFacts ==
  ASSUME NEW obs, NEW me \in Sweeps, obs.rec \in Rows, Mutates(Classify(obs, me))
  PROVE  LET d == Classify(obs, me)
         IN /\ d.epoch \in Nat
            /\ \/ d.action = "recover" /\ d.to = me /\ d.then \in {"release", "terminal"}
               \/ d.action = "complete" /\ d.to \in Loops /\ d.then = "none"
  <1> DEFINE d == Classify(obs, me)
  <1>1. \/ d = Recover(obs, me)
        \/ d = Decide("complete", obs.rec.target, obs.rec.epoch, "none") /\ obs.rec.target # NoOne
        \/ d.action \in {"none", "skip", "escalate"}
        \/ ~Blind(obs) /\ obs.verdict \notin {"unowned", "owned-by-other"}
    BY DEF Classify, Leave, Skip, Escalate, Decide
  <1>2. ~(~Blind(obs) /\ obs.verdict \notin {"unowned", "owned-by-other"})
    BY DEF Blind
  <1>3. d.action \in {"recover", "complete"}
    BY DEF Mutates
  <1>4. obs.rec.epoch \in Nat /\ obs.rec.target \in Loops \cup {NoOne}
    BY DEF Rows
  <1> HIDE DEF d
  <1>5. \/ d = Recover(obs, me)
        \/ d = Decide("complete", obs.rec.target, obs.rec.epoch, "none") /\ obs.rec.target # NoOne
    BY <1>1, <1>2, <1>3
  <1>6. CASE d = Recover(obs, me)
    BY <1>4, <1>6 DEF Recover, Decide, d
  <1>7. CASE d = Decide("complete", obs.rec.target, obs.rec.epoch, "none") /\ obs.rec.target # NoOne
    BY <1>4, <1>7 DEF Decide, d
  <1> QED BY <1>5, <1>6, <1>7

\* What a sweep may remember.
RecType(r) ==
    /\ r \in [pc : {"idle", "looked", "recover", "complete", "follow"},
              me : Sweeps \cup {NoOne}, live : Loops \cup {NoOne}, terminal : BOOLEAN,
              to : Owners \cup {NoOne}, epoch : Nat, then : {"none", "release", "terminal"}]
    /\ r.pc # "idle" => r.me \in Sweeps
    /\ r.pc \in {"recover", "follow"} => r.then # "none"
    /\ r.pc = "complete" => r.to \in Owners

\* Every step of the reconciler keeps the invariant.
LEMMA SweepKeeps ==
  ASSUME IInv, SweepStep
  PROVE  IInv'
  <1>0. RecType(rec) /\ TypeOK
    BY DEF IInv, CallsType, RecType
  <1>i. RecType(Idle)
    BY SweepTypes DEF RecType
  <1>t. ASSUME RecType(rec'), UNCHANGED <<call, shep>>
        PROVE  CallsType'
    BY <1>t DEF IInv, CallsType, RecType
  <1>1. ASSUME NEW me \in Sweeps, SweepLooks(me)
        PROVE  IInv'
    <2>1. PICK live \in Live \cup {NoOne}, terminal \in {pr.state # "open", TRUE} :
             rec' = [Idle EXCEPT !.pc = "looked", !.me = me, !.live = live,
                                 !.terminal = terminal]
      BY <1>1 DEF SweepLooks, RecSet
    <2>2. live \in Loops \cup {NoOne}
      BY DEF Live
    <2>3. RecType(rec')
      BY <2>1, <2>2, SweepTypes DEF RecType
    <2>4. UNCHANGED <<row, pr, loop, call, shep, troubles>>
      BY <1>1 DEF SweepLooks
    <2>5. row \in Rows /\ troubles \in 0..MaxTroubles /\ row.epoch >= row.epoch
          /\ pr \in Requests /\ pr.head <= pr.head
      BY <1>0, TypeParts, Limits DEF Rows
    <2> QED BY <1>t, <2>3, <2>4, <2>5, OtherStep
  <1>2. CASE SweepReads
    <2>1. PICK r \in Readings("2xx") :
             LET d == Classify(Observation(r.resp), rec.me)
             IN /\ Happens(r)
                /\ rec' = IF Mutates(d) /\ MayVeto
                          THEN [rec EXCEPT !.pc = d.action, !.to = d.to, !.epoch = d.epoch,
                                           !.then = d.then]
                          ELSE Idle
      BY <1>2 DEF SweepReads, RecSet
    <2> DEFINE obs == Observation(r.resp)
               d == Classify(obs, rec.me)
    <2>2. rec.me \in Sweeps /\ UNCHANGED <<pr, loop, call, shep>>
      BY <1>0, <1>2 DEF SweepReads, RecType
    <2>3. obs.rec \in Rows
      <3>1. r.resp.rec \in Rows
        BY <1>0, ReadFacts
      <3>2. BatchAnswer(r.resp).rec \in {r.resp.rec, NoRecord}
        BY DEF BatchAnswer, AnswerFrom
      <3> QED BY <3>1, <3>2, NoRecordType DEF Observation
    <2> HIDE DEF obs
    <2>4. CASE Mutates(d) /\ MayVeto
      <3>1. /\ d.epoch \in Nat
            /\ \/ d.action = "recover" /\ d.to = rec.me /\ d.then \in {"release", "terminal"}
               \/ d.action = "complete" /\ d.to \in Loops /\ d.then = "none"
        BY <2>2, <2>3, <2>4, DecisionFacts
      <3>2. rec' = [rec EXCEPT !.pc = d.action, !.to = d.to, !.epoch = d.epoch, !.then = d.then]
        BY <2>1, <2>4 DEF obs
      <3> HIDE DEF d
      <3>3. RecType(rec')
        BY <1>0, <2>2, <3>1, <3>2, SweepTypes DEF RecType
      <3> QED BY <1>t, <2>1, <2>2, <3>3, OtherRead
    <2>5. CASE ~(Mutates(d) /\ MayVeto)
      <3>1. rec' = Idle
        BY <2>1, <2>5 DEF obs
      <3> QED BY <1>i, <1>t, <2>1, <2>2, <3>1, OtherRead
    <2> QED BY <2>4, <2>5
  <1>p. pr.head \in 0..MaxHead
    BY <1>0, TypeParts, Limits
  <1>3. CASE SweepCompletes
    <2>1. PICK r \in Replies("complete", rec.to, rec.epoch, pr.head) : Happens(r)
      BY <1>3 DEF SweepCompletes
    <2>2. rec' = Idle /\ UNCHANGED <<pr, loop, call, shep>> /\ rec.to \in Owners /\ rec.epoch \in Nat
      BY <1>0, <1>3 DEF SweepCompletes, RecSet, RecType
    <2>3. CallsType'
      BY <1>i, <1>t, <2>2
    <2> QED BY <2>1, <2>2, <2>3, OtherWrite DEF Ops
  <1>4. CASE SweepRecovers
    <2>0. rec.me \in Owners /\ rec.epoch \in Nat /\ rec.then # "none" /\ rec.me \in Sweeps
      BY <1>0, <1>4, SweepTypes DEF SweepRecovers, RecType
    <2>1. PICK r \in Replies("recover", rec.me, rec.epoch, pr.head) :
             LET a == AnswerFrom("recover", r.resp, rec.me)
             IN /\ Happens(r)
                /\ rec' = IF a.accepted THEN [rec EXCEPT !.pc = "follow", !.epoch = a.rec.epoch]
                          ELSE Idle
      BY <1>4 DEF SweepRecovers, RecSet
    <2> DEFINE a == AnswerFrom("recover", r.resp, rec.me)
    <2>2. a \in Answers
      BY <1>0, <1>p, <2>0, AnswerFacts DEF Ops
    <2>3. rec' = Idle \/ rec' = [rec EXCEPT !.pc = "follow", !.epoch = a.rec.epoch]
      BY <2>1
    <2> HIDE DEF a
    <2>4. RecType(rec')
      BY <1>0, <1>i, <2>0, <2>2, <2>3 DEF RecType, Answers, Records
    <2>5. UNCHANGED <<pr, loop, call, shep>>
      BY <1>4 DEF SweepRecovers
    <2>6. CallsType'
      BY <1>t, <2>4, <2>5
    <2> QED BY <2>0, <2>1, <2>5, <2>6, OtherWrite DEF Ops
  <1>5. CASE SweepFollows
    <2>1. PICK r \in Replies(rec.then, rec.me, rec.epoch, pr.head) : Happens(r)
      BY <1>5 DEF SweepFollows
    <2>2. /\ rec' = Idle /\ UNCHANGED <<pr, loop, call, shep>> /\ rec.me \in Owners
          /\ rec.epoch \in Nat /\ rec.then \in {"release", "terminal"}
      BY <1>0, <1>5, SweepTypes DEF SweepFollows, RecSet, RecType
    <2>3. CallsType'
      BY <1>i, <1>t, <2>2
    <2> QED BY <2>1, <2>2, <2>3, OtherWrite DEF Ops
  <1> QED BY <1>1, <1>2, <1>3, <1>4, <1>5 DEF SweepStep

\* Every step of an adoption keeps the invariant.
LEMMA ShepherdKeeps ==
  ASSUME IInv, ShepherdStep
  PROVE  IInv'
  <1>0. /\ shep \in [pc : {"idle", "adoptable", "adopted", "releasing", "done"}, epoch : Nat]
        /\ TypeOK /\ pr.head \in 0..MaxHead /\ Adopter \in Owners /\ Adopter \notin Loops
    BY TypeParts, SweepTypes, Limits DEF IInv, CallsType
  <1>t. ASSUME shep' \in [pc : {"idle", "adoptable", "adopted", "releasing", "done"}, epoch : Nat],
               UNCHANGED <<call, rec>>
        PROVE  CallsType'
    BY <1>t DEF IInv, CallsType
  <1>1. CASE Adoptable
    <2>1. /\ shep' = [pc |-> "adoptable", epoch |-> 0] /\ troubles' = troubles + 1
          /\ troubles < MaxTroubles /\ UNCHANGED <<row, pr, loop, call, rec>>
      BY <1>1 DEF Adoptable, ShepSet
    <2>2. CallsType'
      BY <1>t, <2>1
    <2>3. row \in Rows /\ troubles' \in 0..MaxTroubles /\ row.epoch >= row.epoch
          /\ pr \in Requests /\ pr.head <= pr.head
      BY <1>0, <2>1, TypeParts, Limits, OwnershipLimits DEF Rows
    <2> QED BY <2>1, <2>2, <2>3, OtherStep
  <1>2. CASE Adopt
    <2>1. PICK r \in Replies("acquire", Adopter, 0, pr.head) : Happens(r)
      BY <1>2 DEF Adopt
    <2>2. shep'.pc \in {"adopted", "idle"} /\ shep' = [pc |-> shep'.pc, epoch |-> 0]
          /\ UNCHANGED <<pr, loop, call, rec>>
      BY <1>2 DEF Adopt, ShepSet
    <2>3. CallsType'
      BY <1>t, <2>2
    <2> QED BY <1>0, <2>1, <2>2, <2>3, OtherWrite DEF Ops
  <1>3. CASE ReleaseReads
    <2>1. PICK r \in Readings("404") :
             LET a == AnswerFrom("read", r.resp, Adopter)
             IN /\ Happens(r)
                /\ IF Mine(a) THEN ShepSet("releasing", a.rec.epoch) ELSE ShepSet("done", 0)
      BY <1>3 DEF ReleaseReads
    <2> DEFINE a == AnswerFrom("read", r.resp, Adopter)
    <2>2. a.rec \in Rows
      BY <1>0, ReadFacts, NoRecordType DEF AnswerFrom
    <2>3. shep' \in [pc : {"idle", "adoptable", "adopted", "releasing", "done"}, epoch : Nat]
      BY <2>1, <2>2 DEF ShepSet, Rows
    <2>4. UNCHANGED <<pr, loop, call, rec>>
      BY <1>3 DEF ReleaseReads
    <2>5. CallsType'
      BY <1>t, <2>3, <2>4
    <2> QED BY <2>1, <2>4, <2>5, OtherRead
  <1>4. CASE ReleaseWrites
    <2>1. PICK r \in Replies("terminal", Adopter, shep.epoch, pr.head) : Happens(r)
      BY <1>4 DEF ReleaseWrites
    <2>2. shep' = [pc |-> "done", epoch |-> 0] /\ UNCHANGED <<pr, loop, call, rec>>
      BY <1>4 DEF ReleaseWrites, ShepSet
    <2>3. CallsType'
      BY <1>t, <2>2
    <2> QED BY <1>0, <2>1, <2>2, <2>3, OtherWrite DEF Ops
  <1> QED BY <1>1, <1>2, <1>3, <1>4 DEF ShepherdStep

\* Time, GitHub and a handoff keep the invariant.
LEMMA EnvironmentKeeps ==
  ASSUME IInv, Environment
  PROVE  IInv'
  <1>0. /\ row \in Rows /\ pr \in Requests /\ pr.head \in 1..MaxHead
        /\ troubles \in 0..MaxTroubles /\ MaxTroubles \in Nat
    BY TypeParts, OwnershipLimits DEF IInv
  <1>h. row.epoch >= row.epoch /\ pr.head <= pr.head
    BY <1>0, Limits DEF Rows
  <1>t. UNCHANGED <<call, rec, shep>> => CallsType'
    BY DEF IInv, CallsType
  <1>1. CASE Dies \/ Lapse
    <2>1. row' = [row EXCEPT !.dead = TRUE] /\ UNCHANGED <<pr, loop, call, rec, shep>>
          /\ troubles' \in 0..MaxTroubles
      BY <1>0, <1>1 DEF Dies, Lapse, RowSet
    <2>2. /\ row' \in Rows /\ row'.epoch = row.epoch /\ row'.owner = row.owner
          /\ row'.version = row.version
      BY <1>0, <2>1 DEF Rows
    <2> QED BY <1>0, <1>h, <1>t, <2>1, <2>2, OtherStep
  <1>2. CASE GetsStuck
    <2>1. row' = [row EXCEPT !.stuck = TRUE] /\ UNCHANGED <<pr, loop, call, rec, shep>>
          /\ troubles' \in 0..MaxTroubles
      BY <1>0, <1>2 DEF GetsStuck, RowSet
    <2>2. /\ row' \in Rows /\ row'.epoch = row.epoch /\ row'.owner = row.owner
          /\ row'.version = row.version
      BY <1>0, <2>1 DEF Rows
    <2> QED BY <1>0, <1>h, <1>t, <2>1, <2>2, OtherStep
  <1>3. CASE HandoffStarts
    <2>1. PICK l \in Loops : row' = [row EXCEPT !.state = "handing-off", !.target = l]
      BY <1>3 DEF HandoffStarts, RowSet
    <2>2. UNCHANGED <<pr, loop, call, rec, shep>> /\ troubles' \in 0..MaxTroubles
      BY <1>0, <1>3 DEF HandoffStarts, RowSet
    <2>3. /\ row' \in Rows /\ row'.epoch = row.epoch /\ row'.owner = row.owner
          /\ row'.version = row.version
      BY <1>0, <2>1 DEF Rows, States, HoldingStates
    <2> QED BY <1>0, <1>h, <1>t, <2>2, <2>3, OtherStep
  <1>4. CASE HeadMoves \/ PrEnds \/ GetsListed
    <2>1. UNCHANGED <<row, loop, call, rec, shep, troubles>>
      BY <1>4 DEF HeadMoves, PrEnds, GetsListed
    <2>2. pr' \in Requests /\ pr.head <= pr'.head
      <3>1. CASE HeadMoves
        BY <1>0, <3>1, Limits DEF HeadMoves, Requests
      <3>2. CASE PrEnds
        BY <1>0, <3>2, Limits DEF PrEnds, Requests
      <3>3. CASE GetsListed
        <4>1. pr' = [pr EXCEPT !.listed = TRUE]
          BY <3>3 DEF GetsListed
        <4>2. pr' \in Requests /\ pr'.head = pr.head
          BY <1>0, <4>1 DEF Requests
        <4> QED BY <1>0, <4>2, Limits
      <3> QED BY <1>4, <3>1, <3>2, <3>3
    <2> QED BY <1>0, <1>h, <1>t, <2>1, <2>2, OtherStep
  <1> QED BY <1>1, <1>2, <1>3, <1>4 DEF Environment

\* It holds at first.
LEMMA InitKeeps ==
  ASSUME Init
  PROVE  IInv
  <1>1. /\ row \in Rows /\ pr \in Requests
        /\ pr.head = 1 /\ pr.head \in 1..MaxHead /\ loop \in [Loops -> {Fresh, Gone}] /\ troubles \in 0..MaxTroubles
    BY NoRecordType, Limits, OwnershipLimits DEF Init, Requests
  <1>2. loop \in [Loops -> Watches]
    BY <1>1, NewWatches
  <1>3. TypeOK
    BY <1>1, <1>2, TypeParts
  <1>4. CallsType
    BY NoAnswerType, SweepTypes DEF Init, CallsType
  <1>5. ASSUME NEW l \in Loops
        PROVE  Sound(l, loop[l], call[l], row, pr.head)
    <2>1. /\ ~loop[l].owned /\ loop[l].head = 0 /\ loop[l].seen = 0
          /\ loop[l].pc \in {"poll", "gone"}
      BY <1>1, NewWatches
    <2> QED BY <1>1, <2>1 DEF Sound, Granting, Arriving, InOrder
  <1> QED BY <1>3, <1>4, <1>5 DEF IInv

\* Every step keeps it.
LEMMA StepKeeps ==
  ASSUME IInv, [Next]_vars
  PROVE  IInv'
  <1>1. CASE UNCHANGED vars
    BY <1>1 DEF vars, IInv, TypeOK, CallsType, Sound, Granting, Arriving, InOrder
  <1>2. CASE \E l \in Loops : LoopStep(l) \/ StopWatching(l) \/ Terminated(l) \/ Restart(l)
    BY <1>2, LoopKeeps
  <1>3. CASE SweepStep \/ ShepherdStep \/ Environment
    BY <1>3, SweepKeeps, ShepherdKeeps, EnvironmentKeeps
  <1> QED BY <1>1, <1>2, <1>3 DEF Next

\* What a watch believes, and the answer it has yet to read, stay sound together.
THEOREM Soundness == Spec => []IInv
  BY InitKeeps, StepKeeps, PTL DEF Spec

\* Every counter of a watch stays below its limit, and every row is well formed.
THEOREM TypeCorrect == Spec => []TypeOK
  BY Soundness, PTL DEF IInv

\* A loop takes no row for its own that it was not granted, whatever was lost, late,
\* or cut short (_track_ownership, _owned_entity_id with _owner_epoch).
THEOREM BeliefGranted == Spec => []BeliefIsGranted
  <1>1. IInv => BeliefIsGranted
    BY TypeParts DEF IInv, Sound, Granting, BeliefIsGranted, Rows, Watches
  <1> QED BY <1>1, Soundness, PTL

\* A head that a loop holds for reported is in the row (_owned_head_sha).
THEOREM HeadRecorded == Spec => []HeadIsRecorded
  <1>1. IInv => HeadIsRecorded
    BY DEF IInv, Sound, Granting, HeadIsRecorded
  <1> QED BY <1>1, Soundness, PTL
=============================================================================

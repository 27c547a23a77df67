---------------------------- MODULE ShepherdProofs ----------------------------
(***************************************************************************)
(* Proofs about Shepherd, for any passes, caps, posts and people: the      *)
(* types, that the shepherd merges only what the review bot approved, and, *)
(* if passes do not overlap, that no attempt is charged for nothing.       *)
(***************************************************************************)
EXTENDS Shepherd, TLAPS

\* A head on which the review bot approved is marked so.
PassedSound == (\E i \in DOMAIN posts : posts[i] \in {"approve", "clean"}) => pr.passed

\* A pass acts on a head there is or was, and merges one that was approved.
ActsSound(p) ==
    /\ pass[p].pc \in Deeds \cup Working => pass[p].head <= pr.head
    /\ pass[p].pc = "merge" /\ pass[p].head = pr.head => pr.passed

\* A run is paid for below the cap.
RunSound(p) ==
    pass[p].pc \in {"working", "charging"} => pass[p].ref.review < MaxReviewAttempts

IInv ==
    /\ TypeOK /\ PassedSound
    /\ \A p \in Passes : ActsSound(p) /\ RunSound(p)
-----------------------------------------------------------------------------
\* What is written

\* The caps and the bounds are numbers.
LEMMA Limits ==
    /\ MaxReviewAttempts \in Nat \ {0} /\ MaxRefusals \in Nat \ {0} /\ MaxHarness \in Nat \ {0}
    /\ ProbeMax \in Nat \ {0} /\ UnknownMax \in Nat \ {0} /\ InfraMax \in Nat /\ MaxHead \in Nat
    /\ MaxPosts \in Nat /\ MaxTroubles \in Nat /\ Posted \subseteq Kinds
    /\ 0 \in Heads /\ Heads \subseteq Numbers /\ NoHead \in Numbers /\ Heads \subseteq Nat
  BY CapsAreNumbers DEF Heads, Numbers, NoHead

\* A count stays a number.
LEMMA CountedTypes ==
    ASSUME NEW n \in Nat, NEW on, NEW head, NEW limit \in Nat
    PROVE  OneMore(n, limit) \in Nat /\ Counted(n, on, head, limit) \in Nat
  BY DEF OneMore, Counted

\* A file that starts again, in part or from zero.
LEMMA ResetTypes ==
    ASSUME NEW f \in Files
    PROVE  /\ Fresh \in Files /\ Fresh.review = 0
           /\ Cleared(f) \in Files /\ Cleared(f).review = 0
           /\ NoReview(f) \in Files /\ NoReview(f).review = 0 /\ NoReview(f).st = f.st
<1>1. Fresh \in Files
  BY Limits DEF Fresh, Files, Statuses
<1>2. f.st \in Statuses /\ f.prior \in Numbers /\ 0 \in 0..MaxReviewAttempts /\ NoHead \in Numbers
  BY Limits DEF Files
<1>3. Cleared(f) \in Files /\ Cleared(f).review = 0
  BY <1>1, <1>2 DEF Cleared, Fresh, Files
<1>4. NoReview(f) \in Files /\ NoReview(f).review = 0 /\ NoReview(f).st = f.st
  BY <1>2 DEF NoReview, Files
<1> QED
  BY <1>1, <1>3, <1>4 DEF Fresh

-----------------------------------------------------------------------------
\* The steps of a pass

\* What a pass knows.
LEMMA PassFacts ==
    ASSUME TypeOK, NEW p \in Passes
    PROVE  /\ pass[p].pc \in {"idle", "listed"} \cup Deeds \cup Working
           /\ pass[p].pc = "listed" => pass[p].ref \in Files /\ pass[p].fixOnly \in BOOLEAN
           /\ pass[p].pc \in Deeds \cup Working => pass[p].ref \in Files /\ pass[p].head \in Heads
<1>1. pass[p] \in PassStates
  BY DEF TypeOK
<1> QED
  BY <1>1 DEF PassStates, Nowhere, Deeds, Working

\* A pass that acts writes of the file what it likes, and is done.
Ends(p) ==
    /\ pass[p].pc # "idle" /\ pass' = [pass EXCEPT ![p] = Nowhere]
    /\ file' \in Files /\ file'.review \in {file.review, 0}
    /\ troubles' \in 0..MaxTroubles
    /\ UNCHANGED <<pr, posts, rec, charged>>

\* These do.
LEMMA EndsMoves ==
    ASSUME IInv, NEW p \in Passes,
           \/ Flips(p) \/ Skips(p) \/ WaitsForMergeState(p) \/ RerunsChecks(p) \/ WaitsForChecks(p)
           \/ Defers(p) \/ GivesUpReview(p) \/ RunRefuses(p) \/ HarnessFails(p) \/ RunIsLost(p)
           \/ MergeRefused(p) \/ RecordsMerge(p) \/ Killed(p) \/ Returns(p)
    PROVE  Ends(p)
<1> DEFINE ref == pass[p].ref
<1>1. TypeOK /\ file \in Files /\ troubles \in 0..MaxTroubles
  BY DEF IInv, TypeOK
<1>2. CASE Skips(p) \/ RunIsLost(p) \/ Killed(p)
  BY <1>1, <1>2, Limits DEF Skips, RunIsLost, Killed, Stops, Moves, Ends
<1>3. CASE Flips(p) \/ RecordsMerge(p)
  <2>1. \E st \in Statuses : file' = [Cleared(file) EXCEPT !.st = st]
    BY <1>3 DEF Flips, RecordsMerge, Statuses
  <2>2. file' \in Files /\ file'.review = 0
    BY <1>1, <2>1, Limits, ResetTypes DEF Files
  <2> QED
    BY <1>1, <1>3, <2>2 DEF Flips, RecordsMerge, Stops, Moves, Ends
<1>4. CASE \/ WaitsForMergeState(p) \/ RerunsChecks(p) \/ WaitsForChecks(p) \/ Defers(p)
           \/ GivesUpReview(p) \/ RunRefuses(p) \/ HarnessFails(p) \/ MergeRefused(p) \/ Returns(p)
  <2>1. pass[p].pc \in Deeds \cup Working
    BY <1>4 DEF WaitsForMergeState, RerunsChecks, WaitsForChecks, Defers, GivesUpReview, RunRefuses,
                HarnessFails, MergeRefused, Returns, Deeds, Working
  <2>2. ref \in Files /\ pass[p].head \in Heads /\ pass[p].head \in Numbers
    BY <1>1, <2>1, PassFacts, Limits
  <2>3. /\ ref.st \in Statuses /\ ref.unknown \in Nat /\ ref.infra \in Nat /\ ref.probe \in Nat
        /\ ref.refusals \in Nat /\ ref.harness \in Nat /\ 0 \in Nat /\ InfraMax + 1 \in Nat
        /\ "review-stuck" \in Statuses /\ "implemented" \in Statuses
    BY <2>2, Limits DEF Files, Statuses
  <2>4. PICK st \in Statuses, n \in Nat :
           \/ file' = [file EXCEPT !.st = st]
           \/ file' = [file EXCEPT !.st = st, !.unknown = n, !.unknownHead = pass[p].head]
           \/ file' = [file EXCEPT !.st = st, !.infra = n, !.infraHead = pass[p].head]
           \/ file' = [file EXCEPT !.st = st, !.probe = n]
           \/ file' = [file EXCEPT !.st = st, !.refusals = n, !.refusalsHead = pass[p].head,
                                   !.harness = 0]
           \/ file' = [file EXCEPT !.st = st, !.harness = n]
    <3>1. CASE Defers(p) \/ GivesUpReview(p) \/ MergeRefused(p) \/ Returns(p)
      BY <2>3, <3>1 DEF Defers, GivesUpReview, MergeRefused, Keeps, Returns
    <3>2. CASE WaitsForMergeState(p)
      BY <2>3, <3>2, CountedTypes, Limits DEF WaitsForMergeState
    <3>3. CASE RerunsChecks(p)
      BY <2>3, <3>3, CountedTypes, Limits DEF RerunsChecks
    <3>4. CASE WaitsForChecks(p)
      BY <2>3, <3>4, CountedTypes, Limits DEF WaitsForChecks
    <3>5. CASE RunRefuses(p)
      BY <2>3, <3>5, CountedTypes, Limits DEF RunRefuses
    <3>6. CASE HarnessFails(p)
      BY <2>3, <3>6, CountedTypes, Limits DEF HarnessFails
    <3> QED
      BY <1>4, <3>1, <3>2, <3>3, <3>4, <3>5, <3>6
  <2>5. file' \in Files
    BY <1>1, <2>2, <2>3, <2>4 DEF Files
  <2>6. file'.review = file.review
    BY <1>1, <2>4 DEF Files
  <2> QED
    BY <1>1, <1>4, <2>5, <2>6
      DEF WaitsForMergeState, RerunsChecks, WaitsForChecks, Defers, GivesUpReview, RunRefuses,
          HarnessFails, MergeRefused, Returns, Stops, Moves, Ends
<1> QED
  BY <1>2, <1>3, <1>4

\* The request moves on to no earlier head, and an approval stays with its head.
HeadMoves ==
    /\ pr' \in Requests /\ pr.head <= pr'.head
    /\ pr'.head = pr.head => (pr.passed => pr'.passed)
    /\ posts' \in Seq(Kinds) /\ Len(posts') <= MaxPosts /\ PassedSound'

\* One pass moves to s, whatever it writes.
LEMMA StepKeeps ==
    ASSUME IInv, NEW p \in Passes, NEW s \in PassStates, pass' = [pass EXCEPT ![p] = s],
           HeadMoves, file' \in Files, rec' = rec,
           charged' \in 0..MaxReviewAttempts, troubles' \in 0..MaxTroubles,
           s.pc \in Deeds \cup Working => s.head <= pr'.head,
           s.pc = "merge" => (s.head = pr'.head => pr'.passed),
           s.pc \in {"working", "charging"} => s.ref.review < MaxReviewAttempts
    PROVE  IInv'
<1>1. TypeOK /\ pass \in [Passes -> PassStates] /\ pr \in Requests
  BY DEF IInv, TypeOK
<1>2. TypeOK'
  BY <1>1 DEF TypeOK, HeadMoves
<1>3. ASSUME NEW q \in Passes PROVE ActsSound(q)' /\ RunSound(q)'
  <2>1. CASE q = p
    <3>1. pass'[q] = s
      BY <1>1, <2>1
    <3> QED
      BY <3>1 DEF ActsSound, RunSound
  <2>2. CASE q # p
    <3>1. pass'[q] = pass[q]
      BY <1>1, <2>2
    <3>2. ActsSound(q) /\ RunSound(q)
      BY DEF IInv
    <3>3. /\ pr.head \in Nat /\ pr'.head \in Nat
          /\ pass[q].pc \in Deeds \cup Working => pass[q].head \in Nat
      BY <1>1, PassFacts, Limits DEF HeadMoves, Requests
    <3>4. RunSound(q)'
      BY <3>1, <3>2 DEF RunSound
    <3>5. ActsSound(q)'
      BY <3>1, <3>2, <3>3 DEF ActsSound, HeadMoves, Deeds
    <3> QED
      BY <3>4, <3>5
  <2> QED
    BY <2>1, <2>2
<1> QED
  BY <1>2, <1>3 DEF IInv, HeadMoves

\* Nothing happens to the request.
LEMMA SameHead ==
    ASSUME IInv, UNCHANGED <<pr, posts>>
    PROVE  HeadMoves
<1>1. TypeOK /\ PassedSound
  BY DEF IInv
<1>2. pr.head \in Nat
  BY <1>1, Limits DEF TypeOK, Requests
<1> QED
  BY <1>1, <1>2 DEF HeadMoves, TypeOK, PassedSound

\* A pass that is done keeps the invariant.
LEMMA EndsKeeps ==
    ASSUME IInv, NEW p \in Passes, Ends(p)
    PROVE  IInv'
<1>1. Nowhere \in PassStates /\ Nowhere.pc = "idle"
  BY DEF PassStates, Nowhere
<1>2. charged' \in 0..MaxReviewAttempts
  BY DEF IInv, TypeOK, Ends
<1> QED
  BY <1>1, <1>2, SameHead, StepKeeps DEF Ends, Deeds, Working

\* A pass lists the file, or sends a run out.
LEMMA StartKeeps ==
    ASSUME IInv, NEW p \in Passes, List(p) \/ StartsRun(p)
    PROVE  IInv'
<1>1. TypeOK /\ UNCHANGED <<file, pr, posts, rec, charged, troubles>>
  BY DEF IInv, List, StartsRun
<1>2. /\ HeadMoves /\ file' \in Files /\ rec' = rec
      /\ charged' \in 0..MaxReviewAttempts /\ troubles' \in 0..MaxTroubles
  BY <1>1, SameHead DEF TypeOK
<1>3. CASE List(p)
  <2>1. PICK fixOnly \in BOOLEAN :
           pass' = [pass EXCEPT ![p] = [pc |-> "listed", ref |-> file, fixOnly |-> fixOnly]]
    BY <1>3 DEF List, Moves
  <2>2. [pc |-> "listed", ref |-> file, fixOnly |-> fixOnly] \in PassStates
    BY <1>1 DEF TypeOK, PassStates
  <2> QED
    BY <1>2, <2>1, <2>2, StepKeeps DEF Deeds, Working
<1>4. CASE StartsRun(p)
  <2> DEFINE s == [pass[p] EXCEPT !.pc = "working"]
  <2>1. pass[p].pc = "address-review" /\ pass[p].ref.review < MaxReviewAttempts
           /\ pass' = [pass EXCEPT ![p] = s]
    BY <1>4 DEF StartsRun, Moves
  <2>2. pass[p] \in [pc : Deeds \cup Working, ref : Files, head : Heads, standing : BOOLEAN]
    BY <1>1, <2>1 DEF TypeOK, PassStates, Nowhere
  <2>3. s \in PassStates /\ s.pc = "working" /\ s.ref = pass[p].ref /\ s.head = pass[p].head
    BY <2>2 DEF PassStates, Working
  <2>4. pass[p].head <= pr.head
    BY <2>1 DEF IInv, ActsSound, Deeds
  <2> HIDE DEF s
  <2> QED
    BY <1>1, <1>2, <2>1, <2>3, <2>4, StepKeeps
<1> QED
  BY <1>3, <1>4

\* The review bot's verdict is that of its latest post that was read.
LEMMA ReviewTypes ==
    ASSUME TypeOK, NEW answered \in SUBSET {"reviews", "comments", "issue"}
    PROVE  /\ Review(answered) \in Reviews
           /\ Review(answered).verdict = "approved" =>
                 \E i \in DOMAIN posts : posts[i] \in {"approve", "clean"}
<1> DEFINE seen == {i \in DOMAIN posts : Channel(posts[i]) \in answered}
           verdicts == {i \in seen : posts[i] \in {"approve", "request", "clean"}}
           responded == verdicts # {}
           findings == \E i \in seen : IsFinding(posts[i])
           verdict == IF \E i \in verdicts : /\ posts[i] # "request"
                                             /\ \A j \in verdicts : j <= i
                      THEN "approved" ELSE IF verdicts = {} THEN "none" ELSE "changes"
<1>1. Review(answered) = [responded |-> responded, findings |-> findings, verdict |-> verdict]
  BY DEF Review
<1>2. responded \in BOOLEAN /\ findings \in BOOLEAN
  OBVIOUS
<1>3. verdict \in {"none", "changes", "approved"}
  OBVIOUS
<1>4. verdict = "approved" => \E i \in DOMAIN posts : posts[i] \in {"approve", "clean"}
  OBVIOUS
<1> HIDE DEF responded, findings, verdict
<1> QED
  BY <1>1, <1>2, <1>3, <1>4 DEF Reviews

\* A merge is decided only on an approval.
LEMMA DecidedTypes ==
    ASSUME TypeOK, PassedSound, NEW answered \in SUBSET {"reviews", "comments", "issue"},
           NEW fixOnly \in BOOLEAN, NEW d \in Decisions[Review(answered)][pr.dirty][fixOnly]
    PROVE  /\ d.what \in Deeds \cup {"wait"} /\ d.known \in BOOLEAN
           /\ d.what = "merge" => pr.passed
<1>1. Review(answered) \in Reviews /\ pr.dirty \in BOOLEAN
  BY ReviewTypes DEF TypeOK, Requests
<1>2. PICK o \in Observations :
         d = [what |-> Decide(Review(answered), o, fixOnly), known |-> o.ci # "unknown"]
  BY <1>1 DEF Decisions
<1>3. d.what = Decide(Review(answered), o, fixOnly) /\ d.known = (o.ci # "unknown")
  BY <1>2
<1>4. d.what \in Deeds \cup {"wait"}
  BY <1>3 DEF Decide, MergeDecision, Deeds
<1>5. d.what = "merge" => Review(answered).verdict = "approved"
  BY <1>3 DEF Decide
<1>6. (o.ci # "unknown") \in BOOLEAN
  OBVIOUS
<1> QED
  BY <1>3, <1>4, <1>5, <1>6, ReviewTypes DEF PassedSound

\* A pass looks at the request.
LEMMA LooksMoves ==
    ASSUME IInv, NEW p \in Passes, Looks(p)
    PROVE  /\ UNCHANGED <<pr, posts, rec, charged, troubles>> /\ pass[p].pc = "listed"
           /\ file' = file \/ (file' \in Files /\ file'.review = file.review
                               /\ file'.st \in {pass[p].ref.st, "implemented"})
           /\ \/ pass' = [pass EXCEPT ![p] = Nowhere]
              \/ \E ref \in Files, what \in Deeds, standing \in BOOLEAN :
                    /\ ref.review = pass[p].ref.review
                    /\ ref.st \in {pass[p].ref.st, "implemented"}
                    /\ what = "merge" => pr.passed
                    /\ pass' = [pass EXCEPT ![p] = [pc |-> what, ref |-> ref, head |-> pr.head,
                                                    standing |-> standing]]
<1>1. TypeOK /\ PassedSound /\ file \in Files /\ pass[p].pc = "listed"
      /\ UNCHANGED <<pr, posts, rec, charged, troubles>>
  BY DEF IInv, TypeOK, Looks
<1>2. pass[p].ref \in Files /\ pass[p].fixOnly \in BOOLEAN
  BY <1>1, PassFacts
<1> DEFINE ref == pass[p].ref
           st == IF ref.st = "in-progress" THEN "implemented" ELSE ref.st
           Reset(f, known, clears) ==
              [f EXCEPT !.st = st,
                        !.probe = IF known /\ ref.probe > 0 THEN 0 ELSE @,
                        !.unknown = IF clears THEN 0 ELSE @,
                        !.unknownHead = IF clears THEN NoHead ELSE @]
<1>3. PICK answered \in SUBSET {"reviews", "comments", "issue"} :
         \E d \in Decisions[Review(answered)][pr.dirty][pass[p].fixOnly] :
            LET clears == d.what # "merge-state-unknown" /\ ref.unknown > 0
                writes == d.known \/ clears \/ st # ref.st
            IN  /\ file' = IF writes THEN Reset(file, d.known, clears) ELSE file
                /\ IF d.what = "wait" THEN Stops(p)
                   ELSE Moves(p, [pc |-> d.what, ref |-> Reset(ref, d.known, clears),
                                  head |-> pr.head,
                                  standing |-> /\ d.what = "merge"
                                               /\ \E i \in DOMAIN posts : IsFinding(posts[i])])
  BY DEF Looks
<1>4. PICK d \in Decisions[Review(answered)][pr.dirty][pass[p].fixOnly] :
            LET clears == d.what # "merge-state-unknown" /\ ref.unknown > 0
                writes == d.known \/ clears \/ st # ref.st
            IN  /\ file' = IF writes THEN Reset(file, d.known, clears) ELSE file
                /\ IF d.what = "wait" THEN Stops(p)
                   ELSE Moves(p, [pc |-> d.what, ref |-> Reset(ref, d.known, clears),
                                  head |-> pr.head,
                                  standing |-> /\ d.what = "merge"
                                               /\ \E i \in DOMAIN posts : IsFinding(posts[i])])
  BY <1>3
<1> DEFINE clears == d.what # "merge-state-unknown" /\ ref.unknown > 0
           standing == d.what = "merge" /\ \E i \in DOMAIN posts : IsFinding(posts[i])
<1>5. d.what \in Deeds \cup {"wait"} /\ d.known \in BOOLEAN /\ (d.what = "merge" => pr.passed)
  BY <1>1, <1>2, DecidedTypes
<1>6. st \in Statuses /\ st \in {ref.st, "implemented"}
  BY <1>2 DEF Files, Statuses
<1> DEFINE Again(f) == Reset(f, d.known, clears)
<1>7. ASSUME NEW f \in Files
      PROVE  Again(f) \in Files /\ Again(f).review = f.review /\ Again(f).st = st
  <2>1. /\ (IF d.known /\ ref.probe > 0 THEN 0 ELSE f.probe) \in Nat
        /\ (IF clears THEN 0 ELSE f.unknown) \in Nat
        /\ (IF clears THEN NoHead ELSE f.unknownHead) \in Numbers
    BY Limits DEF Files
  <2> HIDE DEF clears
  <2> QED
    BY <1>6, <2>1 DEF Files
<1>8. clears \in BOOLEAN /\ standing \in BOOLEAN
  OBVIOUS
<1>9. file' = file \/ file' = Again(file)
  BY <1>4
<1>10. \/ pass' = [pass EXCEPT ![p] = Nowhere]
       \/ d.what # "wait" /\ pass' = [pass EXCEPT ![p] =
             [pc |-> d.what, ref |-> Again(ref), head |-> pr.head, standing |-> standing]]
  BY <1>4 DEF Stops, Moves
<1> DEFINE newRef == Again(ref)
<1> HIDE DEF clears, standing, Again, st
<1>11. file' = file \/ (file' \in Files /\ file'.review = file.review
                        /\ file'.st \in {ref.st, "implemented"})
  BY <1>1, <1>5, <1>6, <1>7, <1>8, <1>9
<1>12. newRef \in Files /\ newRef.review = ref.review /\ newRef.st \in {ref.st, "implemented"}
  BY <1>2, <1>5, <1>6, <1>7, <1>8
<1> HIDE DEF newRef
<1>13. CASE d.what # "wait" /\ pass' = [pass EXCEPT ![p] =
               [pc |-> d.what, ref |-> newRef, head |-> pr.head, standing |-> standing]]
  <2>1. d.what \in Deeds
    BY <1>5, <1>13
  <2> QED
    BY <1>1, <1>5, <1>8, <1>11, <1>12, <1>13, <2>1
<1>14. CASE pass' = [pass EXCEPT ![p] = Nowhere]
  BY <1>1, <1>11, <1>14
<1> QED
  BY <1>10, <1>13, <1>14 DEF newRef

\* Which keeps the invariant.
LEMMA LooksKeeps ==
    ASSUME IInv, NEW p \in Passes, Looks(p)
    PROVE  IInv'
<1>1. /\ HeadMoves /\ file' \in Files /\ rec' = rec /\ pr' = pr /\ pr.head \in Nat
      /\ charged' \in 0..MaxReviewAttempts /\ troubles' \in 0..MaxTroubles
  BY LooksMoves, SameHead, Limits DEF IInv, TypeOK, Requests
<1>2. CASE pass' = [pass EXCEPT ![p] = Nowhere]
  <2>1. Nowhere \in PassStates /\ Nowhere.pc = "idle"
    BY DEF PassStates, Nowhere
  <2> QED
    BY <1>1, <1>2, <2>1, StepKeeps DEF Deeds, Working
<1>3. ASSUME NEW ref \in Files, NEW what \in Deeds, NEW standing \in BOOLEAN,
             what = "merge" => pr.passed,
             pass' = [pass EXCEPT ![p] = [pc |-> what, ref |-> ref, head |-> pr.head,
                                          standing |-> standing]]
      PROVE  IInv'
  <2> DEFINE s == [pc |-> what, ref |-> ref, head |-> pr.head, standing |-> standing]
  <2>1. s \in PassStates
    BY Limits DEF IInv, TypeOK, Requests, PassStates
  <2>2. s.pc = what /\ s.head = pr.head
    OBVIOUS
  <2>3. pass' = [pass EXCEPT ![p] = s]
    BY <1>3
  <2> HIDE DEF s
  <2>4. s.head <= pr'.head /\ s.pc \notin {"working", "charging"}
    BY <1>1, <2>2 DEF Deeds
  <2>5. s.pc = "merge" => (s.head = pr'.head => pr'.passed)
    BY <1>1, <1>3, <2>2
  <2> QED
    BY <1>1, <2>1, <2>3, <2>4, <2>5, StepKeeps
<1> QED
  BY <1>2, <1>3, LooksMoves

\* A push: the request moves on to a head on which nobody decided.
LEMMA NewHeadMoves ==
    ASSUME TypeOK, NewHead
    PROVE  HeadMoves /\ pr'.head = pr.head + 1
<1>1. pr \in Requests /\ pr.head \in Nat /\ pr.head < MaxHead /\ posts' = <<>>
  BY Limits DEF TypeOK, Requests, NewHead
<1>2. PICK dirty \in {pr.dirty, FALSE}, approved \in {pr.approved, FALSE} :
         pr' = [pr EXCEPT !.head = @ + 1, !.dirty = dirty, !.approved = approved, !.passed = FALSE]
  BY DEF NewHead
<1>3. dirty \in BOOLEAN /\ approved \in BOOLEAN
  BY <1>1 DEF Requests
<1>4. pr'.head = pr.head + 1 /\ pr.head + 1 \in Heads
  BY <1>1, <1>2, Limits DEF Requests, Heads
<1> HIDE DEF Heads
<1>5. pr' \in Requests
  BY <1>1, <1>2, <1>3, <1>4 DEF Requests
<1>6. posts' \in Seq(Kinds) /\ Len(posts') <= MaxPosts /\ PassedSound'
  BY <1>1, Limits DEF PassedSound
<1> QED
  BY <1>1, <1>4, <1>5, <1>6 DEF HeadMoves

\* Nor did anybody merge it.
LEMMA NewHeadBy ==
    ASSUME TypeOK, NewHead
    PROVE  pr'.by = pr.by
<1>1. pr \in Requests
  BY DEF TypeOK
<1>2. PICK dirty \in {pr.dirty, FALSE}, approved \in {pr.approved, FALSE} :
         pr' = [pr EXCEPT !.head = @ + 1, !.dirty = dirty, !.approved = approved, !.passed = FALSE]
  BY DEF NewHead
<1> QED
  BY <1>1, <1>2 DEF Requests

\* A run that did work is charged: it pushed, or failed by its own fault.
LEMMA RunKeeps ==
    ASSUME IInv, NEW p \in Passes, RunSucceeds(p) \/ RunFails(p)
    PROVE  IInv'
<1> DEFINE s == [pass[p] EXCEPT !.pc = "charging"]
<1>1. TypeOK /\ file \in Files /\ pass[p].pc = "working" /\ rec' = rec /\ troubles' = troubles
  BY DEF IInv, TypeOK, RunSucceeds, RunFails
<1>2. pass[p] \in [pc : Deeds \cup Working, ref : Files, head : Heads, standing : BOOLEAN]
  BY <1>1 DEF TypeOK, PassStates, Nowhere
<1>3. s \in PassStates /\ s.pc = "charging" /\ s.ref = pass[p].ref /\ s.head = pass[p].head
  BY <1>2 DEF PassStates, Working
<1>4. /\ pass[p].head <= pr.head /\ pass[p].ref.review < MaxReviewAttempts
      /\ pass[p].ref.review + 1 \in 0..MaxReviewAttempts
  BY <1>1, <1>2, Limits DEF IInv, ActsSound, RunSound, Working, Files
<1>5. charged' \in 0..MaxReviewAttempts /\ troubles' \in 0..MaxTroubles
  BY <1>1, Limits DEF TypeOK, RunSucceeds, RunFails, Charge
<1>6. CASE RunSucceeds(p)
  <2>1. HeadMoves /\ pr'.head = pr.head + 1 /\ pr.head \in Nat /\ file' = file
        /\ pass' = [pass EXCEPT ![p] = s]
    BY <1>1, <1>6, NewHeadMoves, Limits DEF RunSucceeds, Moves, TypeOK, Requests
  <2>2. pass[p].head <= pr'.head
    BY <1>2, <1>4, <2>1, Limits
  <2> HIDE DEF s
  <2> QED
    BY <1>1, <1>3, <1>4, <1>5, <2>1, <2>2, StepKeeps
<1>7. CASE RunFails(p)
  <2>1. HeadMoves /\ pr' = pr
    BY <1>7, SameHead DEF RunFails
  <2>2. CASE file' = file /\ pass' = [pass EXCEPT ![p] = s]
    <3> HIDE DEF s
    <3> QED
      BY <1>1, <1>3, <1>4, <1>5, <2>1, <2>2, StepKeeps
  <2>3. CASE /\ file' = [file EXCEPT !.st = "review-stuck", !.review = pass[p].ref.review + 1]
             /\ pass' = [pass EXCEPT ![p] = Nowhere]
    <3>1. file' \in Files
      BY <1>1, <1>4, <2>3 DEF Files, Statuses
    <3>2. Nowhere \in PassStates /\ Nowhere.pc = "idle"
      BY DEF PassStates, Nowhere
    <3> QED
      BY <1>1, <1>5, <2>1, <2>3, <3>1, <3>2, StepKeeps DEF Deeds, Working
  <2> QED
    BY <1>7, <2>2, <2>3 DEF RunFails, Stops, Moves
<1> QED
  BY <1>6, <1>7

\* The charge is written down.
LEMMA ChargesKeeps ==
    ASSUME IInv, NEW p \in Passes, Charges(p)
    PROVE  IInv'
<1> DEFINE s == [pass[p] EXCEPT !.pc = "charged"]
<1>1. TypeOK /\ file \in Files /\ pass[p].pc = "charging"
      /\ UNCHANGED <<pr, posts, rec, charged, troubles>>
  BY DEF IInv, TypeOK, Charges
<1>2. pass[p] \in [pc : Deeds \cup Working, ref : Files, head : Heads, standing : BOOLEAN]
  BY <1>1 DEF TypeOK, PassStates, Nowhere
<1>3. s \in PassStates /\ s.pc = "charged" /\ s.head = pass[p].head
  BY <1>2 DEF PassStates, Working
<1>4. pass[p].head <= pr.head /\ pass[p].ref.review + 1 \in 0..MaxReviewAttempts
  BY <1>1, <1>2, Limits DEF IInv, ActsSound, RunSound, Working, Files
<1>5. file' \in Files
  BY <1>1, <1>4, Limits DEF Charges, Files, Statuses
<1>6. pass' = [pass EXCEPT ![p] = s]
  BY DEF Charges, Moves
<1>7. charged' \in 0..MaxReviewAttempts /\ troubles' \in 0..MaxTroubles /\ HeadMoves
  BY <1>1, SameHead DEF TypeOK
<1> HIDE DEF s
<1> QED
  BY <1>1, <1>3, <1>4, <1>5, <1>6, <1>7, StepKeeps

\* A merge of an approved head.
LEMMA MergesMoves ==
    ASSUME IInv, NEW p \in Passes, Merges(p)
    PROVE  pr.passed /\ HeadMoves /\ pr'.head = pr.head
<1>1. TypeOK /\ PassedSound /\ pr \in Requests /\ pr.head \in Nat /\ posts' = posts
      /\ pr' = [pr EXCEPT !.state = "merged", !.by = "shepherd"]
  BY Limits DEF IInv, TypeOK, Requests, Merges
<1>2. pr' \in Requests /\ pr'.head = pr.head
  BY <1>1 DEF Requests
<1>3. pr'.passed = pr.passed
  BY <1>1 DEF Requests
<1>4. pr.passed
  BY DEF IInv, ActsSound, Merges
<1> QED
  BY <1>1, <1>2, <1>3, <1>4 DEF HeadMoves, PassedSound, TypeOK

\* Which keeps the invariant.
LEMMA MergesKeeps ==
    ASSUME IInv, NEW p \in Passes, Merges(p)
    PROVE  IInv'
<1> DEFINE s == [pass[p] EXCEPT !.pc = "merged"]
<1>1. TypeOK /\ file \in Files /\ pass[p].pc = "merge" /\ UNCHANGED <<rec, charged, troubles>>
  BY DEF IInv, TypeOK, Merges
<1>2. pass[p] \in [pc : Deeds \cup Working, ref : Files, head : Heads, standing : BOOLEAN]
  BY <1>1 DEF TypeOK, PassStates, Nowhere
<1>3. s \in PassStates /\ s.pc = "merged" /\ s.head = pass[p].head
  BY <1>2 DEF PassStates, Working
<1>4. pass[p].head <= pr.head
  BY <1>1 DEF IInv, ActsSound, Deeds
<1>5. file' \in Files
  BY <1>1, <1>2 DEF Merges, Keeps, Files
<1>6. pass' = [pass EXCEPT ![p] = s]
  BY DEF Merges, Moves
<1>7. charged' \in 0..MaxReviewAttempts /\ troubles' \in 0..MaxTroubles /\ HeadMoves
      /\ pr'.head = pr.head
  BY <1>1, MergesMoves DEF TypeOK
<1> HIDE DEF s
<1> QED
  BY <1>1, <1>3, <1>4, <1>5, <1>6, <1>7, StepKeeps

-----------------------------------------------------------------------------
\* The steps of others

\* No pass moves.
LEMMA OutsideKeeps ==
    ASSUME IInv, pass' = pass, HeadMoves, file' \in Files,
           rec' \in {Nowhere} \cup [pc : {"project"}, st : Statuses],
           charged' \in 0..MaxReviewAttempts, troubles' \in 0..MaxTroubles
    PROVE  IInv'
<1>1. TypeOK /\ pr.head \in Nat /\ pr'.head \in Nat
  BY Limits DEF IInv, TypeOK, HeadMoves, Requests
<1>2. TypeOK' /\ PassedSound'
  BY <1>1 DEF TypeOK, HeadMoves
<1>3. ASSUME NEW q \in Passes PROVE ActsSound(q)' /\ RunSound(q)'
  <2>1. ActsSound(q) /\ RunSound(q)
    BY DEF IInv
  <2>2. pass[q].pc \in Deeds \cup Working => pass[q].head \in Nat
    BY <1>1, PassFacts, Limits
  <2>3. RunSound(q)'
    BY <2>1 DEF RunSound
  <2>4. ActsSound(q)'
    BY <1>1, <2>1, <2>2 DEF ActsSound, HeadMoves, Deeds
  <2> QED
    BY <2>3, <2>4
<1> QED
  BY <1>2, <1>3 DEF IInv

\* The reconcile pass writes of the file what it likes; only an open request
\* that is lifted out of its stuck review starts the charges again.
RecMoves ==
    /\ UNCHANGED <<pass, pr, posts>>
    /\ file' \in Files /\ rec' \in {Nowhere} \cup [pc : {"project"}, st : Statuses]
    /\ charged' \in 0..MaxReviewAttempts /\ troubles' \in 0..MaxTroubles
    /\ \/ charged' = charged /\ file'.review \in {file.review, 0}
       \/ Lifts /\ file'.review = 0 /\ charged' = 0
    /\ rec' = Nowhere \/ (file' = file /\ rec'.st = file.st)
    /\ file'.st = "review-stuck" => file.st = "review-stuck" \/ Listed = "review-stuck"

\* What its steps do.
LEMMA RecActsMoves ==
    ASSUME TypeOK, RecLists \/ RecActs \/ RecSkips
    PROVE  RecMoves
<1>1. /\ file \in Files /\ file.st \in Statuses
      /\ rec \in {Nowhere} \cup [pc : {"project"}, st : Statuses]
      /\ charged \in 0..MaxReviewAttempts /\ troubles \in 0..MaxTroubles
  BY DEF TypeOK, Files
<1>2. pr.head \in Heads
  BY DEF TypeOK, Requests
<1>3. pr.head \in Numbers /\ NoHead \in Numbers /\ 0 \in 0..MaxReviewAttempts /\ 0 \in Nat
  <2>1. Heads \subseteq Numbers /\ NoHead \in Numbers
    BY Limits
  <2>2. 0 \in 0..MaxReviewAttempts /\ 0 \in Nat
    BY Limits
  <2> QED
    BY <1>2, <2>1, <2>2
<1>4. CASE RecLists
  <2>1. rec' \in {Nowhere} \cup [pc : {"project"}, st : Statuses] /\ troubles' \in 0..MaxTroubles
    BY <1>1, <1>3, <1>4, Limits DEF RecLists
  <2> QED
    BY <1>1, <1>3, <1>4, <2>1 DEF RecLists, RecMoves
<1>5. CASE RecSkips
  BY <1>1, <1>3, <1>5 DEF RecSkips, RecEnds, RecMoves
<1>6. CASE RecFlips
  <2>1. PICK st \in {"merged", "rejected"} :
           file' = [NoReview(file) EXCEPT !.st = st, !.unknown = 0, !.unknownHead = NoHead,
                                          !.prior = pr.head]
    BY <1>6 DEF RecFlips, RecEnds
  <2>2. file' \in Files
    BY <1>1, <1>3, <2>1, ResetTypes DEF Files, Statuses
  <2>3. file'.review = 0
    BY <1>1, <1>3, <2>1, ResetTypes DEF Files
  <2> QED
    BY <1>1, <1>3, <1>6, <2>2, <2>3 DEF RecFlips, RecEnds, RecMoves
<1>7. CASE RecProjects
  <2>1. Target \in Statuses /\ (Target = "review-stuck" => Listed = "review-stuck")
    BY <1>1 DEF Target, Listed, Lifts, Nowhere, Statuses
  <2>2. rec' = Nowhere /\ UNCHANGED <<pass, pr, posts, troubles>>
    BY <1>7 DEF RecProjects, RecEnds
  <2>3. CASE file' = file /\ charged' = charged
    BY <1>1, <1>3, <2>2, <2>3 DEF RecMoves
  <2>4. CASE file' = [file EXCEPT !.st = "needs-triage", !.prior = pr.head] /\ charged' = charged
    <3>1. file' \in Files /\ file'.review = file.review /\ file'.st = "needs-triage"
      BY <1>1, <1>3, <2>4 DEF Files, Statuses
    <3> QED
      BY <1>1, <1>3, <2>2, <2>4, <3>1 DEF RecMoves
  <2>5. CASE /\ file' = [IF Lifts THEN NoReview(file) ELSE file EXCEPT
                            !.st = Target, !.prior = pr.head]
             /\ charged' = IF Lifts THEN 0 ELSE charged
    <3>1. CASE Lifts
      <4>1. file' \in Files /\ file'.review = 0 /\ file'.st = Target
        BY <1>1, <1>3, <2>1, <2>5, <3>1, ResetTypes DEF Files
      <4> QED
        BY <1>1, <1>3, <2>1, <2>2, <2>5, <3>1, <4>1 DEF RecMoves
    <3>2. CASE ~Lifts
      <4>1. file' \in Files /\ file'.review = file.review /\ file'.st = Target
        BY <1>1, <1>3, <2>1, <2>5, <3>2 DEF Files
      <4> QED
        BY <1>1, <1>3, <2>1, <2>2, <2>5, <3>2, <4>1 DEF RecMoves
    <3> QED
      BY <3>1, <3>2
  <2> QED
    BY <1>7, <2>3, <2>4, <2>5 DEF RecProjects, RecEnds
<1> QED
  BY <1>4, <1>5, <1>6, <1>7 DEF RecActs

\* Bots post, people push, review and end the request, the base branch moves.
GitHub == BotPosts \/ PersonPushes \/ PersonEnds \/ PersonReviews \/ BaseMoves

\* What they do to the request.
LEMMA GitHubMoves ==
    ASSUME IInv, GitHub
    PROVE  HeadMoves /\ UNCHANGED <<file, pass, rec, charged, troubles>>
<1>1. /\ TypeOK /\ PassedSound /\ pr \in Requests /\ pr.head \in Nat
      /\ posts \in Seq(Kinds) /\ Len(posts) <= MaxPosts
  BY Limits DEF IInv, TypeOK, Requests
<1>2. UNCHANGED <<file, pass, rec, charged, troubles>>
  BY DEF GitHub, BotPosts, PersonPushes, PersonEnds, PersonReviews, BaseMoves
<1>3. CASE BotPosts
  <2>1. PICK k \in Posted : /\ posts' = Append(posts, k)
                            /\ pr' = [pr EXCEPT !.passed = @ \/ k \in {"approve", "clean"}]
    BY <1>3 DEF BotPosts
  <2>2. k \in Kinds /\ Len(posts) < MaxPosts /\ Len(posts) \in Nat
    BY <1>1, <1>3, Limits DEF BotPosts
  <2>3. posts' \in Seq(Kinds) /\ Len(posts') <= MaxPosts
    BY <1>1, <2>1, <2>2, Limits
  <2> DEFINE passed == pr.passed \/ k \in {"approve", "clean"}
  <2>4. passed \in BOOLEAN /\ (pr.passed => passed) /\ (k \in {"approve", "clean"} => passed)
    OBVIOUS
  <2>5. pr' = [pr EXCEPT !.passed = passed]
    BY <1>1, <2>1
  <2> HIDE DEF passed
  <2>6. pr' \in Requests /\ pr'.head = pr.head
    BY <1>1, <2>4, <2>5 DEF Requests
  <2>7. pr'.passed = passed
    BY <1>1, <2>5 DEF Requests
  <2>8. ASSUME NEW i \in DOMAIN posts', posts'[i] \in {"approve", "clean"} PROVE passed
    <3>1. CASE i \in DOMAIN posts
      <4>1. posts'[i] = posts[i]
        BY <1>1, <2>1, <2>2, <3>1
      <4> QED
        BY <1>1, <2>4, <2>8, <3>1, <4>1 DEF PassedSound
    <3>2. CASE i \notin DOMAIN posts
      <4>1. posts'[i] = k
        BY <1>1, <2>1, <2>2, <3>2
      <4> QED
        BY <2>4, <2>8, <4>1
    <3> QED
      BY <3>1, <3>2
  <2>9. PassedSound'
    BY <2>7, <2>8 DEF PassedSound
  <2>10. pr.passed => pr'.passed
    BY <2>4, <2>7
  <2>11. pr.head <= pr'.head
    BY <1>1, <2>6
  <2> QED
    BY <1>2, <2>3, <2>6, <2>9, <2>10, <2>11 DEF HeadMoves
<1>4. CASE PersonPushes
  BY <1>1, <1>4, NewHeadMoves DEF PersonPushes
<1>5. CASE PersonEnds \/ PersonReviews \/ BaseMoves
  <2>1. posts' = posts
    BY <1>5 DEF PersonEnds, PersonReviews, BaseMoves
  <2>2. PICK state \in {"open", "merged", "closed"}, by \in {"nobody", "shepherd", "person"},
             dirty \in BOOLEAN, approved \in BOOLEAN :
           \/ pr' = [pr EXCEPT !.state = state, !.by = by]
           \/ pr' = [pr EXCEPT !.approved = approved]
           \/ pr' = [pr EXCEPT !.dirty = dirty]
    BY <1>5 DEF PersonEnds, PersonReviews, BaseMoves
  <2>3. pr' \in Requests /\ pr'.head = pr.head
    BY <1>1, <2>2 DEF Requests
  <2>4. pr'.passed = pr.passed
    BY <1>1, <2>2 DEF Requests
  <2>5. PassedSound' /\ (pr.passed => pr'.passed)
    BY <1>1, <2>1, <2>4 DEF PassedSound
  <2>6. pr.head <= pr'.head /\ posts' \in Seq(Kinds) /\ Len(posts') <= MaxPosts
    BY <1>1, <2>1, <2>3
  <2> QED
    BY <1>2, <2>3, <2>5, <2>6 DEF HeadMoves
<1> QED
  BY <1>2, <1>3, <1>4, <1>5 DEF GitHub
-----------------------------------------------------------------------------
\* The invariant, and what a merge rests on

\* Every step keeps the invariant.
LEMMA NextKeeps ==
    ASSUME IInv, [Next]_vars
    PROVE  IInv'
<1>1. ASSUME NEW p \in Passes, Acts(p) \/ Skips(p) \/ RunIsLost(p) \/ Killed(p) PROVE IInv'
  BY <1>1, EndsMoves, EndsKeeps, StartKeeps, LooksKeeps, RunKeeps, ChargesKeeps, MergesKeeps
     DEF Acts, RunEnds
<1>2. CASE RecLists \/ RecActs \/ RecSkips
  BY <1>2, RecActsMoves, SameHead, OutsideKeeps DEF IInv, RecMoves
<1>3. CASE GitHub
  BY <1>3, GitHubMoves, OutsideKeeps DEF IInv, TypeOK
<1>4. CASE UNCHANGED vars
  BY <1>4, SameHead, OutsideKeeps DEF IInv, TypeOK, vars
<1> QED
  BY <1>1, <1>2, <1>3, <1>4 DEF Next, GitHub

\* It holds at the start.
LEMMA Start == Init => IInv
<1> SUFFICES ASSUME Init PROVE IInv
  OBVIOUS
<1>1. file \in Files
  BY ResetTypes, Limits DEF Init, Fresh, Files, Statuses
<1>2. pr \in Requests
  BY Limits DEF Init, Requests
<1>3. TypeOK
  BY <1>1, <1>2, Limits DEF Init, TypeOK, PassStates
<1>4. PassedSound
  BY DEF Init, PassedSound
<1>5. \A p \in Passes : ActsSound(p) /\ RunSound(p)
  BY DEF Init, Nowhere, ActsSound, RunSound, Deeds, Working
<1> QED
  BY <1>3, <1>4, <1>5 DEF IInv

\* The inductive invariant: types, approvals that are marked on their head, and
\* passes that act on such a head and pay below the cap.
THEOREM Invariant == Spec => []IInv
  BY Start, NextKeeps, PTL DEF Spec


\* Every variable keeps its type, and no more follow-up runs are charged than
\* MAX_REVIEW_ATTEMPTS (_status_patch, process_one).
THEOREM TypeCorrect == Spec => []TypeOK
<1>1. IInv => TypeOK
  BY DEF IInv
<1> QED
  BY <1>1, Invariant, PTL

\* The shepherd merges only a head on which the review bot approved, however
\* many passes overlap, whatever is pushed in between, and whichever listings of
\* the reviews fail (decide, merge_pr_unchecked).
THEOREM MergesApprovedHolds == Spec => MergesApproved
<1>1. ASSUME IInv, [Next]_vars, pr'.by = "shepherd", pr.by # "shepherd"
      PROVE  pr.passed
  <2>1. pr' # pr
    BY <1>1
  <2>2. ASSUME NEW p \in Passes, Acts(p) \/ Skips(p) \/ RunIsLost(p) \/ Killed(p)
        PROVE  pr.passed
    <3>1. CASE Merges(p)
      BY <1>1, <3>1, MergesMoves
    <3>2. CASE RunSucceeds(p)
      BY <1>1, <3>2, NewHeadBy DEF RunSucceeds, IInv
    <3>3. CASE ~Merges(p) /\ ~RunSucceeds(p)
      BY <1>1, <2>1, <2>2, <3>3, EndsMoves, LooksMoves
         DEF Acts, RunEnds, List, StartsRun, RunFails, Charges, Ends
    <3> QED
      BY <3>1, <3>2, <3>3
  <2>3. CASE RecLists \/ RecActs \/ RecSkips
    BY <1>1, <2>1, <2>3, RecActsMoves DEF IInv, RecMoves
  <2>4. CASE GitHub
    <3>1. pr \in Requests /\ TypeOK
      BY <1>1 DEF IInv, TypeOK
    <3>2. CASE PersonPushes
      BY <1>1, <3>1, <3>2, NewHeadBy DEF PersonPushes
    <3>3. CASE BotPosts \/ PersonEnds \/ PersonReviews \/ BaseMoves
      <4>1. pr'.by \in {pr.by, "person"}
        BY <3>1, <3>3 DEF BotPosts, PersonEnds, PersonReviews, BaseMoves, Requests
      <4> QED
        BY <1>1, <4>1
    <3> QED
      BY <2>4, <3>2, <3>3 DEF GitHub
  <2>5. CASE UNCHANGED vars
    BY <2>1, <2>5 DEF vars
  <2> QED
    BY <1>1, <2>2, <2>3, <2>4, <2>5 DEF Next, GitHub
<1>2. IInv /\ [Next]_vars => [pr'.by = "shepherd" /\ pr.by # "shepherd" => pr.passed]_vars
  BY <1>1
<1> QED
  BY <1>2, Invariant, PTL DEF Spec, MergesApproved
-----------------------------------------------------------------------------
\* What an attempt on record rests on, if passes do not overlap

\* The attempts a pass read are charged ones; a pass that is about to write one
\* down has charged for it; and no pass works on a proposal that is stuck.
ChargeSound(p) ==
    /\ pass[p].pc # "idle" => pass[p].ref.review <= charged /\ pass[p].ref.st # "review-stuck"
    /\ pass[p].pc = "charging" => pass[p].ref.review < charged

\* While a review is stuck no pass works, and the reconcile pass that listed it
\* as stuck still finds it so.
StuckSound ==
    /\ file.st = "review-stuck" => \A p \in Passes : pass[p].pc = "idle"
    /\ rec.pc = "project" /\ rec.st = "review-stuck" => file.st = "review-stuck"

Charged == BlamelessIsFree /\ StuckSound /\ \A p \in Passes : ChargeSound(p)

\* What the only pass does, in terms of what it knows afterwards.
OnlyPass(p) ==
    /\ pass[p].pc # "idle" /\ rec' = rec
    /\ file'.review <= charged'
    /\ \/ pass'[p].pc = "idle"
       \/ /\ file'.st # "review-stuck"
          /\ pass'[p].ref.review <= charged' /\ pass'[p].ref.st # "review-stuck"
          /\ pass'[p].pc = "charging" => pass'[p].ref.review < charged'

\* No other pass is there to know better.
LEMMA OnlyPassKeeps ==
    ASSUME \A p, q \in Passes : p = q, IInv, Charged, NEW p \in Passes, OnlyPass(p)
    PROVE  Charged'
<1>1. \A q \in Passes : q = p
  OBVIOUS
<1>2. file.st # "review-stuck"
  BY DEF Charged, StuckSound, OnlyPass
<1>3. ~(rec.pc = "project" /\ rec.st = "review-stuck")
  BY <1>2 DEF Charged, StuckSound
<1>4. ChargeSound(p)'
  BY DEF OnlyPass, ChargeSound
<1>5. StuckSound'
  BY <1>1, <1>3 DEF OnlyPass, StuckSound
<1>6. BlamelessIsFree'
  BY DEF OnlyPass, BlamelessIsFree
<1> QED
  BY <1>1, <1>4, <1>5, <1>6 DEF Charged


\* Whatever ends a pass, charges or lists as it does.
LEMMA OnlyPassMoves ==
    ASSUME IInv, Charged, NEW p \in Passes,
           Acts(p) \/ Skips(p) \/ RunIsLost(p) \/ Killed(p), ~List(p)
    PROVE  OnlyPass(p)
<1> DEFINE ref == pass[p].ref
<1>1. /\ TypeOK /\ pass \in [Passes -> PassStates] /\ file.review <= charged
      /\ file.review \in Nat /\ charged \in 0..MaxReviewAttempts
  BY Limits DEF IInv, TypeOK, Charged, BlamelessIsFree, Files
<1>2. /\ pass[p].pc # "idle" => ref \in Files /\ ref.review <= charged /\ ref.st # "review-stuck"
      /\ pass[p].pc = "charging" => ref.review < charged
  BY <1>1, PassFacts DEF Charged, ChargeSound
<1>3. pass[p].pc # "idle" => file.st # "review-stuck" /\ ref.review \in Nat
  BY <1>2, Limits DEF Charged, StuckSound, Files
<1>4. CASE Ends(p)
  BY <1>1, <1>4 DEF Ends, OnlyPass, Nowhere
<1>5. CASE Looks(p)
  <2>1. pass[p].pc = "listed" /\ charged' = charged /\ rec' = rec
    BY <1>5, LooksMoves
  <2>2. file'.review <= charged /\ file'.st # "review-stuck"
    BY <1>1, <1>2, <1>3, <1>5, <2>1, LooksMoves
  <2>3. CASE pass' = [pass EXCEPT ![p] = Nowhere]
    BY <1>1, <2>1, <2>2, <2>3 DEF OnlyPass, Nowhere
  <2>4. ASSUME NEW now \in Files, NEW what \in Deeds, NEW standing \in BOOLEAN,
               now.review = ref.review, now.st \in {ref.st, "implemented"},
               pass' = [pass EXCEPT ![p] = [pc |-> what, ref |-> now, head |-> pr.head,
                                            standing |-> standing]]
        PROVE  OnlyPass(p)
    <3>1. pass'[p].pc = what /\ pass'[p].ref = now
      BY <1>1, <2>4
    <3> QED
      BY <1>2, <2>1, <2>2, <2>4, <3>1 DEF OnlyPass, Deeds
  <2> QED
    BY <1>5, <2>3, <2>4, LooksMoves
<1>6. CASE StartsRun(p) \/ Merges(p)
  <2>1. PICK pc \in {"working", "merged"} :
           /\ pass[p].pc \notin {"idle", "listed"} /\ charged' = charged /\ rec' = rec
           /\ pass' = [pass EXCEPT ![p] = [@ EXCEPT !.pc = pc]]
    BY <1>6 DEF StartsRun, Merges, Moves
  <2>2. pass'[p].ref = ref /\ pass'[p].pc = pc
    BY <1>1, <2>1 DEF PassStates, Nowhere
  <2>3. file'.review = file.review /\ file'.st \in {file.st, ref.st}
    BY <1>1, <1>6 DEF StartsRun, Merges, Keeps, TypeOK, Files
  <2> QED
    BY <1>1, <1>2, <1>3, <2>1, <2>2, <2>3 DEF OnlyPass
<1>7. CASE RunSucceeds(p) \/ RunFails(p)
  <2>1. pass[p].pc = "working" /\ rec' = rec
    BY <1>7 DEF RunSucceeds, RunFails
  <2>2. ref.review < MaxReviewAttempts
    BY <2>1 DEF IInv, RunSound
  <2>3. charged <= charged' /\ ref.review < charged' /\ charged' \in Nat
    BY <1>1, <1>2, <1>3, <1>7, <2>1, <2>2, Limits DEF RunSucceeds, RunFails, Charge
  <2>4. CASE file' = file /\ pass' = [pass EXCEPT ![p] = [@ EXCEPT !.pc = "charging"]]
    <3>1. pass'[p].ref = ref /\ pass'[p].pc = "charging"
      BY <1>1, <2>1, <2>4 DEF PassStates, Nowhere
    <3> QED
      BY <1>1, <1>2, <1>3, <2>1, <2>3, <2>4, <3>1 DEF OnlyPass
  <2>5. CASE /\ file' = [file EXCEPT !.st = "review-stuck", !.review = ref.review + 1]
             /\ pass' = [pass EXCEPT ![p] = Nowhere]
    <3>1. file'.review = ref.review + 1 /\ pass'[p].pc = "idle"
      BY <1>1, <2>5 DEF TypeOK, Files, Nowhere
    <3> QED
      BY <1>3, <2>1, <2>3, <3>1 DEF OnlyPass
  <2> QED
    BY <1>7, <2>4, <2>5 DEF RunSucceeds, RunFails, Moves, Stops
<1>8. CASE Charges(p)
  <2>1. pass[p].pc = "charging" /\ charged' = charged /\ rec' = rec
        /\ pass' = [pass EXCEPT ![p] = [@ EXCEPT !.pc = "charged"]]
    BY <1>8 DEF Charges, Moves
  <2>2. file'.review = ref.review + 1 /\ file'.st = "review-fixing"
    BY <1>1, <1>8 DEF Charges, TypeOK, Files
  <2>3. pass'[p].ref = ref /\ pass'[p].pc = "charged"
    BY <1>1, <2>1 DEF PassStates, Nowhere
  <2> QED
    BY <1>1, <1>2, <1>3, <2>1, <2>2, <2>3, Limits DEF OnlyPass
<1> QED
  BY <1>4, <1>5, <1>6, <1>7, <1>8, EndsMoves DEF Acts, RunEnds

\* Listing a file reads no more attempts than are charged.
LEMMA ListKeeps ==
    ASSUME \A p, q \in Passes : p = q, IInv, Charged, NEW p \in Passes, List(p)
    PROVE  Charged'
<1>1. /\ pass[p].pc = "idle" /\ file.st # "review-stuck" /\ UNCHANGED <<file, rec, charged>>
      /\ pass \in [Passes -> PassStates]
  BY DEF List, IInv, TypeOK
<1>2. PICK fixOnly \in BOOLEAN :
         pass' = [pass EXCEPT ![p] = [pc |-> "listed", ref |-> file, fixOnly |-> fixOnly]]
  BY DEF List, Moves
<1>3. pass'[p].pc = "listed" /\ pass'[p].ref = file
  BY <1>1, <1>2
<1>4. ChargeSound(p)'
  BY <1>1, <1>3 DEF ChargeSound, Charged, BlamelessIsFree
<1>5. \A q \in Passes : q = p
  OBVIOUS
<1>6. StuckSound' /\ BlamelessIsFree'
  BY <1>1 DEF StuckSound, BlamelessIsFree, Charged
<1> QED
  BY <1>4, <1>5, <1>6 DEF Charged

\* A review is lifted, or its attempts are forgotten, while no pass works.
LEMMA RecKeepsCharged ==
    ASSUME IInv, Charged, RecMoves
    PROVE  Charged'
<1>1. file.review \in Nat /\ charged \in Nat /\ file.review <= charged
  BY Limits DEF IInv, TypeOK, Files, Charged, BlamelessIsFree
<1>2. pass' = pass
  BY DEF RecMoves
<1>3. Listed = "review-stuck" => \A p \in Passes : pass[p].pc = "idle"
  BY DEF Listed, Charged, StuckSound
<1>4. BlamelessIsFree'
  BY <1>1 DEF RecMoves, BlamelessIsFree
<1>5. StuckSound'
  BY <1>2, <1>3 DEF RecMoves, Charged, StuckSound, Nowhere
<1>6. ASSUME NEW p \in Passes PROVE ChargeSound(p)'
  BY <1>2, <1>3 DEF RecMoves, Lifts, Charged, ChargeSound
<1> QED
  BY <1>4, <1>5, <1>6 DEF Charged

\* "the proposal is blameless, so it must not be charged an attempt": the
\* attempts on record are follow-up runs that pushed or failed by their own
\* fault since the last reset (process_one).  The assumption is that of the cron
\* workflow, whose passes do not overlap.
THEOREM BlamelessIsFreeHolds ==
    ASSUME \A p, q \in Passes : p = q
    PROVE  Spec => []BlamelessIsFree
<1>1. Init => Charged
  <2>1. Init => file.review = 0 /\ charged = 0 /\ file.st # "review-stuck"
    BY DEF Init, Fresh
  <2> QED
    BY <2>1 DEF Init, Nowhere, Charged, BlamelessIsFree, StuckSound, ChargeSound
<1>2. ASSUME IInv, Charged, [Next]_vars PROVE Charged'
  <2>1. ASSUME NEW p \in Passes, Acts(p) \/ Skips(p) \/ RunIsLost(p) \/ Killed(p)
        PROVE  Charged'
    <3>1. CASE List(p)
      BY <1>2, <3>1, ListKeeps
    <3>2. CASE ~List(p)
      BY <1>2, <2>1, <3>2, OnlyPassMoves, OnlyPassKeeps
    <3> QED
      BY <3>1, <3>2
  <2>2. CASE RecLists \/ RecActs \/ RecSkips
    BY <1>2, <2>2, RecActsMoves, RecKeepsCharged DEF IInv
  <2>3. CASE GitHub \/ UNCHANGED vars
    <3>1. UNCHANGED <<file, pass, rec, charged>>
      BY <1>2, <2>3, GitHubMoves DEF vars
    <3> QED
      BY <1>2, <3>1 DEF Charged, BlamelessIsFree, StuckSound, ChargeSound
  <2> QED
    BY <1>2, <2>1, <2>2, <2>3 DEF Next, GitHub
<1>3. Charged => BlamelessIsFree
  BY DEF Charged
<1> QED
  BY <1>1, <1>2, <1>3, Invariant, PTL DEF Spec
=============================================================================

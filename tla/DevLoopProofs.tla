---------------------------- MODULE DevLoopProofs ----------------------------
(***************************************************************************)
(* Proofs about DevLoop, for any requests and surfaces and any bounds: the *)
(* types, that a flip and an implementer go out on a decision a person     *)
(* took, and that a resume from elsewhere ends well only on a later one.   *)
(***************************************************************************)
EXTENDS DevLoop, TLAPS, FiniteSetTheorems

\* A version of a text that is not the one now at that directory, for good.
OldAt(dig, slug) == dig[1] # slug \/ dig[2] < text.version[slug]

\* A grant stands for a version there has been.
GrantsSound ==
    \A g \in grants.asked : g.dig[1] = g.slug /\ g.dig[2] <= text.version[g.slug]

\* Of the approval a: the grant to wait for is of this attempt and of the
\* version to keep fresh.
RequestedSound(a) ==
    a.requested # NoRef =>
        /\ a.requested \in grants.asked /\ a.requested.att = a.attempt
        /\ a.requested.dig = a.digest /\ a.slug # 0

\* The decision is one a person took, on no grant that was superseded, and not
\* in an attempt that a transition has ended unless a grant was superseded.
RefSound(a) ==
    a.ref # NoRef =>
        /\ a.ok /\ a.ref \in grants.decided \ a.superseded /\ a.ref.att <= a.attempt
        /\ a.count = 0 => a.ref.att > ended

\* What was signalled is decided, and what was superseded or ended is of an
\* earlier attempt.
AttemptSound(a) ==
    /\ a.signalled \subseteq grants.decided
    /\ ended < a.attempt /\ \A g \in a.superseded : g.att < a.attempt
    /\ a.note => 0 < a.count

Chosen(a) == RequestedSound(a) /\ RefSound(a) /\ AttemptSound(a)

AskPcs == {"ask", "asking", "posting"}
Past   == {"own-end", "resolve", "gatewait", "gatepark"}

\* The flip is behind the loop, and the implementer is not.
Flipped == pc \in Past \/ (pc \in AskPcs /\ back = "gatepark")
Early   == pc \notin Over /\ ~Flipped

\* Until the flip a grant is one of the loop's own execution, and a decision on
\* another than the one waited for is on an older text.
Mine(g) == g = NoRef \/ g.ex = OwnExecution

Older(g, h) == g.dig[1] # h.dig[1] \/ g.dig[2] < h.dig[2]

EarlySound(a) ==
    /\ Mine(a.ref) /\ Mine(a.requested)
    /\ a.ref = NoRef \/ a.requested = NoRef \/ a.ref = a.requested \/ Older(a.ref, a.requested)

\* After it a grant is spent, or of another execution; that another one is
\* asked for is the doing of a transition.
Settled(g) == g = NoRef \/ g \in grants.spent \/ g.ex # OwnExecution

LateSound(a) ==
    /\ Settled(a.ref) /\ Settled(a.requested)
    /\ a.ref # NoRef \/ 0 < res.mark

PlaceSound ==
    /\ Early => EarlySound(apr)
    /\ Flipped => LateSound(apr)
    /\ pc = "investigate" => apr.ref = NoRef /\ apr.requested = NoRef

\* A loop asks when it has no decision.
AskSound ==
    /\ pc \in AskPcs =>
          /\ back \in {"park", "prepark", "gatepark"}
          /\ call.ex = OwnExecution <=> back # "gatepark"
    /\ pc \in {"ask", "asking"} /\ apr.ref # NoRef => apr.ref = apr.requested

\* A comment is posted about a grant of the attempt it was asked in.
PostSound ==
    pc = "posting" =>
        /\ call.ref \in grants.asked /\ call.ref.att = call.attempt /\ call.ref.ex = call.ex
        /\ call.approved => call.ref \in grants.decided
        /\ apr.requested \in {NoRef, call.ref}
        /\ 0 < apr.count
        /\ \A g \in apr.superseded : g.att < call.attempt

\* A check is about a grant of the attempt it was made in.
CheckSound ==
    /\ pc \in {"asking", "posting", "checking"} => call.attempt <= apr.attempt
    /\ pc = "checking" =>
          /\ call.ref \in Grants /\ call.ref.att <= call.attempt
          /\ back \in {"park", "prepark", "ensure", "retry"}
          /\ back = "ensure" =>
                /\ call.slug = flipSlug
                /\ IF call.attempt = apr.attempt THEN apr.ref # NoRef ELSE apr.refresh
    /\ pc = "unreadable" => apr.ref # NoRef \/ apr.refresh

\* A flip goes out with the decision, and no other one of this execution can
\* come in before it is spent or refused.
FlipSound ==
    pc = "flipping" =>
        /\ call.ref \in grants.decided /\ call.ref.ex = OwnExecution
        /\ apr.ref # NoRef \/ 0 < res.mark
        /\ \A g \in {apr.ref, apr.requested} :
              g \in {NoRef, call.ref} \/ OldAt(call.ref.dig, call.slug)

\* What is claimed of a loop that has not passed its gates.
Waiting ==
    /\ Chosen(apr) /\ 0 < res.execs
    /\ PlaceSound /\ AskSound /\ PostSound /\ CheckSound /\ FlipSound

\* Where a loop is that has passed its gates.
Through == {"implement", "watch", "hop", "gap"}

GatesSound ==
    /\ pc \in Through => flags.gates
    /\ flags.gates => pc \in Through \cup Over
    /\ pc \notin Over => apr.count <= MaxSupersedes

\* ResumeIsDecided without the count.
Alone == \A r, s \in Open : r = s

LandsDecided ==
    \A r \in Requests :
        dlv[r].tr /\ dlv[r].phase = "Succeeded" /\ ~flags.gates /\ apr.count = 0
            => dlv[r].job # "none" /\ \E g \in grants.decided : g.att > ended

IInv ==
    /\ TypeOK /\ GrantsSound /\ GatesSound /\ Alone /\ LandsDecided
    /\ ~flags.gates => Waiting
-----------------------------------------------------------------------------
\* Types

\* The bounds are numbers, and no name is taken twice.
LEMMA Limits ==
    /\ MaxSupersedes \in Nat /\ MaxResumes \in Nat /\ MaxRewrites \in Nat
    /\ NoRef \notin Grants /\ NoSurface \notin Surfaces /\ 1 \in Slugs
  BY LimitAssumption, RefAssumption, SurfaceAssumption DEF Slugs

\* The text of a directory is one of its versions.
LEMMA DigestTypes ==
    ASSUME TypeOK, NEW s \in Slugs
    PROVE  /\ Digest(s) \in Digests /\ Digest(s)[1] = s /\ Digest(s)[2] = text.version[s]
           /\ text.version[s] \in Nat
  BY Limits DEF TypeOK, Digest, Digests

\* What a grant is made of.
LEMMA GrantTypes ==
    ASSUME NEW g \in Grants
    PROVE  /\ g.att \in Nat /\ g.ex \in Nat /\ g.slug \in Slugs
           /\ g.dig[1] \in Slugs /\ g.dig[2] \in Nat /\ g.dig = <<g.dig[1], g.dig[2]>>
  BY Limits DEF Grants, Digests

\* What the workflow reads of itself.
LEMMA CallTypes == NoCall \in Calls /\ NoCall.ref = NoRef
  BY Limits DEF NoCall, Calls, Refs, OwnExecution

\* The approval of a new workflow object.
LEMMA NoApprovalTypes ==
    /\ NoApproval \in Approvals /\ NoApproval.ref = NoRef /\ NoApproval.requested = NoRef
    /\ NoApproval.signalled = {} /\ NoApproval.superseded = {} /\ NoApproval.count = 0
    /\ NoApproval.attempt = 0 /\ ~NoApproval.ok
  BY Limits DEF NoApproval, Approvals, Refs

\* What a transition leaves of the approval.
LEMMA RearmedTypes ==
    ASSUME apr \in Approvals
    PROVE  /\ Rearmed \in Approvals /\ Rearmed.ref = NoRef /\ Rearmed.requested = NoRef
           /\ Rearmed.signalled = {} /\ Rearmed.attempt = apr.attempt + 1
           /\ Rearmed.superseded = apr.superseded /\ Rearmed.count = apr.count
           /\ Rearmed.note = apr.note /\ Rearmed.slug = apr.slug /\ Rearmed.digest = apr.digest
           /\ Rearmed.refresh
<1>1. apr.attempt + 1 \in Nat /\ NoRef \in Refs /\ {} \in SUBSET Grants
  BY DEF Approvals, Refs
<1>2. /\ apr.superseded \in SUBSET Grants /\ apr.digest \in Digests \cup {<<>>}
      /\ apr.slug \in Slugs \cup {0} /\ apr.count \in Nat /\ apr.note \in BOOLEAN
  BY DEF Approvals
<1> QED
  BY <1>1, <1>2 DEF Rearmed, Approvals

\* What a signal with a ref leaves of it.
LEMMA ApprovedTypes ==
    ASSUME apr \in Approvals, NEW g \in Grants
    PROVE  LET a == ApproveWith(g)
           IN  /\ a \in Approvals /\ a.requested = apr.requested /\ a.attempt = apr.attempt
               /\ a.superseded = apr.superseded /\ a.count = apr.count /\ a.digest = apr.digest
               /\ a.slug = apr.slug /\ a.ok /\ (a.note <=> apr.note) /\ (a.refresh <=> apr.refresh)
               /\ a.signalled \subseteq apr.signalled \cup {g}
               /\ \/ a.ref = apr.ref
                  \/ a.ref = g /\ g = apr.requested /\ g \notin apr.superseded
<1>1. CASE g \in apr.superseded
  BY <1>1 DEF ApproveWith, Approvals
<1>2. CASE g \notin apr.superseded
  <2>1. apr.signalled \cup {g} \in SUBSET Grants /\ g \in Refs
    BY DEF Approvals, Refs
  <2>2. PICK ref \in {g, apr.ref} :
           /\ ApproveWith(g) = [apr EXCEPT !.ok = TRUE, !.signalled = @ \cup {g}, !.ref = ref]
           /\ ref = g => g = apr.requested \/ g = apr.ref
    BY <1>2 DEF ApproveWith
  <2>3. ref \in Refs
    BY <2>1 DEF Approvals
  <2> QED
    BY <1>2, <2>1, <2>2, <2>3 DEF Approvals
<1> QED
  BY <1>1, <1>2

\* A grant that is found or created for the request in flight.
LEMMA AskedTypes ==
    ASSUME TypeOK
    PROVE  /\ Asked \in Grants /\ Asked.att = call.attempt /\ Asked.ex = call.ex
           /\ Asked.slug = call.slug /\ Asked.dig = Digest(call.slug)
  BY DigestTypes DEF TypeOK, Calls, Asked, Grants

\* What its answer makes of the approval.
LEMMA AdoptedTypes ==
    ASSUME TypeOK
    PROVE  /\ Adopted \in Approvals /\ Adopted.requested = Asked /\ Adopted.ref = apr.ref
           /\ Adopted.slug = call.slug /\ Adopted.digest = Digest(call.slug)
           /\ Adopted.attempt = apr.attempt /\ Adopted.superseded = apr.superseded
           /\ Adopted.count = apr.count /\ Adopted.signalled = apr.signalled
           /\ (Adopted.ok <=> apr.ok) /\ ~Adopted.note /\ (Adopted.refresh <=> apr.refresh)
<1>1. /\ Asked \in Refs /\ call.slug \in Slugs \cup {0}
      /\ Digest(call.slug) \in Digests \cup {<<>>} /\ apr \in Approvals
  BY AskedTypes, DigestTypes DEF TypeOK, Calls, Refs
<1> QED
  BY <1>1 DEF Adopted, Approvals

\* What a decision that was there already makes of it.
LEMMA DecidedTypes ==
    ASSUME NEW a \in Approvals, NEW g \in Refs, NEW approved \in BOOLEAN
    PROVE  LET d == DecidedAlready(a, g, approved)
           IN  /\ d \in Approvals /\ d.requested = a.requested /\ d.attempt = a.attempt
               /\ d.superseded = a.superseded /\ d.count = a.count /\ d.digest = a.digest
               /\ d.slug = a.slug /\ d.signalled = a.signalled
               /\ (d.note <=> a.note) /\ (d.refresh <=> a.refresh)
               /\ \/ d.ref = a.ref /\ (d.ok <=> a.ok)
                  \/ d.ref = g /\ d.ok /\ (approved \/ g \in a.signalled)
  BY DEF DecidedAlready, Approvals

\* What is left of the approval when its grant is stale.
LEMMA SupersededTypes ==
    ASSUME TypeOK, call.ref \in Grants
    PROVE  /\ Superseded \in Approvals /\ Superseded.ref = NoRef
           /\ Superseded.requested = NoRef /\ Superseded.signalled = {}
           /\ Superseded.superseded = apr.superseded \cup {call.ref}
           /\ Superseded.attempt = apr.attempt + 1 /\ Superseded.count = apr.count + 1
           /\ ~Superseded.ok /\ Superseded.refresh /\ Superseded.note
<1>1. /\ apr.superseded \cup {call.ref} \in SUBSET Grants /\ apr.slug \in Slugs \cup {0}
      /\ apr.attempt + 1 \in Nat /\ apr.count + 1 \in Nat
  BY DEF TypeOK, Approvals
<1> QED
  BY <1>1, NoApprovalTypes DEF Superseded, NoApproval, Approvals, Refs

\* The approval that is the same but for the tick, or for a decision without a
\* grant that is dropped.
Like(a, b) ==
    /\ b \in Approvals /\ b.ref = a.ref /\ b.requested = a.requested /\ b.slug = a.slug
    /\ b.signalled = a.signalled /\ b.superseded = a.superseded /\ b.digest = a.digest
    /\ b.attempt = a.attempt /\ b.count = a.count /\ (b.note <=> a.note)
    /\ a.ok => b.ok \/ a.ref = NoRef

\* The ways of being like it.
LEMMA LikeTypes ==
    ASSUME NEW a \in Approvals
    PROVE  /\ Like(a, a) /\ Like(a, [a EXCEPT !.refresh = FALSE])
           /\ [a EXCEPT !.refresh = FALSE].ok = a.ok
           /\ Like(a, IF a.ref = NoRef THEN [a EXCEPT !.ok = FALSE] ELSE a)
  BY DEF Like, Approvals

-----------------------------------------------------------------------------
\* Where a step of the coroutine leads

\* What it writes of its own.
RunTypes ==
    /\ pc \in Pcs /\ back \in Backs /\ call \in Calls /\ flipSlug \in Slugs /\ why \in Whys
    /\ apr \in Approvals /\ apr.count \in 0 .. MaxSupersedes + 1

\* It parks, or goes on.
LEMMA GotoTypes ==
    ASSUME TypeOK, NEW to \in Pcs, NEW a \in Approvals, a.count \in 0 .. MaxSupersedes + 1,
           Goto(to, a)
    PROVE  RunTypes' /\ pc' = to /\ apr' = a /\ call' = NoCall
  BY CallTypes DEF Goto, NoLongerCalls, RunTypes, TypeOK, Backs

\* It leaves.
LEMMA ExitTypes ==
    ASSUME TypeOK, NEW reason \in Whys, NEW a \in Approvals, a.count \in 0 .. MaxSupersedes + 1,
           Exit(reason, a)
    PROVE  RunTypes' /\ pc' = "exit" /\ apr' = a
  BY CallTypes DEF Exit, NoLongerCalls, RunTypes, TypeOK, Backs, Pcs

\* It asks for a grant.
LEMMA AsksTypes ==
    ASSUME TypeOK, NEW from \in {"park", "prepark", "gatepark"}, NEW a \in Approvals,
           a.count \in 0 .. MaxSupersedes + 1, Asks(from, a), flipSlug' \in Slugs
    PROVE  /\ RunTypes' /\ pc' = "ask" /\ back' = from /\ Like(a, apr')
           /\ call'.ex = IF from = "gatepark" THEN res.execs ELSE OwnExecution
<1>1. apr' \in Approvals /\ Like(a, apr')
  BY LikeTypes DEF Asks, Like
<1>2. res.execs \in Nat /\ OwnExecution \in Nat
  BY DEF TypeOK, ResumeFields, OwnExecution
<1>3. call' \in Calls /\ call'.ex = IF from = "gatepark" THEN res.execs ELSE OwnExecution
  BY <1>2, CallTypes DEF Asks, Calls
<1> QED
  BY <1>1, <1>3 DEF Asks, RunTypes, TypeOK, Pcs, Backs, Like

\* It checks a grant.
LEMMA ChecksTypes ==
    ASSUME TypeOK, NEW from \in {"park", "prepark", "ensure", "retry"}, NEW slug \in Slugs,
           Checks(slug, from), flipSlug' \in Slugs
    PROVE  /\ RunTypes' /\ pc' = "checking" /\ back' = from /\ apr' = apr
           /\ call'.attempt = apr.attempt /\ call'.slug = slug
           /\ call'.ref = IF apr.ref # NoRef THEN apr.ref ELSE apr.requested
<1>1. apr.attempt \in Nat /\ apr.ref \in Refs /\ apr.requested \in Refs
  BY DEF TypeOK, Approvals
<1>2. /\ call' \in Calls /\ call'.attempt = apr.attempt /\ call'.slug = slug
      /\ call'.ref = IF apr.ref # NoRef THEN apr.ref ELSE apr.requested
  BY <1>1, CallTypes DEF Checks, Calls
<1> QED
  BY <1>2 DEF Checks, RunTypes, TypeOK, Pcs, Backs

\* It sends the flip out.
LEMMA SubmitTypes ==
    ASSUME TypeOK, NEW slug \in Slugs, SendsFlip(slug), flipSlug' \in Slugs
    PROVE  /\ RunTypes' /\ pc' = "flipping" /\ apr' = apr
           /\ call'.slug = slug /\ call'.ref = apr.ref
<1>1. apr.ref \in Refs
  BY DEF TypeOK, Approvals
<1>2. call' \in Calls /\ call'.slug = slug /\ call'.ref = apr.ref
  BY <1>1, CallTypes DEF SendsFlip, Calls
<1> QED
  BY <1>2 DEF SendsFlip, RunTypes, TypeOK, Pcs, Backs
-----------------------------------------------------------------------------
\* What holds where a step of the coroutine leads

\* What such a step does to the rest.
Runs ==
    /\ UNCHANGED <<res, flags, dlv, gap, text, ended>>
    /\ grants' \in [asked : SUBSET Grants, decided : SUBSET Grants, spent : SUBSET Grants]
    /\ grants'.decided \cup grants'.spent \subseteq grants'.asked
    /\ grants'.decided = grants.decided
    /\ grants.asked \subseteq grants'.asked /\ grants.spent \subseteq grants'.spent

\* Where it leads to, the invariant holds.
Lands ==
    /\ RunTypes' /\ Waiting' /\ pc' \notin Through
    /\ pc' \notin Over => apr'.count <= MaxSupersedes
    /\ apr.count <= apr'.count

\* The loop, before a step, with what the step makes of the approval.
Here(a) ==
    /\ IInv /\ ~flags.gates /\ Runs
    /\ a \in Approvals /\ Chosen(a)
    /\ apr.count <= a.count /\ a.count <= MaxSupersedes

\* The approval is as sound as before.
LEMMA LikeKeeps ==
    ASSUME Runs, NEW a, Chosen(a), Like(a, apr')
    PROVE  /\ Chosen(apr)'
           /\ EarlySound(a) => EarlySound(apr)'
           /\ LateSound(a) => LateSound(apr)'
<1> USE DEF Runs, Like
<1>1. RequestedSound(apr)'
  BY DEF Chosen, RequestedSound
<1>2. RefSound(apr)'
  BY DEF Chosen, RefSound
<1>3. AttemptSound(apr)'
  BY DEF Chosen, AttemptSound
<1>4. EarlySound(a) => EarlySound(apr)'
  BY DEF EarlySound, Mine, Older
<1>5. LateSound(a) => LateSound(apr)'
  BY DEF LateSound, Settled
<1> QED
  BY <1>1, <1>2, <1>3, <1>4, <1>5 DEF Chosen

\* What holds of the loop itself.
LEMMA HereFacts ==
    ASSUME NEW a, Here(a)
    PROVE  /\ TypeOK /\ Waiting /\ 0 < res'.execs
           /\ a.count \in 0 .. MaxSupersedes + 1 /\ apr.count \in Nat /\ MaxSupersedes \in Nat
  BY Limits DEF Here, IInv, Waiting, Runs, Approvals, TypeOK

\* It arrives where it has nothing in flight.
LEMMA PlaceLands ==
    ASSUME Waiting, Runs, RunTypes', pc' \in {"park", "admit", "prepark"} \cup Past,
           Chosen(apr)', IF pc' \in Past THEN LateSound(apr)' ELSE EarlySound(apr)',
           apr.count <= apr'.count, apr'.count <= MaxSupersedes
    PROVE  Lands
<1>1. PlaceSound'
  BY DEF PlaceSound, Early, Flipped, Past, AskPcs, Over
<1>2. AskSound' /\ PostSound' /\ CheckSound' /\ FlipSound'
  BY DEF Past, AskPcs, AskSound, PostSound, CheckSound, FlipSound
<1> QED
  BY <1>1, <1>2 DEF Lands, Waiting, Runs, Past, Through

\* It parks, or goes on.
LEMMA GotoLands ==
    ASSUME NEW a, Here(a), NEW to \in {"park", "admit", "prepark"} \cup Past, Goto(to, a),
           IF to \in Past THEN LateSound(a) ELSE EarlySound(a)
    PROVE  Lands
<1>1. to \in Pcs /\ a \in Approvals
  BY DEF Past, Pcs, Here
<1>2. RunTypes' /\ pc' = to /\ apr' = a
  BY <1>1, HereFacts, GotoTypes
<1>3. Like(a, apr')
  BY <1>1, <1>2, LikeTypes
<1>4. Chosen(apr)' /\ (EarlySound(a) => EarlySound(apr)') /\ (LateSound(a) => LateSound(apr)')
  BY <1>3, LikeKeeps DEF Here
<1> QED
  BY <1>2, <1>4, HereFacts, PlaceLands DEF Here

\* It leaves.
LEMMA ExitLands ==
    ASSUME IInv, ~flags.gates, Runs, NEW a \in Approvals, Chosen(a), apr.count <= a.count,
           a.count <= MaxSupersedes + 1, NEW reason \in Whys, Exit(reason, a)
    PROVE  Lands
<1>1. TypeOK /\ Waiting /\ a.count \in 0 .. MaxSupersedes + 1 /\ 0 < res'.execs
  BY Limits DEF IInv, Approvals, Waiting, Runs
<1>2. RunTypes' /\ pc' = "exit" /\ apr' = a
  BY <1>1, ExitTypes
<1>3. Chosen(apr)'
  BY <1>2, LikeTypes, LikeKeeps
<1>4. PlaceSound' /\ AskSound' /\ PostSound' /\ CheckSound' /\ FlipSound'
  BY <1>2 DEF PlaceSound, Early, Flipped, Past, AskPcs, Over, AskSound, PostSound,
              CheckSound, FlipSound
<1> QED
  BY <1>1, <1>2, <1>3, <1>4 DEF Lands, Waiting, Through, Over

\* It asks for a grant.
LEMMA AsksLands ==
    ASSUME NEW a, Here(a), NEW from \in {"park", "prepark", "gatepark"}, Asks(from, a),
           flipSlug' \in Slugs, ~Approved(a),
           IF from = "gatepark" THEN LateSound(a) /\ res.execs # OwnExecution ELSE EarlySound(a)
    PROVE  Lands
<1>1. a \in Approvals /\ a.ref = NoRef
  BY DEF Here, Chosen, RefSound, Approved
<1>2. /\ RunTypes' /\ pc' = "ask" /\ back' = from /\ Like(a, apr')
      /\ call'.ex = IF from = "gatepark" THEN res.execs ELSE OwnExecution
  BY <1>1, HereFacts, AsksTypes
<1>3. Chosen(apr)' /\ (EarlySound(a) => EarlySound(apr)') /\ (LateSound(a) => LateSound(apr)')
  BY <1>2, LikeKeeps DEF Here
<1>4. PlaceSound'
  BY <1>2, <1>3 DEF PlaceSound, Early, Flipped, Past, AskPcs, Over
<1>5. AskSound' /\ PostSound' /\ CheckSound' /\ FlipSound'
  BY <1>1, <1>2 DEF AskPcs, AskSound, PostSound, CheckSound, FlipSound, Like
<1> QED
  BY <1>2, <1>3, <1>4, <1>5, HereFacts DEF Lands, Waiting, Here, Like, Through

\* It checks that the grant is fresh.
LEMMA ChecksLands ==
    ASSUME Here(apr), EarlySound(apr), ~NothingToCheck,
           NEW from \in {"park", "prepark", "ensure", "retry"}, NEW slug \in Slugs,
           Checks(slug, from), flipSlug' \in Slugs,
           from = "ensure" => flipSlug' = slug /\ apr.ref # NoRef
    PROVE  Lands
<1>1. /\ RunTypes' /\ pc' = "checking" /\ back' = from /\ apr' = apr
      /\ call'.attempt = apr.attempt /\ call'.slug = slug
      /\ call'.ref = IF apr.ref # NoRef THEN apr.ref ELSE apr.requested
  BY HereFacts, ChecksTypes
<1>2. Chosen(apr)' /\ EarlySound(apr)'
  BY <1>1, LikeTypes, LikeKeeps DEF Here
<1>3. PlaceSound'
  BY <1>1, <1>2 DEF PlaceSound, Early, Flipped, Past, AskPcs, Over
<1>4. call'.ref \in Grants /\ call'.ref.att <= call'.attempt
  BY <1>1, HereFacts DEF TypeOK, Approvals, Refs, Here, Chosen, RefSound, RequestedSound,
                         NothingToCheck
<1>5. AskSound' /\ PostSound' /\ FlipSound'
  BY <1>1 DEF AskPcs, AskSound, PostSound, FlipSound
<1>6. CheckSound'
  BY <1>1, <1>4, HereFacts DEF CheckSound, TypeOK, Approvals
<1> QED
  BY <1>1, <1>2, <1>3, <1>5, <1>6, HereFacts DEF Lands, Waiting, Here, Through

\* It sends the flip out.
LEMMA SendsLand ==
    ASSUME Here(apr), EarlySound(apr), apr.ref # NoRef, NEW slug \in Slugs,
           SendsFlip(slug), flipSlug' \in Slugs,
           apr.requested \in {NoRef, apr.ref} \/ OldAt(apr.ref.dig, slug)
    PROVE  Lands
<1>1. RunTypes' /\ pc' = "flipping" /\ apr' = apr /\ call'.slug = slug /\ call'.ref = apr.ref
  BY HereFacts, SubmitTypes
<1>2. Chosen(apr)' /\ EarlySound(apr)'
  BY <1>1, LikeTypes, LikeKeeps DEF Here
<1>3. PlaceSound'
  BY <1>1, <1>2 DEF PlaceSound, Early, Flipped, Past, AskPcs, Over
<1>4. call'.ref \in grants'.decided /\ call'.ref.ex = OwnExecution
  BY <1>1 DEF Here, Runs, Chosen, RefSound, EarlySound, Mine
<1>5. AskSound' /\ PostSound' /\ CheckSound'
  BY <1>1 DEF AskPcs, AskSound, PostSound, CheckSound
<1>6. FlipSound'
  BY <1>1, <1>4 DEF FlipSound, OldAt, Here, Runs
<1> QED
  BY <1>1, <1>2, <1>3, <1>5, <1>6, HereFacts DEF Lands, Waiting, Here, Through

\* The flip is refused.
LEMMA RefusedLands ==
    ASSUME Here(apr), EarlySound(apr), NEW slug \in Slugs,
           FlipRefused(slug), flipSlug' \in Slugs
    PROVE  Lands
<1>1. CASE ~NothingToCheck
  BY <1>1, ChecksLands DEF FlipRefused
<1>2. CASE NothingToCheck
  <2>1. pc' = "exit" /\ why' = "failed" /\ apr' = apr /\ NoLongerCalls
    BY <1>2 DEF FlipRefused
  <2>2. RunTypes'
    BY <2>1, CallTypes, HereFacts DEF NoLongerCalls, RunTypes, TypeOK, Backs, Pcs, Whys
  <2>3. Chosen(apr)'
    BY <2>1, LikeTypes, LikeKeeps DEF Here
  <2>4. PlaceSound' /\ AskSound' /\ PostSound' /\ CheckSound' /\ FlipSound'
    BY <2>1 DEF PlaceSound, Early, Flipped, Past, AskPcs, Over, AskSound, PostSound,
                CheckSound, FlipSound
  <2> QED
    BY <2>1, <2>2, <2>3, <2>4, HereFacts DEF Here, Lands, Waiting, Through, Over
<1> QED
  BY <1>1, <1>2

\* It sends the flip out, or refuses to.
LEMMA SubmitLands ==
    ASSUME Here(apr), EarlySound(apr), apr.ref # NoRef, NEW slug \in Slugs,
           SubmitFlip(slug), flipSlug' \in Slugs,
           apr.requested \in {NoRef, apr.ref} \/ OldAt(apr.ref.dig, slug)
    PROVE  Lands
  BY SendsLand, RefusedLands DEF SubmitFlip

\* It makes sure that the grant is fresh before the flip.
LEMMA EnsuresLands ==
    ASSUME Here(apr), EarlySound(apr), apr.ref # NoRef, NEW slug \in Slugs,
           Ensures(slug), flipSlug' = slug
    PROVE  Lands
<1>1. CASE NothingToCheck
  BY <1>1, SubmitLands DEF Ensures, NothingToCheck
<1>2. CASE ~NothingToCheck
  BY <1>2, ChecksLands DEF Ensures
<1> QED
  BY <1>1, <1>2

\* It goes round the loop before the flip.
LEMMA TopLands ==
    ASSUME NEW a, Here(a), EarlySound(a), Approved(a) => a = apr,
           NEW ticked \in BOOLEAN, ReapprovalTop(a, ticked)
    PROVE  Lands
<1>1. flipSlug \in Slugs
  BY HereFacts DEF TypeOK
<1>2. CASE flags.abandoned
  <2>1. Exit("abandoned", a)
    BY <1>2 DEF ReapprovalTop
  <2>2. a.count <= MaxSupersedes + 1
    BY HereFacts
  <2> QED
    BY <2>1, <2>2, ExitLands DEF Here, Whys
<1>3. CASE ~flags.abandoned /\ Approved(a)
  BY <1>1, <1>3, EnsuresLands DEF ReapprovalTop, Approved
<1>4. CASE ~flags.abandoned /\ ~Approved(a)
  <2>1. \/ Goto("prepark", a)
        \/ Asks("prepark", a) /\ UNCHANGED flipSlug
    BY <1>4 DEF ReapprovalTop
  <2> QED
    BY <1>1, <1>4, <2>1, GotoLands, AsksLands DEF Past
<1> QED
  BY <1>2, <1>3, <1>4

-----------------------------------------------------------------------------
\* The steps of the coroutine before the gates

\* Nothing is asked or spent.
LEMMA WaitRuns ==
    ASSUME TypeOK, UNCHANGED waitFrame
    PROVE  Runs
  BY DEF TypeOK, waitFrame, runFrame, Runs

\* A grant is asked for, or not.
LEMMA AskRuns ==
    ASSUME TypeOK, UNCHANGED <<runFrame, text>>, GrantAsked \/ UNCHANGED grants
    PROVE  Runs
<1>1. CASE GrantAsked
  <2>1. grants.asked \cup {Asked} \in SUBSET Grants
    BY AskedTypes DEF TypeOK
  <2> QED
    BY <1>1, <2>1 DEF TypeOK, runFrame, Runs, GrantAsked
<1>2. CASE UNCHANGED grants
  BY <1>2 DEF TypeOK, runFrame, Runs
<1> QED
  BY <1>1, <1>2

\* A grant is spent, or not.
LEMMA SpendRuns ==
    ASSUME IInv, ~flags.gates, pc = "flipping", UNCHANGED <<runFrame, text>>,
           Spend \/ UNCHANGED grants
    PROVE  Runs
<1>1. TypeOK /\ call.ref \in grants.decided
  BY DEF IInv, Waiting, FlipSound
<1>2. CASE Spend
  <2>1. grants.spent \cup {call.ref} \in SUBSET Grants
    BY <1>1 DEF TypeOK
  <2> QED
    BY <1>1, <1>2, <2>1 DEF TypeOK, runFrame, Runs, Spend
<1>3. CASE UNCHANGED grants
  BY <1>1, <1>3 DEF TypeOK, runFrame, Runs
<1> QED
  BY <1>2, <1>3

\* The approval as it is, at a step of the coroutine.
LEMMA Now ==
    ASSUME IInv, ~flags.gates, Runs, pc \notin Over
    PROVE  /\ Here(apr) /\ TypeOK /\ Waiting /\ pc \notin Through
           /\ (Early => EarlySound(apr)) /\ (Flipped => LateSound(apr))
           /\ apr.count <= MaxSupersedes + 1
           /\ flipSlug \in Slugs /\ (~IsApproved => apr.ref = NoRef)
<1>1. TypeOK /\ Waiting /\ apr.count <= MaxSupersedes /\ pc \notin Through
  BY DEF IInv, GatesSound
<1>2. apr \in Approvals /\ apr.count \in Nat /\ MaxSupersedes \in Nat /\ flipSlug \in Slugs
  BY <1>1, Limits DEF TypeOK, Approvals
<1>3. Here(apr)
  BY <1>1, <1>2 DEF Here, Waiting
<1>4. ~IsApproved => apr.ref = NoRef
  BY <1>1 DEF Waiting, Chosen, RefSound, IsApproved
<1> QED
  BY <1>1, <1>2, <1>3, <1>4 DEF Waiting, PlaceSound

\* It may leave wherever it is.
LEMMA ExitsLand ==
    ASSUME IInv, ~flags.gates, Runs, pc \notin Over, NEW reason \in Whys, Exit(reason, apr)
    PROVE  Lands
<1>1. Here(apr) /\ apr.count <= MaxSupersedes + 1
  BY Now
<1> QED
  BY <1>1, ExitLands DEF Here

\* The park before the flip, and what leads to it.
LEMMA ParkLands ==
    ASSUME IInv, ~flags.gates,
           \/ Investigated \/ ParkWakes \/ ParkTicks \/ ParkExpires \/ Admit
           \/ ReparkWakes \/ ReparkTicks \/ ReparkExpires \/ EnsureAgain \/ EnsureExpires
    PROVE  Runs /\ Lands
<1> USE DEF Whys
<1>1. /\ TypeOK /\ UNCHANGED waitFrame
      /\ pc \in {"investigate", "park", "admit", "prepark", "unreadable"}
  BY DEF IInv, Investigated, ParkWakes, ParkTicks, ParkExpires, Admit, ReparkWakes, ReparkTicks,
         ReparkExpires, EnsureAgain, EnsureExpires
<1>2. Runs /\ pc \notin Over /\ Early
  BY <1>1, WaitRuns DEF Over, Early, Flipped, Past, AskPcs
<1>3. /\ Here(apr) /\ Waiting /\ EarlySound(apr) /\ flipSlug \in Slugs
      /\ (IsApproved <=> Approved(apr)) /\ (~IsApproved => apr.ref = NoRef)
      /\ (~Approved(apr) => apr.ref = NoRef)
  BY <1>2, Now DEF IsApproved, Approved
<1>4. text.dir \in Slugs /\ (~NothingToCheck => apr.slug \in Slugs)
  BY <1>1, <1>3 DEF TypeOK, Approvals, Waiting, Chosen, RequestedSound, NothingToCheck
<1>5. CASE \E reason \in Whys : Exit(reason, apr)
  BY <1>2, <1>5, ExitsLand
<1>6. CASE \E to \in {"park", "admit", "prepark"} : Goto(to, apr)
  BY <1>2, <1>3, <1>6, GotoLands DEF Past
<1>7. CASE ~IsApproved /\ flipSlug' \in Slugs /\ \E from \in {"park", "prepark"} : Asks(from, apr)
  BY <1>2, <1>3, <1>7, AsksLands
<1>8. CASE ~NothingToCheck /\ UNCHANGED flipSlug
           /\ \E from \in {"park", "prepark"} : Checks(apr.slug, from)
  BY <1>2, <1>3, <1>4, <1>8, ChecksLands
<1>9. CASE apr.ref # NoRef /\ flipSlug' \in Slugs /\ Ensures(flipSlug')
  BY <1>2, <1>3, <1>9, EnsuresLands
<1>10. CASE ReparkWakes
  BY <1>2, <1>3, <1>10, TopLands DEF ReparkWakes
<1>11. CASE Investigated
  <2>1. ~IsApproved
    BY <1>3, <1>11 DEF Waiting, PlaceSound, IsApproved, Investigated
  <2> QED
    BY <1>3, <1>5, <1>7, <1>11, <2>1 DEF Investigated
<1>12. CASE ParkWakes \/ ParkTicks \/ ParkExpires \/ ReparkTicks \/ ReparkExpires \/ EnsureExpires
  BY <1>3, <1>5, <1>6, <1>7, <1>8, <1>12
    DEF ParkWakes, ParkTicks, ParkExpires, ReparkTicks, ReparkExpires, EnsureExpires
<1>13. CASE Admit
  BY <1>3, <1>4, <1>5, <1>7, <1>9, <1>13 DEF Admit, IsApproved
<1>14. CASE EnsureAgain
  <2>1. apr.ref # NoRef \/ apr.refresh
    BY <1>3, <1>14 DEF Waiting, CheckSound, EnsureAgain
  <2> QED
    BY <1>3, <1>5, <1>7, <1>9, <1>14, <2>1 DEF EnsureAgain, IsApproved
<1> QED
  BY <1>2, <1>10, <1>11, <1>12, <1>13, <1>14

\* The request for a grant goes out.
LEMMA AskLands ==
    ASSUME IInv, ~flags.gates, Ask
    PROVE  Runs /\ Lands
<1>1. TypeOK /\ pc = "ask" /\ UNCHANGED waitFrame
  BY DEF IInv, Ask
<1>2. Runs /\ pc \notin Over
  BY <1>1, WaitRuns DEF Over
<1>3. Here(apr) /\ Waiting /\ (Early => EarlySound(apr)) /\ (Flipped => LateSound(apr))
  BY <1>2, Now
<1>4. CASE Exit("failed", apr)
  BY <1>2, <1>4, ExitsLand DEF Whys
<1>5. CASE ~Exit("failed", apr)
  <2>1. /\ pc' = "asking" /\ UNCHANGED <<back, flipSlug, why>>
        /\ apr' = IF apr.ref = NoRef THEN [apr EXCEPT !.ok = FALSE] ELSE apr
        /\ call' = [call EXCEPT !.attempt = apr.attempt, !.slug = text.dir]
    BY <1>5 DEF Ask
  <2>2. Like(apr, apr')
    BY <1>1, <2>1, LikeTypes DEF TypeOK
  <2>3. apr.attempt \in Nat /\ text.dir \in Slugs /\ call \in Calls
    BY <1>1 DEF TypeOK, Approvals
  <2>4. call' \in Calls /\ call'.attempt = apr.attempt /\ call'.ex = call.ex
    BY <2>1, <2>3 DEF Calls
  <2>5. RunTypes'
    BY <1>1, <2>1, <2>2, <2>4 DEF RunTypes, TypeOK, Like, Pcs
  <2>6. Chosen(apr)' /\ (EarlySound(apr) => EarlySound(apr)') /\ (LateSound(apr) => LateSound(apr)')
    BY <1>2, <1>3, <2>2, LikeKeeps DEF Here
  <2>7. PlaceSound'
    BY <1>1, <1>3, <2>1, <2>6 DEF PlaceSound, Early, Flipped, Past, AskPcs, Over
  <2>8. AskSound'
    BY <1>1, <1>3, <2>1, <2>2, <2>4 DEF AskSound, AskPcs, Waiting, Like
  <2>9. PostSound' /\ CheckSound' /\ FlipSound'
    BY <2>1, <2>2, <2>3, <2>4 DEF PostSound, CheckSound, FlipSound, Like
  <2> QED
    BY <1>2, <1>3, <2>1, <2>2, <2>5, <2>6, <2>7, <2>8, <2>9, HereFacts
      DEF Lands, Waiting, Here, Like, Through, Over
<1> QED
  BY <1>2, <1>4, <1>5

\* Where an answer leads back to: the loop asked without a decision, or with
\* the one on the grant it asks for again.
LEMMA BackFacts ==
    ASSUME IInv, ~flags.gates, pc \in {"asking", "posting"}
    PROVE  /\ pc \notin Over /\ call.ex \in Nat
           /\ back \in {"park", "prepark", "gatepark"}
           /\ (call.ex = OwnExecution <=> back # "gatepark")
           /\ IF back \in Past THEN Flipped ELSE Early
  BY DEF IInv, Waiting, AskSound, AskPcs, Past, Early, Flipped, Over, TypeOK, Calls

\* The grant it asked for stands for what the text was at the answer, so that
\* an earlier one of the same attempt is the same, or on an older text.
LEMMA AskedSound ==
    ASSUME IInv, ~flags.gates, pc = "asking", GrantAsked, AnswerIsCurrent, Runs,
           NEW approved \in BOOLEAN, approved => Asked \in grants.decided,
           NEW b, b = DecidedAlready(Adopted, Asked, approved) \/ b = Adopted,
           Like(b, apr')
    PROVE  /\ Chosen(apr)' /\ apr'.requested = Asked
           /\ IF back \in Past THEN LateSound(apr)' ELSE EarlySound(apr)'
<1>1. TypeOK /\ Waiting /\ GrantsSound
  BY DEF IInv
<1>2. /\ Asked \in Grants /\ Asked \in grants'.asked /\ Asked.att = apr.attempt
      /\ Asked.ex = call.ex /\ Asked.dig = Digest(call.slug) /\ Asked # NoRef
      /\ call.slug \in Slugs /\ call.slug # 0 /\ Digest(call.slug)[1] = call.slug
      /\ Digest(call.slug)[2] = text.version[call.slug]
  BY <1>1, AskedTypes, DigestTypes, Limits
    DEF TypeOK, Calls, AnswerIsCurrent, GrantAsked, Slugs
<1>3. /\ b \in Approvals /\ b.requested = Asked /\ b.attempt = apr.attempt /\ b.count = apr.count
      /\ b.superseded = apr.superseded /\ b.slug = call.slug /\ b.digest = Digest(call.slug)
      /\ b.signalled = apr.signalled /\ ~b.note
      /\ \/ b.ref = apr.ref /\ (b.ok <=> apr.ok)
         \/ b.ref = Asked /\ b.ok /\ (approved \/ Asked \in apr.signalled)
  BY <1>1, <1>2, AdoptedTypes, DecidedTypes DEF Refs
<1>4. /\ Chosen(apr) /\ ended < apr.attempt /\ \A g \in apr.superseded : g.att < apr.attempt
      /\ apr.signalled \subseteq grants.decided
      /\ (apr.ref # NoRef => apr.ref = apr.requested)
  BY <1>1 DEF Waiting, AskSound, Chosen, AttemptSound
<1>5. b.ref = Asked => Asked \in grants.decided
  BY <1>2, <1>3, <1>4 DEF Chosen, RefSound, RequestedSound
<1>6. Asked \notin apr.superseded
  BY <1>2, <1>4, GrantTypes
<1>7. RequestedSound(b)'
  BY <1>2, <1>3, <1>4 DEF RequestedSound
<1>8. RefSound(b)'
  <2>0. apr.attempt \in Nat
    BY <1>1 DEF TypeOK, Approvals
  <2>1. b.ref = Asked /\ b.ok => RefSound(b)'
    BY <1>2, <1>3, <1>4, <1>5, <1>6, <2>0 DEF RefSound, Runs
  <2>2. b.ref = apr.ref /\ (b.ok <=> apr.ok) => RefSound(b)'
    BY <1>1, <1>3 DEF Waiting, Chosen, RefSound, Runs
  <2> QED
    BY <1>3, <2>1, <2>2
<1>9. AttemptSound(b)'
  BY <1>3, <1>4 DEF AttemptSound, Runs
<1>10. Chosen(apr)' /\ apr'.requested = Asked
  <2>1. RequestedSound(apr)' /\ apr'.requested = Asked
    BY <1>3, <1>7 DEF RequestedSound, Like
  <2>2. RefSound(apr)'
    BY <1>8 DEF RefSound, Like
  <2>3. AttemptSound(apr)'
    BY <1>9 DEF AttemptSound, Like
  <2> QED
    BY <2>1, <2>2, <2>3 DEF Chosen
<1>11. apr'.ref = apr.ref \/ apr'.ref = Asked
  BY <1>3 DEF Like
<1>12. CASE back \notin Past
  <2>1. EarlySound(apr) /\ Asked.ex = OwnExecution
    BY <1>1, <1>2, <1>12, BackFacts DEF Waiting, PlaceSound, Past
  <2>2. ASSUME apr.ref # NoRef, apr.ref # Asked PROVE Older(apr.ref, Asked)
    <3>1. /\ apr.ref \in grants.asked /\ apr.ref.att = apr.attempt /\ apr.ref.ex = OwnExecution
          /\ apr.ref.dig[1] = apr.ref.slug /\ apr.ref.dig[2] <= text.version[apr.ref.slug]
      BY <1>1, <1>4, <2>1, <2>2 DEF Chosen, RequestedSound, GrantsSound, EarlySound, Mine
    <3>2. apr.ref \in Grants
      BY <1>1, <3>1 DEF TypeOK
    <3>3. apr.ref.slug # Asked.slug \/ apr.ref.dig # Asked.dig
      BY <1>2, <2>1, <2>2, <3>1, <3>2 DEF Grants
    <3>4. ~(apr.ref.dig[1] = Asked.dig[1] /\ apr.ref.dig[2] = Asked.dig[2])
      BY <1>1, <1>2, <3>1, <3>2, <3>3, AskedTypes, GrantTypes
    <3>5. apr.ref.dig[2] \in Nat /\ Asked.dig[2] \in Nat
      BY <1>2, <3>2, GrantTypes
    <3> QED
      BY <1>2, <3>1, <3>4, <3>5 DEF Older
  <2> QED
    BY <1>10, <1>11, <1>12, <2>1, <2>2 DEF EarlySound, Mine
<1>13. CASE back \in Past
  <2>1. LateSound(apr) /\ Asked.ex # OwnExecution
    BY <1>1, <1>2, <1>13, BackFacts DEF Waiting, PlaceSound, Past
  <2> QED
    BY <1>2, <1>3, <1>10, <1>11, <1>13, <2>1 DEF LateSound, Settled, Runs, Like
<1> QED
  BY <1>10, <1>12, <1>13

\* An answer comes in.
LEMMA AnswerLands ==
    ASSUME IInv, ~flags.gates, Answer
    PROVE  Runs /\ Lands
<1> DEFINE approved == Asked \in grants.decided
           b == DecidedAlready(Adopted, Asked, approved)
<1>1. TypeOK /\ pc = "asking" /\ UNCHANGED <<runFrame, text>> /\ GrantAsked
  BY DEF IInv, Answer
<1>2. Runs /\ pc \notin Over
  BY <1>1, AskRuns DEF Over
<1>3. Here(apr) /\ Waiting /\ (Early => EarlySound(apr)) /\ (Flipped => LateSound(apr))
  BY <1>2, Now
<1>4. /\ back \in {"park", "prepark"} \cup Past /\ back \in {"park", "prepark", "gatepark"}
      /\ (call.ex = OwnExecution <=> back # "gatepark")
      /\ IF back \in Past THEN LateSound(apr) ELSE EarlySound(apr)
  BY <1>1, <1>3, BackFacts DEF Past
<1>5. CASE ~AnswerIsCurrent
  BY <1>2, <1>3, <1>4, <1>5, GotoLands DEF Answer
<1>6. Asked \in Grants /\ Asked \in Refs /\ approved \in BOOLEAN /\ back \in Pcs
  BY <1>1, <1>4, AskedTypes DEF Refs, Pcs, Past
<1> HIDE DEF approved
<1>7. Adopted \in Approvals /\ Adopted.count = apr.count /\ ~Adopted.note
  BY <1>1, AdoptedTypes
<1>8. apr.count \in 0 .. MaxSupersedes + 1 /\ apr.count <= MaxSupersedes
  BY <1>1, <1>3 DEF TypeOK, Here
<1>9. CASE AnswerIsCurrent /\ ~apr.note
  <2>1. Goto(back, b)
    BY <1>9 DEF Answer, approved
  <2>2. b \in Approvals /\ b.count = apr.count
    BY <1>6, <1>7, DecidedTypes
  <2> HIDE DEF b
  <2>3. RunTypes' /\ pc' = back /\ apr' = b
    BY <1>1, <1>6, <1>8, <2>1, <2>2, GotoTypes
  <2>4. Like(b, apr')
    BY <2>2, <2>3, LikeTypes
  <2>5. Chosen(apr)' /\ IF back \in Past THEN LateSound(apr)' ELSE EarlySound(apr)'
    BY <1>1, <1>2, <1>6, <1>9, <2>4, AskedSound DEF approved, b
  <2> QED
    BY <1>2, <1>3, <1>4, <1>8, <2>2, <2>3, <2>5, PlaceLands
<1>10. CASE AnswerIsCurrent /\ apr.note
  <2>1. /\ pc' = "posting" /\ apr' = Adopted /\ UNCHANGED <<back, flipSlug, why>>
        /\ call' = [call EXCEPT !.ref = Asked, !.approved = approved]
    BY <1>10 DEF Answer, approved
  <2>2. /\ call' \in Calls /\ call'.ref = Asked /\ (call'.approved <=> approved)
        /\ call'.attempt = call.attempt /\ call'.ex = call.ex
    BY <1>1, <1>6, <2>1 DEF TypeOK, Calls
  <2>3. RunTypes'
    BY <1>1, <1>7, <1>8, <2>1, <2>2 DEF RunTypes, TypeOK, Pcs
  <2>4. Like(Adopted, apr')
    BY <1>7, <2>1, LikeTypes
  <2>5. /\ Chosen(apr)' /\ apr'.requested = Asked
        /\ IF back \in Past THEN LateSound(apr)' ELSE EarlySound(apr)'
    BY <1>1, <1>2, <1>6, <1>10, <2>4, AskedSound DEF approved
  <2>6. PlaceSound'
    BY <1>4, <2>1, <2>5 DEF PlaceSound, Early, Flipped, Past, AskPcs, Over
  <2>7. AskSound'
    BY <1>4, <2>1, <2>2 DEF AskSound, AskPcs
  <2>8. /\ Asked \in grants'.asked /\ Asked.att = call.attempt /\ Asked.ex = call.ex
        /\ Adopted.count = apr.count /\ Adopted.attempt = apr.attempt
        /\ Adopted.superseded = apr.superseded
    BY <1>1, AskedTypes, AdoptedTypes DEF GrantAsked, TypeOK
  <2>9. 0 < apr.count /\ call.attempt = apr.attempt /\ \A g \in apr.superseded : g.att < apr.attempt
    BY <1>3, <1>10 DEF Waiting, Chosen, AttemptSound, AnswerIsCurrent
  <2>10. PostSound'
    BY <1>2, <2>1, <2>2, <2>5, <2>8, <2>9 DEF PostSound, Runs, approved
  <2>11. apr.attempt \in Nat
    BY <1>1 DEF TypeOK, Approvals
  <2>12. CheckSound' /\ FlipSound'
    BY <2>1, <2>2, <2>8, <2>9, <2>11 DEF CheckSound, FlipSound
  <2> QED
    BY <1>2, <1>3, <1>8, <2>1, <2>3, <2>5, <2>6, <2>7, <2>8, <2>10, <2>12, HereFacts
      DEF Lands, Waiting, Through, Over
<1> QED
  BY <1>2, <1>5, <1>9, <1>10

\* A comment is posted about the grant, or no answer is to be had.
LEMMA CommentLands ==
    ASSUME IInv, ~flags.gates, CommentEnds \/ AnswerFails
    PROVE  Runs /\ Lands
<1>1. CASE AnswerFails
  <2>1. TypeOK /\ Runs /\ pc \notin Over
    BY <1>1, AskRuns DEF AnswerFails, IInv, Over
  <2> QED
    BY <1>1, <2>1, ExitsLand DEF AnswerFails, Whys
<1>2. CASE CommentEnds
  <2> DEFINE d == DecidedAlready(apr, call.ref, call.approved)
  <2>1. TypeOK /\ pc = "posting" /\ UNCHANGED waitFrame /\ Goto(back, d)
    BY <1>2 DEF IInv, CommentEnds
  <2>2. Runs /\ pc \notin Over
    BY <2>1, WaitRuns DEF Over
  <2>3. Here(apr) /\ Waiting /\ (Early => EarlySound(apr)) /\ (Flipped => LateSound(apr))
    BY <2>2, Now
  <2>4. /\ back \in {"park", "prepark"} \cup Past /\ back \in {"park", "prepark", "gatepark"}
        /\ (call.ex = OwnExecution <=> back # "gatepark")
        /\ IF back \in Past THEN LateSound(apr) ELSE EarlySound(apr)
    BY <2>1, <2>3, BackFacts DEF Past
  <2>5. /\ apr \in Approvals /\ call.ref \in Refs /\ call.approved \in BOOLEAN
        /\ apr.count \in Nat /\ apr.attempt \in Nat /\ call.attempt \in Nat
    BY <2>1 DEF TypeOK, Calls, Approvals
  <2>6. /\ d \in Approvals /\ d.requested = apr.requested /\ d.attempt = apr.attempt
        /\ d.superseded = apr.superseded /\ d.count = apr.count /\ d.digest = apr.digest
        /\ d.slug = apr.slug /\ d.signalled = apr.signalled /\ (d.note <=> apr.note)
        /\ \/ d.ref = apr.ref /\ (d.ok <=> apr.ok)
           \/ d.ref = call.ref /\ d.ok /\ (call.approved \/ call.ref \in apr.signalled)
    BY <2>5, DecidedTypes
  <2>7. /\ call.ref \in grants.asked /\ call.ref.att = call.attempt /\ call.ref.ex = call.ex
        /\ (call.approved => call.ref \in grants.decided)
        /\ apr.requested \in {NoRef, call.ref} /\ 0 < apr.count
        /\ (\A g \in apr.superseded : g.att < call.attempt) /\ call.attempt <= apr.attempt
    BY <2>1, <2>3 DEF Waiting, PostSound, CheckSound
  <2>8. Chosen(apr) /\ call.ref \in Grants /\ call.ref # NoRef
    BY <2>1, <2>3, <2>7, Limits DEF Waiting, TypeOK
  <2> HIDE DEF d
  <2>9. RequestedSound(d)
    BY <2>6, <2>8 DEF RequestedSound, Chosen
  <2>10. RefSound(d)
    <3>1. CASE d.ref = apr.ref /\ (d.ok <=> apr.ok)
      BY <2>6, <2>8, <3>1 DEF RefSound, Chosen
    <3>2. CASE d.ref = call.ref /\ d.ok /\ (call.approved \/ call.ref \in apr.signalled)
      <4>1. call.ref \in grants.decided
        BY <2>7, <2>8, <3>2 DEF Chosen, AttemptSound
      <4>2. call.ref \notin apr.superseded
        BY <2>5, <2>7
      <4> QED
        BY <2>5, <2>6, <2>7, <3>2, <4>1, <4>2 DEF RefSound
    <3> QED
      BY <2>6, <3>1, <3>2
  <2>11. AttemptSound(d)
    BY <2>6, <2>8 DEF AttemptSound, Chosen
  <2>12. Here(d)
    BY <2>3, <2>6, <2>9, <2>10, <2>11 DEF Here, Chosen
  <2>13. IF back \in Past THEN LateSound(d) ELSE EarlySound(d)
    <3>1. CASE back \in Past
      <4>1. LateSound(apr) /\ Settled(call.ref)
        BY <2>4, <2>7, <3>1 DEF Settled, Past
      <4> QED
        BY <2>6, <2>8, <3>1, <4>1 DEF LateSound
    <3>2. CASE back \notin Past
      BY <2>4, <2>6, <2>7, <2>8, <3>2 DEF EarlySound, Mine, Past
    <3> QED
      BY <3>1, <3>2
  <2> QED
    BY <2>1, <2>2, <2>4, <2>12, <2>13, GotoLands
<1> QED
  BY <1>1, <1>2

\* What a check is about.
LEMMA CheckFacts ==
    ASSUME IInv, ~flags.gates, pc = "checking", UNCHANGED waitFrame
    PROVE  /\ Runs /\ pc \notin Over /\ Early /\ Here(apr) /\ EarlySound(apr) /\ Waiting /\ TypeOK
           /\ flipSlug \in Slugs /\ back \in {"park", "prepark", "ensure", "retry"}
           /\ call.ref \in Grants /\ call.ref.att <= call.attempt /\ call.attempt <= apr.attempt
           /\ (back = "ensure" =>
                 /\ call.slug = flipSlug
                 /\ IF call.attempt = apr.attempt THEN apr.ref # NoRef ELSE apr.refresh)
           /\ apr.count \in Nat /\ apr.attempt \in Nat /\ call.attempt \in Nat
<1>1. TypeOK
  BY DEF IInv
<1>2. Runs /\ pc \notin Over /\ Early
  BY <1>1, WaitRuns DEF Over, Early, Flipped, Past, AskPcs
<1>3. Here(apr) /\ EarlySound(apr) /\ Waiting /\ flipSlug \in Slugs
  BY <1>2, Now
<1>4. CheckSound
  BY <1>3 DEF Waiting
<1> QED
  BY <1>1, <1>2, <1>3, <1>4 DEF CheckSound, TypeOK, Approvals, Calls

\* A check ends with the grant it found, and the text there is.
LEMMA FreshLands ==
    ASSUME IInv, ~flags.gates, CheckIsFresh
    PROVE  Runs /\ Lands
<1>1. /\ pc = "checking" /\ UNCHANGED waitFrame
      /\ call.attempt = apr.attempt /\ Digest(call.slug) = apr.digest
  BY DEF CheckIsFresh, IsFresh
<1>2. /\ Runs /\ pc \notin Over /\ Here(apr) /\ EarlySound(apr) /\ Waiting /\ flipSlug \in Slugs
      /\ back \in {"park", "prepark", "ensure", "retry"} /\ TypeOK
      /\ (back = "ensure" => call.slug = flipSlug /\ apr.ref # NoRef)
  BY <1>1, CheckFacts
<1>3. CASE back = "park"
  BY <1>2, <1>3, GotoLands DEF CheckIsFresh, Past
<1>4. CASE back = "prepark"
  <2>1. ReapprovalTop(apr, TRUE)
    BY <1>4 DEF CheckIsFresh
  <2> QED
    BY <1>2, <2>1, TopLands
<1>5. CASE back = "ensure"
  <2>1. SubmitFlip(flipSlug) /\ flipSlug' \in Slugs
    BY <1>2, <1>5 DEF CheckIsFresh
  <2>2. Digest(flipSlug)[1] = flipSlug /\ Digest(flipSlug)[2] = text.version[flipSlug]
    BY <1>2, DigestTypes
  <2>3. apr.requested # NoRef => apr.requested.dig = Digest(flipSlug)
    BY <1>1, <1>2, <1>5 DEF Waiting, Chosen, RequestedSound
  <2>4. apr.requested \in {NoRef, apr.ref} \/ OldAt(apr.ref.dig, flipSlug)
    BY <1>2, <1>5, <2>2, <2>3 DEF EarlySound, Older, OldAt
  <2> QED
    BY <1>2, <1>5, <2>1, <2>4, SubmitLands
<1>6. CASE back = "retry"
  BY <1>2, <1>6, ExitsLand DEF CheckIsFresh, Whys
<1> QED
  BY <1>2, <1>3, <1>4, <1>5, <1>6

\* It ends with the grant gone, or out of date.
LEMMA StaleLands ==
    ASSUME IInv, ~flags.gates, CheckSupersedes
    PROVE  Runs /\ Lands
<1>1. pc = "checking" /\ UNCHANGED waitFrame
  BY DEF CheckSupersedes
<1>2. /\ Runs /\ pc \notin Over /\ Here(apr) /\ EarlySound(apr) /\ Waiting /\ TypeOK
      /\ call.ref \in Grants /\ call.ref.att <= call.attempt /\ call.attempt <= apr.attempt
      /\ apr.count \in Nat /\ apr.attempt \in Nat /\ call.attempt \in Nat
  BY <1>1, CheckFacts
<1>3. apr.count <= MaxSupersedes /\ MaxSupersedes \in Nat /\ Chosen(apr) /\ apr \in Approvals
  BY <1>2, HereFacts DEF Here
<1>4. PICK a \in {apr, Superseded} :
         IF a.count > MaxSupersedes THEN Exit("capped", a)
         ELSE IF back = "park" THEN Goto("park", a)
         ELSE ReapprovalTop(a, FALSE)
  BY DEF CheckSupersedes
<1>5. /\ a \in Approvals /\ Chosen(a) /\ EarlySound(a) /\ (Approved(a) => a = apr)
      /\ apr.count <= a.count /\ a.count <= MaxSupersedes + 1 /\ a.count \in Nat
  <2>1. CASE a = apr
    BY <1>2, <1>3, <2>1
  <2>2. CASE a = Superseded
    <3>1. /\ a \in Approvals /\ a.ref = NoRef /\ a.requested = NoRef /\ a.signalled = {}
          /\ a.superseded = apr.superseded \cup {call.ref}
          /\ a.attempt = apr.attempt + 1 /\ a.count = apr.count + 1
      BY <1>2, <2>2, SupersededTypes
    <3>2. ended < apr.attempt /\ \A g \in apr.superseded : g.att < apr.attempt
      BY <1>3 DEF Chosen, AttemptSound
    <3>3. \A g \in apr.superseded : g \in Grants
      BY <1>3 DEF Approvals
    <3>4. \A g \in a.superseded : g.att < apr.attempt + 1
      BY <1>2, <3>1, <3>2, <3>3, GrantTypes
    <3>5. ended < apr.attempt + 1
      BY <1>2, <3>2 DEF TypeOK
    <3>6. AttemptSound(a)
      BY <1>2, <3>1, <3>4, <3>5 DEF AttemptSound
    <3> QED
      BY <1>2, <1>3, <3>1, <3>6 DEF Chosen, RequestedSound, RefSound, EarlySound, Mine, Approved
  <2> QED
    BY <2>1, <2>2
<1>6. CASE a.count > MaxSupersedes
  BY <1>2, <1>4, <1>5, <1>6, ExitLands DEF Whys
<1>7. CASE ~(a.count > MaxSupersedes)
  <2>1. Here(a)
    BY <1>2, <1>3, <1>5, <1>7 DEF Here
  <2>2. CASE back = "park"
    BY <1>2, <1>4, <1>5, <1>7, <2>1, <2>2, GotoLands DEF Past
  <2>3. CASE back # "park"
    BY <1>2, <1>4, <1>5, <1>7, <2>1, <2>3, TopLands
  <2> QED
    BY <2>2, <2>3
<1> QED
  BY <1>6, <1>7

\* It ends without an answer.
LEMMA UnreadableLands ==
    ASSUME IInv, ~flags.gates, CheckUnreadable
    PROVE  Runs /\ Lands
<1>1. pc = "checking" /\ UNCHANGED waitFrame
  BY DEF CheckUnreadable
<1>2. /\ Runs /\ pc \notin Over /\ Here(apr) /\ EarlySound(apr) /\ Waiting /\ flipSlug \in Slugs
      /\ back \in {"park", "prepark", "ensure", "retry"} /\ TypeOK
      /\ (back = "ensure" => apr.ref # NoRef \/ apr.refresh)
  BY <1>1, CheckFacts
<1>3. CASE back = "park"
  BY <1>2, <1>3, GotoLands DEF CheckUnreadable, Past
<1>4. CASE back = "prepark"
  <2>1. ReapprovalTop(apr, TRUE)
    BY <1>4 DEF CheckUnreadable
  <2> QED
    BY <1>2, <2>1, TopLands
<1>5. CASE back = "ensure"
  <2>1. RunTypes' /\ pc' = "unreadable" /\ apr' = apr
    <3>1. Goto("unreadable", apr) /\ apr \in Approvals
      BY <1>2, <1>5 DEF CheckUnreadable, Here
    <3> QED
      BY <1>2, <3>1, HereFacts, GotoTypes DEF Pcs
  <2>2. Chosen(apr)' /\ EarlySound(apr)'
    BY <1>2, <2>1, LikeTypes, LikeKeeps DEF Here
  <2>3. PlaceSound'
    BY <2>1, <2>2 DEF PlaceSound, Early, Flipped, Past, AskPcs, Over
  <2>4. AskSound' /\ PostSound' /\ CheckSound' /\ FlipSound'
    BY <1>2, <1>5, <2>1 DEF AskPcs, AskSound, PostSound, CheckSound, FlipSound
  <2> QED
    BY <1>2, <2>1, <2>2, <2>3, <2>4, HereFacts DEF Lands, Waiting, Here, Through
<1>6. CASE back = "retry"
  BY <1>2, <1>6, ExitsLand DEF CheckUnreadable, Whys
<1> QED
  BY <1>2, <1>3, <1>4, <1>5, <1>6

\* The flip goes through, or is refused.
LEMMA FlipLands ==
    ASSUME IInv, ~flags.gates, FlipSucceeds \/ FlipFails
    PROVE  Runs /\ Lands
<1>1. /\ pc = "flipping" /\ UNCHANGED <<runFrame, text>> /\ (Spend \/ UNCHANGED grants)
      /\ (FlipSucceeds => Spend)
  BY DEF FlipSucceeds, FlipFails
<1>2. Runs /\ pc \notin Over /\ Early
  BY <1>1, SpendRuns DEF Over, Early, Flipped, Past, AskPcs
<1>3. Here(apr) /\ EarlySound(apr) /\ Waiting /\ flipSlug \in Slugs /\ TypeOK
  BY <1>2, Now
<1>4. CASE FlipSucceeds
  <2>1. /\ Digest(call.slug) = call.ref.dig /\ grants'.spent = grants.spent \cup {call.ref}
        /\ Goto("own-end", apr)
    BY <1>3, <1>4 DEF FlipSucceeds, Spend, TypeOK
  <2>2. ~OldAt(call.ref.dig, call.slug)
    <3>1. call.slug \in Slugs
      BY <1>3 DEF TypeOK, Calls
    <3> QED
      BY <1>3, <2>1, <3>1, DigestTypes DEF OldAt
  <2>3. /\ apr.ref \in {NoRef, call.ref} /\ apr.requested \in {NoRef, call.ref}
        /\ (apr.ref # NoRef \/ 0 < res.mark)
    BY <1>1, <1>3, <2>2 DEF Waiting, FlipSound
  <2>4. RunTypes' /\ pc' = "own-end" /\ apr' = apr
    BY <1>3, <2>1, HereFacts, GotoTypes DEF Pcs, Here
  <2>5. Chosen(apr)'
    BY <1>2, <1>3, <2>4, LikeTypes, LikeKeeps DEF Here
  <2>6. LateSound(apr)'
    BY <1>2, <2>1, <2>3, <2>4 DEF LateSound, Settled, Runs
  <2> QED
    BY <1>2, <1>3, <2>4, <2>5, <2>6, HereFacts, PlaceLands DEF Past, Here
<1>5. CASE FlipFails
  <2>1. FlipRefused(flipSlug) /\ UNCHANGED flipSlug
    BY <1>5 DEF FlipFails
  <2> QED
    BY <1>2, <1>3, <2>1, RefusedLands
<1> QED
  BY <1>4, <1>5

\* After the flip, up to the gates.
LEMMA GateLands ==
    ASSUME IInv, ~flags.gates,
           \/ EndOwnExecution \/ GateAsks \/ GateExpires \/ GateAbandoned
           \/ Fails /\ pc # "implement"
    PROVE  Runs /\ Lands
<1>1. /\ TypeOK /\ UNCHANGED waitFrame
      /\ pc \in {"own-end", "resolve", "gatewait", "gatepark", "flipping"}
  BY DEF IInv, EndOwnExecution, GateAsks, GateExpires, GateAbandoned, Fails
<1>2. Runs /\ pc \notin Over
  BY <1>1, WaitRuns DEF Over
<1>3. CASE \E reason \in Whys : Exit(reason, apr)
  BY <1>2, <1>3, ExitsLand
<1>4. CASE GateExpires \/ GateAbandoned \/ (Fails /\ pc # "implement")
  BY <1>3, <1>4 DEF GateExpires, GateAbandoned, Fails, Whys
<1>5. CASE EndOwnExecution \/ GateAsks
  <2>1. Flipped
    BY <1>5 DEF Flipped, Past, EndOwnExecution, GateAsks
  <2>2. /\ Here(apr) /\ LateSound(apr) /\ Waiting /\ flipSlug \in Slugs
        /\ (~IsApproved => apr.ref = NoRef)
    BY <1>2, <2>1, Now
  <2>3. \/ \E to \in Past : Goto(to, apr)
        \/ Undecided /\ Opened /\ Asks("gatepark", apr) /\ UNCHANGED flipSlug
    BY <1>5 DEF EndOwnExecution, GateAsks, Past
  <2>4. ASSUME Undecided, Opened PROVE ~Approved(apr) /\ res.execs # OwnExecution
    <3>1. apr.ref = NoRef /\ 0 < res.mark /\ res.mark < res.execs
      BY <2>2, <2>4 DEF Undecided, LateSound, Opened
    <3> QED
      BY <1>1, <3>1 DEF TypeOK, ResumeFields, OwnExecution, Approved
  <2> QED
    BY <1>2, <2>2, <2>3, <2>4, GotoLands, AsksLands
<1> QED
  BY <1>4, <1>5

-----------------------------------------------------------------------------
\* Every step of the coroutine

\* A delivery that lands well does so on a decision that is still new.
LEMMA LandsKept ==
    ASSUME LandsDecided, dlv' = dlv, ended' = ended, grants.decided \subseteq grants'.decided,
           flags.gates => flags'.gates,
           flags'.gates \/ (apr.count \in Nat /\ apr'.count \in Nat /\ apr.count <= apr'.count)
    PROVE  LandsDecided'
<1>1. flags'.gates \/ (~flags.gates /\ (apr'.count = 0 => apr.count = 0))
  OBVIOUS
<1> QED
  BY <1>1 DEF LandsDecided

\* A grant is asked for on the text that there is.
LEMMA GrantsKept ==
    ASSUME TypeOK, GrantsSound, text' = text, GrantAsked \/ grants'.asked = grants.asked
    PROVE  GrantsSound'
<1>1. CASE GrantAsked
  <2>1. grants'.asked = grants.asked \cup {Asked}
    BY <1>1 DEF GrantAsked, TypeOK
  <2>2. Asked.dig[1] = Asked.slug /\ Asked.dig[2] = text.version[Asked.slug]
           /\ text.version[Asked.slug] \in Nat
    <3>1. call.slug \in Slugs
      BY DEF TypeOK, Calls
    <3> QED
      BY <3>1, AskedTypes, DigestTypes
  <2> QED
    BY <2>1, <2>2 DEF GrantsSound
<1>2. CASE grants'.asked = grants.asked
  BY <1>2 DEF GrantsSound
<1> QED
  BY <1>1, <1>2

\* Where a step lands before the gates, the invariant holds.
LEMMA LandsKeeps ==
    ASSUME IInv, ~flags.gates, Runs, Lands, GrantAsked \/ grants'.asked = grants.asked
    PROVE  IInv'
<1>1. TypeOK /\ ~flags'.gates
  BY DEF IInv, Runs
<1>2. TypeOK'
  BY <1>1 DEF TypeOK, Runs, Lands, RunTypes
<1>3. GrantsSound'
  BY <1>1, GrantsKept DEF IInv, Runs
<1>4. apr.count \in Nat /\ apr'.count \in Nat
  BY <1>1, <1>2 DEF TypeOK, Approvals
<1>5. LandsDecided'
  BY <1>4, LandsKept DEF IInv, Runs, Lands
<1>6. Alone'
  BY DEF IInv, Alone, Open, Runs
<1>7. GatesSound'
  BY <1>1 DEF GatesSound, Lands
<1> QED
  BY <1>2, <1>3, <1>5, <1>6, <1>7 DEF IInv, Lands

\* A loop that is over waits for nothing.
LEMMA OverWaits ==
    ASSUME Waiting, pc' \in Over, UNCHANGED <<apr, res, grants, ended>>
    PROVE  Waiting'
<1>1. Chosen(apr)' /\ 0 < res'.execs
  BY DEF Waiting, Chosen, RequestedSound, RefSound, AttemptSound
<1>2. PlaceSound' /\ AskSound' /\ PostSound' /\ CheckSound' /\ FlipSound'
  BY DEF PlaceSound, Early, Flipped, Past, AskPcs, Over, AskSound, PostSound, CheckSound, FlipSound
<1> QED
  BY <1>1, <1>2 DEF Waiting

\* The loop passes its gates, or ends.
LEMMA ClosingKeeps ==
    ASSUME IInv, PassGates \/ EndLoop \/ Close
    PROVE  IInv'
<1>1. TypeOK /\ GrantsSound /\ LandsDecided /\ Alone /\ GatesSound
  BY DEF IInv
<1>2. PICK to \in {"implement", "drain", "done"} : Goto(to, apr)
  BY DEF PassGates, EndLoop, Close
<1>3. RunTypes' /\ pc' = to /\ apr' = apr
  BY <1>1, <1>2, GotoTypes DEF TypeOK, Pcs
<1>4. /\ UNCHANGED <<res, dlv, gap, grants, text, ended>> /\ flags' \in Flags
      /\ (flags.gates => flags'.gates) /\ (to = "implement" => flags'.gates /\ pc \notin Over)
      /\ (to # "implement" => (flags'.gates <=> flags.gates) /\ pc \in Over)
  BY <1>1, <1>3
    DEF PassGates, EndLoop, Close, Goto, TypeOK, Flags, elsewhere, waitFrame, runFrame, Over
<1>5. TypeOK'
  BY <1>1, <1>3, <1>4 DEF TypeOK, RunTypes
<1>6. GrantsSound' /\ Alone'
  BY <1>1, <1>4 DEF GrantsSound, Alone, Open
<1>7. apr.count \in Nat
  BY <1>1 DEF TypeOK, Approvals
<1>8. LandsDecided'
  BY <1>1, <1>3, <1>4, <1>7, LandsKept
<1>9. GatesSound'
  BY <1>1, <1>3, <1>4 DEF GatesSound, Through, Over
<1>10. ~flags'.gates => Waiting'
  BY <1>3, <1>4, OverWaits DEF IInv, Over
<1> QED
  BY <1>5, <1>6, <1>8, <1>9, <1>10 DEF IInv

\* A state of a loop without a resume, and what a carried delivery becomes.
LEMMA RestTypes ==
    /\ NoResume(0) \in ResumeFields /\ NoResume(1) \in ResumeFields
    /\ NoDelivery \in Deliveries /\ NoDelivery.job = "none" /\ ~NoDelivery.tr
  BY DEF NoResume, ResumeFields, NoDelivery, Deliveries, Terminal

\* Past its gates the loop runs the implementer, watches, and hops.
LEMMA ThroughKeeps ==
    ASSUME IInv,
           \/ Implemented \/ (Fails /\ pc = "implement") \/ WatchEnds \/ Hop
           \/ ContinueAsNew \/ Rehydrate
    PROVE  IInv'
<1>1. TypeOK /\ GrantsSound /\ LandsDecided /\ Alone /\ GatesSound
  BY DEF IInv
<1>2. pc \in Through /\ flags.gates /\ apr.count <= MaxSupersedes
  BY <1>1
    DEF GatesSound, Through, Over, Implemented, Fails, WatchEnds, Hop, ContinueAsNew, Rehydrate
<1>3. /\ UNCHANGED <<grants, text, ended>> /\ flags' \in Flags /\ flags'.gates
      /\ res' \in ResumeFields /\ gap' \in ResumeFields
  BY <1>1, <1>2, RestTypes
    DEF Implemented, Fails, WatchEnds, Hop, ContinueAsNew, Rehydrate, waitFrame, runFrame,
        elsewhere, TypeOK, Flags
<1>4. dlv' \in [Requests -> Deliveries] /\ Open' = Open
  <2>1. CASE dlv' = dlv
    BY <1>1, <2>1 DEF TypeOK, Open
  <2>2. CASE Rehydrate
    <3>1. ASSUME NEW r \in Requests
          PROVE  dlv'[r] \in Deliveries /\ (dlv'[r].job = "none" <=> dlv[r].job = "none")
      <4>1. dlv[r] \in Deliveries
        BY <1>1 DEF TypeOK
      <4>2. dlv'[r] = IF dlv[r].job # "carried" THEN dlv[r]
                      ELSE [dlv[r] EXCEPT !.job = IF dlv[r].phase = "none" THEN "bind" ELSE "land"]
        BY <2>2 DEF Rehydrate
      <4> QED
        BY <4>1, <4>2 DEF Deliveries
    <3>2. dlv' \in [Requests -> Deliveries]
      BY <2>2, <3>1 DEF Rehydrate
    <3> QED
      BY <3>1, <3>2 DEF Open
  <2> QED
    BY <2>1, <2>2
      DEF Implemented, Fails, WatchEnds, Hop, ContinueAsNew, waitFrame, runFrame
<1>5. RunTypes' /\ pc' \in Through \cup Over /\ (pc' \notin Over => apr'.count <= MaxSupersedes)
  <2>1. apr \in Approvals /\ apr.count \in 0 .. MaxSupersedes + 1 /\ MaxSupersedes \in Nat
    BY <1>1, Limits DEF TypeOK
  <2>2. CASE Rehydrate
    <3>1. [apr EXCEPT !.ok = TRUE] \in Approvals /\ [apr EXCEPT !.ok = TRUE].count = apr.count
      BY <2>1 DEF Approvals
    <3>2. Goto("watch", [apr EXCEPT !.ok = TRUE])
      BY <2>2 DEF Rehydrate
    <3> QED
      BY <1>1, <1>2, <2>1, <3>1, <3>2, GotoTypes DEF Pcs, Through
  <2>3. CASE \E to \in {"watch", "hop"} : Goto(to, apr)
    BY <1>1, <1>2, <2>1, <2>3, GotoTypes DEF Pcs, Through
  <2>4. CASE Goto("gap", NoApproval)
    <3>1. NoApproval \in Approvals /\ NoApproval.count \in 0 .. MaxSupersedes + 1
             /\ NoApproval.count <= MaxSupersedes
      BY <2>1, NoApprovalTypes
    <3> QED
      BY <1>1, <2>4, <3>1, GotoTypes DEF Pcs, Through
  <2>5. CASE \E reason \in Whys : Exit(reason, apr)
    BY <1>1, <2>1, <2>5, ExitTypes DEF Over
  <2> QED
    BY <2>2, <2>3, <2>4, <2>5 DEF Implemented, Fails, WatchEnds, Hop, ContinueAsNew, Whys
<1>6. TypeOK'
  BY <1>1, <1>3, <1>4, <1>5 DEF TypeOK, RunTypes
<1>7. GrantsSound' /\ Alone' /\ LandsDecided' /\ GatesSound'
  BY <1>1, <1>3, <1>4, <1>5 DEF GrantsSound, Alone, LandsDecided, GatesSound
<1> QED
  BY <1>3, <1>6, <1>7 DEF IInv

\* Every step of the coroutine keeps the invariant.
LEMMA CoroutineKeeps ==
    ASSUME IInv, Coroutine \/ Expiry
    PROVE  IInv'
<1>1. CASE PassGates \/ EndLoop \/ Close
  BY <1>1, ClosingKeeps
<1>2. CASE \/ Implemented \/ (Fails /\ pc = "implement") \/ WatchEnds \/ Hop
           \/ ContinueAsNew \/ Rehydrate
  BY <1>2, ThroughKeeps
<1>3. CASE ~(PassGates \/ EndLoop \/ Close) /\ ~(\/ Implemented \/ (Fails /\ pc = "implement")
           \/ WatchEnds \/ Hop \/ ContinueAsNew \/ Rehydrate)
  <2>1. /\ TypeOK /\ pc \notin Through /\ pc \notin Over
        /\ GrantAsked \/ grants'.asked = grants.asked
    <3>1. TypeOK
      BY DEF IInv
    <3>2. Spend => grants'.asked = grants.asked
      BY <3>1 DEF Spend, TypeOK
    <3> QED
      BY <1>3, <3>1, <3>2
        DEF Coroutine, Expiry, Investigated, Ask, Answer, AnswerFails, CommentEnds, CheckIsFresh,
            CheckSupersedes, CheckUnreadable, ParkWakes, ParkTicks, Admit, ReparkWakes,
            ReparkTicks, EnsureAgain, FlipSucceeds, FlipFails, EndOwnExecution, GateAsks,
            GateAbandoned, Fails, ParkExpires, ReparkExpires, EnsureExpires, GateExpires,
            Through, Over, waitFrame
  <2>2. ~flags.gates
    BY <2>1 DEF IInv, GatesSound
  <2>3. Runs /\ Lands
    BY <1>3, <2>2, ParkLands, AskLands, AnswerLands, CommentLands, FreshLands, StaleLands,
       UnreadableLands, FlipLands, GateLands DEF Coroutine, Expiry
  <2> QED
    BY <2>1, <2>2, <2>3, LandsKeeps
<1> QED
  BY <1>1, <1>2, <1>3

-----------------------------------------------------------------------------
\* What the loop hears while it waits

\* The approval of the same attempt, maybe with the grant waited for decided.
Decides ==
    /\ ended' = ended /\ res'.mark = res.mark
    /\ apr'.requested = apr.requested /\ apr'.attempt = apr.attempt /\ apr'.slug = apr.slug
    /\ apr'.superseded = apr.superseded /\ apr'.count = apr.count /\ apr'.digest = apr.digest
    /\ (apr'.note <=> apr.note) /\ (apr'.refresh <=> apr.refresh) /\ (apr.ok => apr'.ok)
    /\ apr'.signalled \subseteq apr.signalled \cup grants.decided
    /\ \/ apr'.ref = apr.ref
       \/ /\ apr'.ref = apr.requested /\ apr'.ok
          /\ apr'.ref \in grants.decided \ apr.superseded

\* The approval of the next one.
Rearms ==
    /\ ended' = apr.attempt /\ res'.mark = res.execs
    /\ apr'.ref = NoRef /\ apr'.requested = NoRef /\ apr'.signalled = {}
    /\ apr'.attempt = apr.attempt + 1 /\ apr'.superseded = apr.superseded
    /\ apr'.count = apr.count /\ (apr'.note <=> apr.note) /\ apr'.refresh

Heard ==
    /\ UNCHANGED <<runVars, grants, text>> /\ (flags'.gates <=> flags.gates)
    /\ res.execs <= res'.execs
    /\ Decides \/ Rearms

\* The invariant of a loop that waits holds also of the one that has heard.
LEMMA HeardWaits ==
    ASSUME IInv, TypeOK', ~flags.gates, Heard
    PROVE  Waiting'
<1> USE DEF Heard, runVars
<1>1. /\ TypeOK /\ Chosen(apr) /\ 0 < res.execs /\ PlaceSound /\ AskSound /\ PostSound
      /\ CheckSound /\ FlipSound
  BY DEF IInv, Waiting
<1>2. /\ apr.attempt \in Nat /\ apr'.attempt \in Nat /\ res.execs \in Nat /\ res'.execs \in Nat
      /\ res.mark \in Nat /\ ended \in Int /\ call.attempt \in Nat
      /\ (\A g \in apr.superseded : g.att \in Nat) /\ grants.decided \subseteq Grants
  <2>1. apr.attempt \in Nat /\ apr'.attempt \in Nat /\ apr.superseded \subseteq Grants
    BY <1>1 DEF TypeOK, Approvals
  <2>2. /\ res.execs \in Nat /\ res'.execs \in Nat /\ res.mark \in Nat
        /\ ended \in Int /\ call.attempt \in Nat /\ grants.decided \subseteq Grants
    BY <1>1 DEF TypeOK, ResumeFields, Calls
  <2> QED
    BY <2>1, <2>2, GrantTypes
<1>3. 0 < res'.execs
  BY <1>1, <1>2
<1>4. NoRef \notin grants.decided
  BY <1>2, Limits
<1>5. CASE Decides
  <2>1. RequestedSound(apr)'
    BY <1>1, <1>5 DEF Chosen, RequestedSound, Decides
  <2>2. AttemptSound(apr)'
    BY <1>1, <1>5 DEF Chosen, AttemptSound, Decides
  <2>3. RefSound(apr)'
    <3>1. CASE apr'.ref = apr.ref
      BY <1>1, <1>5, <3>1 DEF Chosen, RefSound, Decides
    <3>2. CASE /\ apr'.ref = apr.requested /\ apr'.ok
               /\ apr'.ref \in grants.decided \ apr.superseded
      <4>1. apr.requested.att = apr.attempt /\ ended < apr.attempt
        BY <1>1, <1>4, <3>2 DEF Chosen, RequestedSound, AttemptSound
      <4> QED
        BY <1>2, <1>5, <3>2, <4>1 DEF RefSound, Decides
    <3> QED
      BY <1>5, <3>1, <3>2 DEF Decides
  <2>4. apr'.ref \in {apr.ref, apr.requested} /\ (apr.ref # NoRef => apr'.ref # NoRef)
    BY <1>4, <1>5 DEF Decides
  <2>5. Early' => EarlySound(apr)'
    <3>1. Early' => EarlySound(apr)
      BY <1>1 DEF PlaceSound, Early, Flipped
    <3> QED
      BY <1>5, <2>4, <3>1 DEF Decides, EarlySound, Mine
  <2>6. Flipped' => LateSound(apr)'
    <3>1. Flipped' => LateSound(apr)
      BY <1>1 DEF PlaceSound, Flipped
    <3> QED
      BY <1>5, <2>4, <3>1 DEF Decides, LateSound, Settled
  <2>7. PlaceSound' /\ AskSound'
    BY <1>1, <1>5, <2>4, <2>5, <2>6 DEF Decides, PlaceSound, AskSound
  <2>8. PostSound' /\ CheckSound'
    BY <1>1, <1>5, <2>4 DEF Decides, PostSound, CheckSound
  <2>9. FlipSound'
    BY <1>1, <1>5, <2>4 DEF Decides, FlipSound, OldAt
  <2> QED
    BY <1>3, <2>1, <2>2, <2>3, <2>7, <2>8, <2>9 DEF Waiting, Chosen
<1>6. CASE Rearms
  <2>1. RequestedSound(apr)' /\ RefSound(apr)'
    BY <1>6 DEF RequestedSound, RefSound, Rearms
  <2>2. AttemptSound(apr)'
    BY <1>1, <1>2, <1>6 DEF Chosen, AttemptSound, Rearms
  <2>3. EarlySound(apr)' /\ LateSound(apr)'
    BY <1>1, <1>6 DEF Rearms, EarlySound, LateSound, Mine, Settled
  <2>4. PlaceSound' /\ AskSound'
    BY <1>1, <1>6, <2>3 DEF Rearms, PlaceSound, AskSound
  <2>5. PostSound'
    BY <1>1, <1>6 DEF Rearms, PostSound
  <2>6. CheckSound'
    BY <1>1, <1>2, <1>6 DEF Rearms, CheckSound
  <2>7. FlipSound'
    BY <1>1, <1>6 DEF Rearms, FlipSound
  <2> QED
    BY <1>3, <2>1, <2>2, <2>4, <2>5, <2>6, <2>7 DEF Waiting, Chosen
<1> QED
  BY <1>5, <1>6

\* A resume is taken over: the approval starts again if it came from elsewhere.
LEMMA TakeTypes ==
    ASSUME TypeOK, NEW s \in Surfaces, NEW n \in {0, 1}, TakeProvenance(s, n)
    PROVE  /\ apr' \in Approvals /\ apr'.count = apr.count /\ ended' \in Nat \cup {-1}
           /\ res' \in ResumeFields /\ res.execs <= res'.execs
           /\ Decides \/ Rearms
<1>1. /\ apr \in Approvals /\ apr.attempt \in Nat /\ apr.count \in Nat
      /\ apr.slug \in Slugs \cup {0}
      /\ res \in ResumeFields /\ res.execs \in Nat /\ res.execs + n \in Nat /\ res.mark \in Nat
      /\ res.execs <= res.execs + n /\ s \in Surfaces \cup {NoSurface} /\ TRUE \in BOOLEAN
  BY DEF TypeOK, Approvals, ResumeFields
<1>2. CASE s # res.surface
  <2>1. /\ apr' = Rearmed /\ ended' = apr.attempt
        /\ res' = [surface |-> s, pending |-> TRUE, mark |-> res.execs, execs |-> res.execs + n]
    BY <1>2 DEF TakeProvenance
  <2>2. res' \in ResumeFields /\ res'.execs = res.execs + n /\ res'.mark = res.execs
    BY <1>1, <2>1 DEF ResumeFields
  <2>3. Rearms
    BY <1>1, <2>1, <2>2, RearmedTypes DEF Rearms
  <2> QED
    BY <1>1, <2>1, <2>2, <2>3, RearmedTypes
<1>3. CASE s = res.surface
  <2>1. apr' = apr /\ ended' = ended /\ res' = [res EXCEPT !.execs = @ + n]
    BY <1>3 DEF TakeProvenance
  <2>2. res' \in ResumeFields /\ res'.execs = res.execs + n /\ res'.mark = res.mark
    BY <1>1, <2>1 DEF ResumeFields
  <2>3. Decides
    BY <2>1, <2>2 DEF Decides
  <2> QED
    BY <1>1, <2>1, <2>2, <2>3 DEF TypeOK
<1> QED
  BY <1>2, <1>3

\* What is heard keeps the invariant, if the deliveries stay as they should.
LEMMA HeardKeeps ==
    ASSUME IInv, TypeOK', Heard, Alone', LandsDecided'
    PROVE  IInv'
<1>1. GrantsSound'
  BY DEF IInv, Heard, GrantsSound
<1>2. GatesSound'
  BY DEF IInv, Heard, runVars, GatesSound, Decides, Rearms
<1>3. ~flags'.gates => Waiting'
  BY HeardWaits DEF Heard
<1> QED
  BY <1>1, <1>2, <1>3 DEF IInv

\* A signal.
LEMMA SignalKeeps ==
    ASSUME IInv, ApproveSignal \/ BareApproveSignal \/ AbandonSignal
    PROVE  IInv'
<1>1. /\ TypeOK /\ UNCHANGED <<runVars, dlv, gap, elsewhere, ended>>
      /\ grants.decided \subseteq Grants /\ apr \in Approvals /\ res \in ResumeFields
      /\ res.execs \in Nat
  BY DEF IInv, TypeOK, ResumeFields, ApproveSignal, BareApproveSignal, AbandonSignal
<1>2. /\ res' \in ResumeFields /\ res'.execs = res.execs /\ res'.mark = res.mark
      /\ flags' \in Flags /\ (flags'.gates <=> flags.gates)
  <2>1. CASE AbandonSignal
    BY <1>1, <2>1 DEF AbandonSignal, TypeOK, Flags
  <2>2. CASE ApproveSignal \/ BareApproveSignal
    <3>1. res' = [res EXCEPT !.pending = FALSE] /\ flags' = flags
      BY <2>2 DEF ApproveSignal, BareApproveSignal
    <3> QED
      BY <1>1, <3>1 DEF ResumeFields, TypeOK
  <2> QED
    BY <2>1, <2>2
<1>3. apr' \in Approvals /\ apr'.count = apr.count /\ Decides
  <2>1. CASE ApproveSignal
    <3>1. PICK g \in grants.decided : apr' = ApproveWith(g)
      BY <2>1 DEF ApproveSignal
    <3>2. ApproveWith(g).signalled \subseteq apr.signalled \cup grants.decided
      BY <1>1, <3>1, ApprovedTypes
    <3> QED
      BY <1>1, <1>2, <3>1, <3>2, ApprovedTypes DEF Decides
  <2>2. CASE BareApproveSignal
    <3>1. apr' = [apr EXCEPT !.ok = TRUE]
      BY <2>2 DEF BareApproveSignal
    <3> QED
      BY <1>1, <1>2, <3>1 DEF Decides, Approvals
  <2>3. CASE AbandonSignal
    BY <1>1, <1>2, <2>3 DEF AbandonSignal, Decides
  <2> QED
    BY <2>1, <2>2, <2>3
<1>4. TypeOK'
  BY <1>1, <1>2, <1>3 DEF TypeOK, runVars, elsewhere
<1>5. Heard
  BY <1>1, <1>2, <1>3 DEF Heard, elsewhere
<1>6. apr.count \in Nat /\ apr'.count \in Nat /\ apr.count <= apr'.count
  BY <1>1, <1>3 DEF Approvals
<1>7. Alone' /\ LandsDecided'
  <2>1. LandsDecided /\ Alone /\ Open' = Open
    BY <1>1 DEF IInv, Open
  <2>2. LandsDecided'
    BY <1>1, <1>2, <1>6, <2>1, LandsKept DEF elsewhere
  <2> QED
    BY <2>1, <2>2 DEF Alone
<1> QED
  BY <1>4, <1>5, <1>7, HeardKeeps

\* A resume, by signal.
LEMMA ResumeKeeps ==
    ASSUME IInv, ResumeSignal
    PROVE  IInv'
<1>1. /\ TypeOK /\ UNCHANGED <<runVars, flags, dlv, elsewhere>> /\ GatesSound
      /\ (pc # "gap" => Open = {})
  BY DEF IInv, ResumeSignal
<1>2. PICK s \in Surfaces :
         /\ TakeProvenance(s, 1)
         /\ gap' = IF pc = "gap" THEN TakeGap(gap, s) ELSE gap
  BY DEF ResumeSignal
<1>3. /\ apr' \in Approvals /\ apr'.count = apr.count /\ ended' \in Nat \cup {-1}
      /\ res' \in ResumeFields /\ res.execs <= res'.execs /\ (Decides \/ Rearms)
  BY <1>1, <1>2, TakeTypes
<1>4. gap' \in ResumeFields
  <2>1. /\ gap \in ResumeFields /\ gap.execs + 1 \in Nat /\ s \in Surfaces \cup {NoSurface}
        /\ (s # gap.surface) \in BOOLEAN
    BY <1>1 DEF TypeOK, ResumeFields
  <2> QED
    BY <1>2, <2>1 DEF TakeGap, ResumeFields
<1>5. TypeOK'
  BY <1>1, <1>3, <1>4 DEF TypeOK, runVars, elsewhere
<1>6. Heard
  BY <1>1, <1>3 DEF Heard, elsewhere
<1>7. Alone' /\ LandsDecided'
  <2>1. CASE pc = "gap"
    BY <1>1, <2>1 DEF IInv, GatesSound, Through, LandsDecided, Alone, Open
  <2>2. CASE pc # "gap"
    <3>1. \A r \in Requests :
             ~(dlv[r].tr /\ dlv[r].phase = "Succeeded" /\ ~flags.gates /\ apr.count = 0)
      BY <1>1, <2>2 DEF IInv, LandsDecided, Open
    <3> QED
      BY <1>1, <1>3, <2>2, <3>1 DEF LandsDecided, Alone, Open
  <2> QED
    BY <2>1, <2>2
<1> QED
  BY <1>5, <1>6, <1>7, HeardKeeps

\* A resume, by request.
LEMMA AcceptKeeps ==
    ASSUME IInv, NEW r \in Requests, AcceptRequest(r)
    PROVE  IInv'
<1>1. TypeOK /\ UNCHANGED <<runVars, flags, gap, grants, text>> /\ Open = {} /\ LandsDecided
  BY DEF IInv, AcceptRequest, MayAccept
<1>2. PICK s \in Surfaces :
         /\ TakeProvenance(s, 0)
         /\ dlv' = [dlv EXCEPT ![r] = [NoDelivery EXCEPT !.job = "bind", !.tr = s # res.surface]]
  BY DEF AcceptRequest
<1>3. /\ apr' \in Approvals /\ apr'.count = apr.count /\ ended' \in Nat \cup {-1}
      /\ res' \in ResumeFields /\ res.execs <= res'.execs /\ (Decides \/ Rearms)
  BY <1>1, <1>2, TakeTypes
<1>4. PICK d \in Deliveries : dlv' = [dlv EXCEPT ![r] = d] /\ d.phase = "none" /\ d.job = "bind"
  <2> DEFINE moved == s # res.surface
  <2>1. moved \in BOOLEAN
    OBVIOUS
  <2>2. dlv' = [dlv EXCEPT ![r] = [NoDelivery EXCEPT !.job = "bind", !.tr = moved]]
    BY <1>2
  <2> HIDE DEF moved
  <2>3. LET d == [NoDelivery EXCEPT !.job = "bind", !.tr = moved]
        IN  d \in Deliveries /\ d.phase = "none" /\ d.job = "bind"
    BY <2>1 DEF Deliveries, NoDelivery, Terminal
  <2> QED
    BY <2>2, <2>3
<1>5. TypeOK'
  BY <1>1, <1>3, <1>4 DEF TypeOK, runVars
<1>6. Heard
  BY <1>1, <1>3 DEF Heard
<1>7. /\ dlv \in [Requests -> Deliveries] /\ dlv'[r] = d
      /\ \A q \in Requests \ {r} : dlv'[q] = dlv[q] /\ dlv[q].job = "none"
  BY <1>1, <1>4 DEF TypeOK, Open
<1>8. Alone'
  BY <1>7 DEF Alone, Open
<1>9. LandsDecided'
  BY <1>1, <1>3, <1>4, <1>7 DEF LandsDecided
<1> QED
  BY <1>5, <1>6, <1>8, <1>9, HeardKeeps

\* What a task does to its delivery, and to what the loop knows of it.
Works(r, d) ==
    /\ d \in Deliveries /\ dlv' = [dlv EXCEPT ![r] = d] /\ dlv[r].job # "none"
    /\ d.tr => dlv[r].tr
    /\ d.tr /\ d.phase = "Succeeded" =>
          d.job # "none" /\ (dlv[r].phase = "Succeeded" \/ IsApproved \/ flags.gates)
    /\ res' \in ResumeFields /\ res'.mark = res.mark /\ res.execs <= res'.execs

\* A task goes one step on.
LEMMA TaskWorks ==
    ASSUME TypeOK, NEW r \in Requests, Task(r)
    PROVE  UNCHANGED taskFrame /\ \E d \in Deliveries : Works(r, d)
<1>1. /\ dlv \in [Requests -> Deliveries] /\ dlv[r] \in Deliveries /\ res \in ResumeFields
      /\ res.execs \in Nat /\ res.execs + 1 \in Nat /\ res.execs <= res.execs + 1
  BY DEF TypeOK, ResumeFields
<1>2. UNCHANGED taskFrame
  BY DEF Task, BindDelivery, DropDelivery, CarryDelivery, DecideDelivery, LandDelivery, LandFails
<1>3. res' = res \/ res' = [res EXCEPT !.execs = @ + 1] \/ res' = [res EXCEPT !.pending = FALSE]
         => res' \in ResumeFields /\ res'.mark = res.mark /\ res.execs <= res'.execs
  <2>1. CASE res' = res
    BY <1>1, <2>1
  <2>2. CASE res' = [res EXCEPT !.execs = @ + 1]
    BY <1>1, <2>2 DEF ResumeFields
  <2>3. CASE res' = [res EXCEPT !.pending = FALSE]
    <3>1. res' \in ResumeFields
      BY <1>1, <2>3 DEF ResumeFields
    <3>2. res'.mark = res.mark /\ res'.execs = res.execs
      BY <1>1, <2>3 DEF ResumeFields
    <3> QED
      BY <1>1, <3>1, <3>2
  <2> QED
    BY <2>1, <2>2, <2>3
<1>4. CASE EndDelivery(r) /\ dlv[r].job # "none"
  <2>1. dlv' = [dlv EXCEPT ![r] = NoDelivery] /\ res' \in {res, [res EXCEPT !.pending = FALSE]}
    BY <1>4 DEF EndDelivery
  <2>2. res' = res \/ res' = [res EXCEPT !.pending = FALSE]
    BY <2>1
  <2>3. res' \in ResumeFields /\ res'.mark = res.mark /\ res.execs <= res'.execs
    BY <1>3, <2>2
  <2>4. Works(r, NoDelivery)
    BY <1>4, <2>1, <2>3, RestTypes DEF Works
  <2> QED
    BY <1>2, <2>4, RestTypes
<1>5. ASSUME NEW d \in Deliveries, dlv' = [dlv EXCEPT ![r] = d], dlv[r].job # "none",
             d.tr = dlv[r].tr, d.job # "none",
             d.phase # "Succeeded" \/ d.phase = dlv[r].phase \/ IsApproved \/ flags.gates,
             res' \in {res, [res EXCEPT !.execs = @ + 1]}
      PROVE  \E e \in Deliveries : Works(r, e)
  <2>1. res' = res \/ res' = [res EXCEPT !.execs = @ + 1]
    BY <1>5
  <2>2. res' \in ResumeFields /\ res'.mark = res.mark /\ res.execs <= res'.execs
    BY <1>3, <2>1
  <2> QED
    BY <1>5, <2>2 DEF Works
<1>6. ASSUME NEW job \in {"wait", "land", "carried"}, NEW phase \in {"none"} \cup Terminal
      PROVE  /\ [dlv[r] EXCEPT !.job = job] \in Deliveries
             /\ [dlv[r] EXCEPT !.job = job, !.bound = TRUE] \in Deliveries
             /\ [dlv[r] EXCEPT !.job = job, !.phase = phase] \in Deliveries
  BY <1>1 DEF Deliveries
<1>7. CASE BindDelivery(r)
  <2>1. CASE dlv' = [dlv EXCEPT ![r].job = "wait", ![r].bound = TRUE]
    <3> DEFINE d == [dlv[r] EXCEPT !.job = "wait", !.bound = TRUE]
    <3>1. d \in Deliveries /\ d.tr = dlv[r].tr /\ d.job # "none" /\ d.phase = dlv[r].phase
      BY <1>1, <1>6 DEF Deliveries
    <3>2. dlv' = [dlv EXCEPT ![r] = d]
      BY <1>1, <2>1
    <3> QED
      BY <1>2, <1>5, <1>7, <3>1, <3>2 DEF BindDelivery
  <2>2. CASE Land(r, "Failed")
    <3> DEFINE d == [dlv[r] EXCEPT !.job = "land", !.phase = "Failed"]
    <3>1. d \in Deliveries /\ d.tr = dlv[r].tr /\ d.job # "none" /\ d.phase = "Failed"
      BY <1>1, <1>6 DEF Deliveries, Terminal
    <3>2. dlv' = [dlv EXCEPT ![r] = d]
      BY <1>1, <2>2 DEF Land
    <3> QED
      BY <1>2, <1>5, <1>7, <3>1, <3>2 DEF BindDelivery
  <2> QED
    BY <1>7, <2>1, <2>2 DEF BindDelivery
<1>8. CASE DecideDelivery(r)
  <2>1. PICK phase \in Terminal : /\ Land(r, phase)
                                  /\ phase = "Succeeded" => IsApproved \/ flags.gates
    BY <1>8 DEF DecideDelivery, Decided, Terminal
  <2> DEFINE d == [dlv[r] EXCEPT !.job = "land", !.phase = phase]
  <2>2. d \in Deliveries /\ d.tr = dlv[r].tr /\ d.job # "none" /\ d.phase = phase
    BY <1>1, <1>6 DEF Deliveries
  <2>3. dlv' = [dlv EXCEPT ![r] = d]
    BY <1>1, <2>1 DEF Land
  <2> QED
    BY <1>2, <1>5, <1>8, <2>1, <2>2, <2>3 DEF DecideDelivery
<1>9. ASSUME NEW job \in {"land", "carried"}, Job(r, job), dlv[r].job # "none", UNCHANGED res
      PROVE  \E e \in Deliveries : Works(r, e)
  <2> DEFINE d == [dlv[r] EXCEPT !.job = job]
  <2>1. d \in Deliveries /\ d.tr = dlv[r].tr /\ d.job # "none" /\ d.phase = dlv[r].phase
    BY <1>1, <1>6 DEF Deliveries
  <2>2. dlv' = [dlv EXCEPT ![r] = d]
    BY <1>1, <1>9 DEF Job
  <2> QED
    BY <1>5, <1>9, <2>1, <2>2
<1> QED
  BY <1>2, <1>4, <1>7, <1>8, <1>9
    DEF Task, DropDelivery, CarryDelivery, LandDelivery, LandFails

\* A task keeps the invariant.
LEMMA TaskKeeps ==
    ASSUME IInv, NEW r \in Requests, Task(r)
    PROVE  IInv'
<1>1. TypeOK /\ LandsDecided /\ Alone
  BY DEF IInv
<1>2. PICK d \in Deliveries : Works(r, d)
  BY <1>1, TaskWorks
<1>3. UNCHANGED <<runVars, apr, flags, gap, grants, text, ended>>
  BY <1>1, TaskWorks DEF taskFrame
<1>4. /\ dlv \in [Requests -> Deliveries] /\ dlv' \in [Requests -> Deliveries]
      /\ dlv'[r] = d /\ \A q \in Requests \ {r} : dlv'[q] = dlv[q]
  BY <1>1, <1>2 DEF TypeOK, Works
<1>5. TypeOK'
  BY <1>1, <1>2, <1>3, <1>4 DEF TypeOK, runVars, Works
<1>6. Heard
  BY <1>2, <1>3 DEF Heard, Decides, Works
<1>7. Alone'
  BY <1>1, <1>2, <1>4 DEF Alone, Open, Works
<1>8. LandsDecided'
  <2>1. IsApproved /\ ~flags.gates /\ apr.count = 0 => \E g \in grants.decided : g.att > ended
    BY DEF IInv, Waiting, Chosen, RefSound, IsApproved
  <2>2. ASSUME d.tr, d.phase = "Succeeded", ~flags.gates, apr.count = 0
        PROVE  d.job # "none" /\ \E g \in grants.decided : g.att > ended
    <3>1. CASE dlv[r].phase = "Succeeded"
      BY <1>1, <1>2, <2>2, <3>1 DEF LandsDecided, Works
    <3>2. CASE IsApproved \/ flags.gates
      BY <1>2, <2>1, <2>2, <3>2 DEF Works
    <3> QED
      BY <1>2, <2>2, <3>1, <3>2 DEF Works
  <2> QED
    BY <1>1, <1>3, <1>4, <2>2 DEF LandsDecided
<1> QED
  BY <1>5, <1>6, <1>7, <1>8, HeardKeeps

\* A grant is decided.
LEMMA DecideKeeps ==
    ASSUME IInv, Decide
    PROVE  IInv'
<1>1. /\ TypeOK /\ GrantsSound /\ LandsDecided /\ ~flags.gates /\ Waiting /\ GatesSound /\ Alone
      /\ UNCHANGED <<runVars, apr, res, flags, dlv, gap, text, ended>>
  BY DEF IInv, Decide
<1>2. PICK g \in grants.asked : grants' = [grants EXCEPT !.decided = @ \cup {g}]
  BY DEF Decide
<1>3. /\ grants'.asked = grants.asked /\ grants'.spent = grants.spent
      /\ grants'.decided = grants.decided \cup {g}
      /\ grants' \in [asked : SUBSET Grants, decided : SUBSET Grants, spent : SUBSET Grants]
  BY <1>1, <1>2 DEF TypeOK
<1>4. TypeOK'
  BY <1>1, <1>3 DEF TypeOK, runVars
<1>5. GrantsSound' /\ GatesSound' /\ Alone' /\ LandsDecided'
  BY <1>1, <1>3 DEF runVars, GrantsSound, GatesSound, Alone, Open, LandsDecided
<1>6. Chosen(apr)' /\ 0 < res'.execs
  BY <1>1, <1>3 DEF Waiting, Chosen, RequestedSound, RefSound, AttemptSound
<1>7. PlaceSound' /\ AskSound'
  BY <1>1, <1>3 DEF runVars, Waiting, PlaceSound, Early, Flipped, EarlySound, LateSound, Mine,
                    Settled, AskSound
<1>8. PostSound' /\ CheckSound' /\ FlipSound'
  BY <1>1, <1>3 DEF runVars, Waiting, PostSound, CheckSound, FlipSound, OldAt
<1> QED
  BY <1>4, <1>5, <1>6, <1>7, <1>8 DEF IInv, Waiting

\* The proposal is written, or another one in its place.
LEMMA WriteKeeps ==
    ASSUME IInv, Rewrite \/ Replace
    PROVE  IInv'
<1>1. /\ TypeOK /\ GrantsSound /\ LandsDecided /\ ~flags.gates /\ Waiting /\ GatesSound /\ Alone
      /\ UNCHANGED <<runVars, apr, res, flags, dlv, gap, grants, ended>>
  BY DEF IInv, Rewrite, Replace
<1>2. /\ text' \in [dir : Slugs, version : [Slugs -> 0 .. MaxRewrites]]
      /\ \A s \in Slugs : text.version[s] \in Nat /\ text'.version[s] \in Nat
                          /\ text.version[s] <= text'.version[s]
  <2>1. CASE Rewrite
    <3>1. PICK s \in Slugs : /\ text.version[s] < MaxRewrites
                             /\ text' = [text EXCEPT !.version[s] = @ + 1]
      BY <2>1 DEF Rewrite
    <3>2. /\ text.version \in [Slugs -> 0 .. MaxRewrites] /\ MaxRewrites \in Nat
          /\ text.dir \in Slugs /\ text.version[s] + 1 \in 0 .. MaxRewrites
      BY <1>1, <3>1, Limits DEF TypeOK
    <3>3. /\ text'.dir = text.dir
          /\ text'.version = [text.version EXCEPT ![s] = text.version[s] + 1]
          /\ text' \in [dir : Slugs, version : [Slugs -> 0 .. MaxRewrites]]
      BY <1>1, <3>1, <3>2 DEF TypeOK
    <3> QED
      BY <3>2, <3>3
  <2>2. CASE Replace
    <3>1. text' = [text EXCEPT !.dir = @ + 1] /\ text.dir + 1 \in Slugs
      BY <2>2 DEF Replace
    <3>2. text'.version = text.version /\ text'.dir = text.dir + 1
             /\ text' \in [dir : Slugs, version : [Slugs -> 0 .. MaxRewrites]]
      BY <1>1, <3>1 DEF TypeOK
    <3> QED
      BY <1>1, <3>2, Limits DEF TypeOK
  <2> QED
    BY <2>1, <2>2
<1>3. TypeOK'
  BY <1>1, <1>2 DEF TypeOK, runVars
<1>4. GrantsSound'
  <2>1. ASSUME NEW g \in grants.asked
        PROVE  g.dig[1] = g.slug /\ g.dig[2] <= text'.version[g.slug]
    <3>1. g \in Grants /\ g.dig[1] = g.slug /\ g.dig[2] <= text.version[g.slug]
      BY <1>1 DEF TypeOK, GrantsSound
    <3> QED
      BY <1>2, <3>1, GrantTypes
  <2> QED
    BY <1>1, <2>1 DEF GrantsSound
<1>5. GatesSound' /\ Alone' /\ LandsDecided'
  BY <1>1 DEF runVars, GatesSound, Alone, Open, LandsDecided
<1>6. Chosen(apr)' /\ 0 < res'.execs
  BY <1>1 DEF Waiting, Chosen, RequestedSound, RefSound, AttemptSound
<1>7. PlaceSound' /\ AskSound' /\ PostSound' /\ CheckSound'
  BY <1>1 DEF runVars, Waiting, PlaceSound, Early, Flipped, EarlySound, LateSound, Mine, Older,
              Settled, AskSound, PostSound, CheckSound
<1>8. FlipSound'
  <2>1. ASSUME pc = "flipping", OldAt(call.ref.dig, call.slug)
        PROVE  OldAt(call.ref.dig, call.slug)'
    <3>1. call.slug \in Slugs /\ call.ref \in Grants
      BY <1>1, <2>1 DEF TypeOK, Calls, Waiting, FlipSound
    <3> QED
      BY <1>1, <1>2, <2>1, <3>1, GrantTypes DEF OldAt, runVars
  <2> QED
    BY <1>1, <2>1 DEF runVars, Waiting, FlipSound
<1> QED
  BY <1>3, <1>4, <1>5, <1>6, <1>7, <1>8 DEF IInv, Waiting

\* A request is fulfilled, or turned down; or nothing happens.
LEMMA RestKeeps ==
    ASSUME IInv, UNCHANGED <<runVars, apr, res, flags, dlv, gap, grants, text, ended>>
    PROVE  IInv'
<1>1. TypeOK' /\ GrantsSound' /\ GatesSound' /\ Alone' /\ LandsDecided'
  BY DEF IInv, TypeOK, runVars, GrantsSound, GatesSound, Alone, Open, LandsDecided
<1>2. Heard
  BY <1>1 DEF Heard, Decides, IInv, TypeOK, ResumeFields
<1> QED
  BY <1>1, <1>2, HeardKeeps

-----------------------------------------------------------------------------
\* The theorems

\* A loop that starts meets the invariant.
LEMMA Initially ==
    ASSUME Init
    PROVE  IInv
<1> USE DEF Init
<1>1. apr = NoApproval /\ apr.count = 0 /\ apr.attempt = 0 /\ apr \in Approvals /\ ~apr.note
  BY NoApprovalTypes DEF NoApproval
<1>2. res \in ResumeFields /\ res.execs = 1 /\ gap \in ResumeFields
  BY RestTypes DEF NoResume
<1>3. dlv \in [Requests -> Deliveries] /\ \A r \in Requests : dlv[r].job = "none" /\ ~dlv[r].tr
  BY RestTypes
<1>4. flags \in Flags /\ ~flags.gates
  BY DEF Flags
<1>5. /\ grants \in [asked : SUBSET Grants, decided : SUBSET Grants, spent : SUBSET Grants]
      /\ text \in [dir : Slugs, version : [Slugs -> 0 .. MaxRewrites]]
  BY Limits
<1>6. TypeOK
  BY <1>1, <1>2, <1>3, <1>4, <1>5, CallTypes, Limits DEF TypeOK, Pcs, Backs, Whys
<1>7. GrantsSound /\ GatesSound /\ Alone /\ LandsDecided
  BY <1>1, <1>3, <1>4, Limits DEF GrantsSound, GatesSound, Alone, Open, LandsDecided, Through, Over
<1>8. Chosen(apr)
  BY <1>1, NoApprovalTypes DEF Chosen, RequestedSound, RefSound, AttemptSound
<1>9. EarlySound(apr) /\ PlaceSound
  BY <1>1, NoApprovalTypes DEF EarlySound, PlaceSound, Mine, Flipped, Past, AskPcs
<1>10. AskSound /\ PostSound /\ CheckSound /\ FlipSound
  BY DEF AskSound, AskPcs, PostSound, CheckSound, FlipSound
<1> QED
  BY <1>2, <1>6, <1>7, <1>8, <1>9, <1>10 DEF IInv, Waiting

\* Every step keeps it.
LEMMA Steadily ==
    ASSUME IInv, [Next]_vars
    PROVE  IInv'
<1>1. CASE Coroutine \/ Expiry
  BY <1>1, CoroutineKeeps
<1>2. CASE Handlers
  BY <1>2, SignalKeeps, ResumeKeeps, AcceptKeeps DEF Handlers
<1>3. CASE Decide \/ Rewrite \/ Replace
  BY <1>3, DecideKeeps, WriteKeeps
<1>4. ASSUME NEW r \in Requests, Task(r) PROVE IInv'
  BY <1>4, TaskKeeps
<1>5. ASSUME NEW r \in Requests, Fulfil(r) PROVE IInv'
  BY <1>5, RestKeeps DEF Fulfil
<1>6. CASE UNCHANGED vars
  BY <1>6, RestKeeps DEF vars, runVars, elsewhere
<1> QED
  BY <1>1, <1>2, <1>3, <1>4, <1>5, <1>6 DEF Next

\* The inductive invariant holds always.
LEMMA Invariant == Spec => []IInv
  BY Initially, Steadily, PTL DEF Spec

\* Every field of the workflow, of its deliveries and of what it asks for has
\* its type, and never are more grants superseded than the loop gives up at.
THEOREM TypeCorrect == Spec => []TypeOK
<1>1. IInv => TypeOK
  BY DEF IInv
<1> QED
  BY <1>1, Invariant, PTL

\* At most one resume is open, and none that came from elsewhere ends well on a
\* decision made before it: ResumeIsDecided.
THEOREM ResumeIsDecidedHolds == Spec => []ResumeIsDecided
<1>1. ASSUME IInv PROVE ResumeIsDecided
  <2>1. Cardinality(Open) <= 1
    <3>1. CASE Open = {}
      BY <3>1, FS_EmptySet
    <3>2. CASE Open # {}
      <4>1. PICK r \in Open : TRUE
        BY <3>2
      <4>2. Open = {r}
        BY <1>1, <4>1 DEF IInv, Alone
      <4> QED
        BY <4>2, FS_Singleton
    <3> QED
      BY <3>1, <3>2
  <2> QED
    BY <1>1, <2>1 DEF IInv, LandsDecided, ResumeIsDecided
<1> QED
  BY <1>1, Invariant, PTL

\* A flip goes out with the approval there is, and nothing else releases a loop.
LEMMA Releases ==
    ASSUME IInv, [Next]_vars
    PROVE  /\ Flips => call'.ref = apr.ref /\ UNCHANGED <<apr, flags, grants, ended>>
           /\ PassesGates => PassGates
<1>0. TypeOK
  BY DEF IInv
<1>1. ASSUME Flips PROVE call'.ref = apr.ref /\ UNCHANGED <<apr, flags, grants, ended>>
  <2>1. ASSUME NEW slug, SubmitFlip(slug) PROVE call'.ref = apr.ref /\ apr' = apr
    BY <1>1, <2>1, CallTypes DEF SubmitFlip, SendsFlip, FlipRefused, Checks, NoCall, Flips
  <2>2. ASSUME NEW slug, Ensures(slug) PROVE call'.ref = apr.ref /\ apr' = apr
    BY <1>1, <2>1, <2>2 DEF Ensures, Checks, Flips
  <2>3. ASSUME NEW a, NEW ticked, ReapprovalTop(a, ticked)
        PROVE  call'.ref = apr.ref /\ apr' = apr
    BY <1>1, <2>2, <2>3 DEF ReapprovalTop, Exit, Goto, Asks, Flips
  <2>4. CASE Admit \/ ReparkWakes \/ EnsureAgain
    BY <1>1, <2>2, <2>3, <2>4
      DEF Admit, ReparkWakes, EnsureAgain, Exit, Asks, Flips, waitFrame, runFrame
  <2>5. CASE CheckIsFresh \/ CheckSupersedes \/ CheckUnreadable
    <3>1. UNCHANGED waitFrame
      BY <2>5 DEF CheckIsFresh, CheckSupersedes, CheckUnreadable
    <3>2. CASE CheckIsFresh \/ CheckUnreadable
      <4>1. pc = "checking" /\ ~flags.gates
        BY <3>2 DEF CheckIsFresh, CheckUnreadable, IInv, GatesSound, Through, Over
      <4>2. back \in {"park", "prepark", "ensure", "retry"}
        BY <3>1, <4>1, CheckFacts
      <4> QED
        BY <1>1, <2>1, <2>3, <3>1, <3>2, <4>2
          DEF CheckIsFresh, CheckUnreadable, Exit, Goto, Flips, waitFrame, runFrame
    <3>3. CASE CheckSupersedes
      <4>1. \E a : Exit("capped", a) \/ Goto("park", a) \/ ReapprovalTop(a, FALSE)
        BY <3>3 DEF CheckSupersedes
      <4> QED
        BY <1>1, <2>3, <3>1, <4>1 DEF Exit, Goto, Flips, waitFrame, runFrame
    <3> QED
      BY <2>5, <3>2, <3>3
  <2>6. ~(Investigated \/ Ask \/ Answer \/ AnswerFails \/ CommentEnds \/ ParkWakes \/ ParkTicks)
    BY <1>0, <1>1 DEF Investigated, Ask, Answer, AnswerFails, CommentEnds, ParkWakes, ParkTicks,
                Goto, Exit, Asks, Checks, Flips, TypeOK, Backs
  <2>7. ~(\/ ReparkTicks \/ FlipSucceeds \/ FlipFails \/ EndOwnExecution \/ PassGates \/ GateAsks
          \/ GateAbandoned \/ Implemented \/ Fails \/ WatchEnds \/ Hop \/ ContinueAsNew
          \/ Rehydrate \/ EndLoop \/ Close \/ Expiry)
    BY <1>1 DEF ReparkTicks, FlipSucceeds, FlipFails, EndOwnExecution, PassGates, GateAsks,
                GateAbandoned, Implemented, Fails, WatchEnds, Hop, ContinueAsNew, Rehydrate,
                EndLoop, Close, Expiry, ParkExpires, ReparkExpires, EnsureExpires, GateExpires,
                Goto, Exit, Asks, Checks, Flips
  <2>8. pc' = pc => FALSE
    BY <1>1 DEF Flips
  <2>9. ~(Handlers \/ Decide \/ Rewrite \/ Replace \/ \E r \in Requests : Task(r) \/ Fulfil(r))
    BY <2>8 DEF Handlers, ApproveSignal, BareApproveSignal, AbandonSignal, ResumeSignal,
                AcceptRequest, Decide, Rewrite, Replace, Task, Fulfil, BindDelivery, DropDelivery,
                CarryDelivery, DecideDelivery, LandDelivery, LandFails, taskFrame, runVars
  <2> QED
    BY <2>4, <2>5, <2>6, <2>7, <2>8, <2>9 DEF Next, Coroutine, vars, runVars
<1>2. ASSUME PassesGates, ~PassGates PROVE FALSE
  <2>1. flags' = flags => FALSE
    BY <1>2 DEF PassesGates
  <2>2. ~(Hop \/ ContinueAsNew \/ EndLoop \/ AbandonSignal)
    BY <1>0, <1>2 DEF Hop, ContinueAsNew, EndLoop, AbandonSignal, PassesGates, TypeOK, Flags
  <2>3. ~((Coroutine /\ ~(Hop \/ ContinueAsNew \/ EndLoop)) \/ Expiry)
    BY <1>2, <2>1
      DEF Coroutine, Expiry, Investigated, Ask, Answer, AnswerFails, CommentEnds, CheckIsFresh,
          CheckSupersedes, CheckUnreadable, ParkWakes, ParkTicks, Admit, ReparkWakes, ReparkTicks,
          EnsureAgain, FlipSucceeds, FlipFails, EndOwnExecution, GateAsks, GateAbandoned,
          Implemented, Fails, WatchEnds, Rehydrate, Close, ParkExpires, ReparkExpires,
          EnsureExpires, GateExpires, waitFrame, runFrame
  <2>4. ~((Handlers /\ ~AbandonSignal) \/ Decide \/ Rewrite \/ Replace
          \/ \E r \in Requests : Task(r) \/ Fulfil(r))
    BY <2>1 DEF Handlers, ApproveSignal, BareApproveSignal, ResumeSignal, AcceptRequest, Decide,
                Rewrite, Replace, Task, Fulfil, BindDelivery, DropDelivery, CarryDelivery,
                DecideDelivery, LandDelivery, LandFails, taskFrame
  <2> QED
    BY <2>1, <2>2, <2>3, <2>4 DEF Next, vars
<1> QED
  BY <1>1, <1>2

\* A flip goes out, and an implementer starts, on a decision a person took that
\* no transition has ended: HumanDecides.
THEOREM HumanDecidesHolds == Spec => HumanDecides
<1>1. ASSUME IInv, IInv', [Next]_vars, Flips
      PROVE  /\ apr.ref \in grants.decided \ apr.superseded /\ apr.ref.ex = OwnExecution
             /\ (apr.count = 0 => apr.ref.att > ended)
  <2>1. call'.ref = apr.ref /\ UNCHANGED <<apr, flags, grants, ended>> /\ pc' = "flipping"
    BY <1>1, Releases DEF Flips
  <2>2. Waiting'
    BY <1>1, <2>1 DEF IInv, GatesSound, Through, Over
  <2>3. apr.ref \in grants.decided /\ apr.ref.ex = OwnExecution
    BY <2>1, <2>2 DEF Waiting, FlipSound
  <2>4. apr.ref # NoRef
    BY <1>1, <2>3, Limits DEF IInv, TypeOK
  <2> QED
    BY <2>1, <2>2, <2>3, <2>4 DEF Waiting, Chosen, RefSound
<1>2. ASSUME IInv, [Next]_vars, PassesGates
      PROVE  /\ apr.ref \in grants.decided /\ (apr.count = 0 => apr.ref.att > ended)
             /\ apr.ref \in grants.spent \/ apr.ref.ex # OwnExecution
             /\ ~flags.abandoned
  <2>1. PassGates /\ ~flags.gates
    BY <1>2, Releases DEF PassesGates
  <2>2. pc \in Past /\ apr.ref # NoRef /\ ~flags.abandoned
    BY <2>1 DEF PassGates, IsApproved, Past
  <2>3. Chosen(apr) /\ LateSound(apr)
    BY <1>2, <2>1, <2>2 DEF IInv, Waiting, PlaceSound, Flipped
  <2> QED
    BY <2>2, <2>3 DEF Chosen, RefSound, LateSound, Settled
<1> DEFINE Human ==
         /\ Flips \/ PassesGates =>
               /\ apr.ref \in grants.decided
               /\ apr.count = 0 => apr.ref.att > ended
         /\ Flips => apr.ref \notin apr.superseded /\ apr.ref.ex = OwnExecution
         /\ PassesGates =>
               /\ apr.ref \in grants.spent \/ apr.ref.ex # OwnExecution
               /\ ~flags.abandoned
<1>3. IInv /\ IInv' /\ [Next]_vars => [Human]_vars
  BY <1>1, <1>2
<1> QED
  BY <1>3, Invariant, PTL DEF Spec, HumanDecides
=============================================================================

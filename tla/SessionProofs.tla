---------------------------- MODULE SessionProofs ----------------------------
(***************************************************************************)
(* Proofs about the two sessions of module MCBB84Session: PositionsMatch,  *)
(* FinalKeysAgree and DisclosuresSubtracted, for every number of slots or  *)
(* raw bits, every sample, shuffle and frame of reports, and every loss.   *)
(*                                                                         *)
(* In each session little is on its way at a time, and what it is tells    *)
(* how far the two agents are: the inductive invariant says so, message    *)
(* type by message type, and each handler is shown to leave something      *)
(* behind that is true of the agents after it.                             *)
(***************************************************************************)
EXTENDS MCBB84Session, KeyProofs

(* Cascade: no operation of the controller changes which positions Bob's   *)
(* bits have, and only an answer adds to what is leaked.                   *)

ControllerFields == {"bits", "first", "current", "previous", "pending", "queued", "outstanding",
                     "asked", "leaked", "corrections", "complete"}

Controller(c) == DOMAIN c = ControllerFields /\ IsSequence(c.bits) /\ c.leaked \in Nat

KeyKept(c, d) == Controller(d) /\ d.bits = c.bits /\ d.leaked = c.leaked

(* Checks that are queued change no bit and disclose nothing.              *)
LEMMA EnqueueChecksKeeps ==
  ASSUME NEW c, Controller(c), NEW checks
  PROVE  KeyKept(c, EnqueueChecks(c, checks)) /\ KeyKept(c, Post!EnqueueChecks(c, checks))
<1>1. ASSUME NEW q, NEW p PROVE KeyKept(c, [c EXCEPT !.queued = q, !.pending = p])
  BY DEF KeyKept, Controller, ControllerFields
<1>2. KeyKept(c, EnqueueChecks(c, checks))
  <2>1. PICK q, p : EnqueueChecks(c, checks) = [c EXCEPT !.queued = q, !.pending = p]
    BY Zenon DEF EnqueueChecks
  <2>2. KeyKept(c, [c EXCEPT !.queued = q, !.pending = p])
    BY <1>1
  <2>. QED
    BY <2>1, <2>2, Zenon
<1>3. KeyKept(c, Post!EnqueueChecks(c, checks))
  <2>1. PICK q, p : Post!EnqueueChecks(c, checks) = [c EXCEPT !.queued = q, !.pending = p]
    BY Zenon DEF Post!EnqueueChecks
  <2>2. KeyKept(c, [c EXCEPT !.queued = q, !.pending = p])
    BY <1>1
  <2>. QED
    BY <2>1, <2>2, Zenon
<1>. QED
  BY <1>2, <1>3

(* Nor does a new pass.                                                    *)
LEMMA StartPassKeeps ==
  ASSUME NEW c, Controller(c), NEW pass, NEW shuffled
  PROVE  /\ KeyKept(c, StartPass(c, pass, shuffled))
         /\ KeyKept(c, Post!StartPass(c, pass, shuffled))
<1>1. ASSUME NEW blocks
      PROVE  KeyKept(c, [c EXCEPT !.current = pass, !.previous = Append(@, blocks)])
  BY DEF KeyKept, Controller, ControllerFields
<1>2. ASSUME NEW d, KeyKept(c, d), NEW e, KeyKept(d, e) PROVE KeyKept(c, e)
  BY <1>2 DEF KeyKept
<1>3. ASSUME NEW blocks
      PROVE  Controller([c EXCEPT !.current = pass, !.previous = Append(@, blocks)])
  BY <1>1 DEF KeyKept
<1>. HIDE DEF KeyKept, Controller
<1>. QED
  BY <1>1, <1>2, <1>3, EnqueueChecksKeeps, Zenon DEF StartPass, Post!StartPass

(* A new controller has the agent's bits and has disclosed nothing.        *)
LEMMA NewControllerFacts ==
  ASSUME NEW bits, IsSequence(bits), NEW first, NEW shuffled
  PROVE  LET c == NewController(bits, first, shuffled)
             p == Post!NewController(bits, first, shuffled)
         IN  /\ Controller(c) /\ c.bits = bits /\ c.leaked = 0
             /\ Controller(p) /\ p.bits = bits /\ p.leaked = 0
<1>. DEFINE new == [bits |-> bits, first |-> IF first < Len(bits) THEN first ELSE Len(bits),
                    current |-> 0, previous |-> <<>>, pending |-> <<>>, queued |-> {},
                    outstanding |-> NoBlock, asked |-> 0, leaked |-> 0, corrections |-> 0,
                    complete |-> FALSE]
<1>1. Controller(new) /\ new.bits = bits /\ new.leaked = 0
  BY DEF Controller, ControllerFields
<1>2. NewController(bits, first, shuffled) = StartPass(new, 0, shuffled)
  BY Zenon DEF NewController
<1>3. Post!NewController(bits, first, shuffled) = Post!StartPass(new, 0, shuffled)
  BY Zenon DEF Post!NewController, Post!NoBlock, NoBlock
<1>. HIDE DEF new
<1>4. KeyKept(new, StartPass(new, 0, shuffled)) /\ KeyKept(new, Post!StartPass(new, 0, shuffled))
  BY <1>1, StartPassKeeps
<1>. QED
  BY <1>1, <1>2, <1>3, <1>4 DEF KeyKept

(* A request is made, or a pass is begun or ended: no bit changes.         *)
LEMMA NextKeeps ==
  ASSUME NEW c, Controller(c), NEW shuffled
  PROVE  /\ KeyKept(c, NextBlock(c)) /\ KeyKept(c, Post!NextBlock(c))
         /\ KeyKept(c, NextPass(c, shuffled)) /\ KeyKept(c, Post!NextPass(c, shuffled))
<1>1. KeyKept(c, NextBlock(c)) /\ KeyKept(c, Post!NextBlock(c))
  BY DEF KeyKept, Controller, ControllerFields, NextBlock, Post!NextBlock
<1>2. KeyKept(c, [c EXCEPT !.complete = TRUE])
  BY DEF KeyKept, Controller, ControllerFields
<1>3. KeyKept(c, NextPass(c, shuffled)) /\ KeyKept(c, Post!NextPass(c, shuffled))
  BY <1>2, StartPassKeeps DEF NextPass, Post!NextPass
<1>. QED
  BY <1>1, <1>3

(* The bits may change, not their positions.                               *)
SameShape(c, d) == Controller(d) /\ DOMAIN d.bits = DOMAIN c.bits /\ d.leaked = c.leaked

(* A sequence with one member replaced                                     *)
LEMMA SameDomainSequence ==
  ASSUME NEW q, IsSequence(q), NEW i, NEW x
  PROVE  IsSequence([q EXCEPT ![i] = x]) /\ DOMAIN [q EXCEPT ![i] = x] = DOMAIN q
<1>. DEFINE new == [q EXCEPT ![i] = x]
<1>1. Len(q) \in Nat /\ DOMAIN q = 1..Len(q) /\ DOMAIN new = DOMAIN q
  BY SequenceFacts
<1>2. new = [k \in 1..Len(q) |-> new[k]]
  BY <1>1
<1>3. \A k \in 1..Len(q) : new[k] \in ToSet(new)
  BY <1>1 DEF ToSet
<1>. HIDE DEF new
<1>4. new \in Seq(ToSet(new))
  BY <1>1, <1>2, <1>3
<1>. QED
  BY <1>1, <1>4 DEF IsSequence, new

(* A correction flips a bit where it stands.                               *)
LEMMA BacktrackingKeeps ==
  ASSUME NEW c, Controller(c), NEW i
  PROVE  SameShape(c, FlipAndBacktrack(c, i)) /\ SameShape(c, Post!FlipAndBacktrack(c, i))
<1>. DEFINE flipped == [c EXCEPT !.bits[i] = 1 - @, !.corrections = @ + 1]
<1>1. \E x : flipped.bits = [c.bits EXCEPT ![i] = x]
  BY DEF Controller, ControllerFields
<1>2. DOMAIN flipped = DOMAIN c /\ flipped.leaked = c.leaked
  BY DEF Controller, ControllerFields
<1>. HIDE DEF flipped
<1>3. Controller(flipped) /\ SameShape(c, flipped)
  BY <1>1, <1>2, SameDomainSequence DEF SameShape, Controller
<1>4. \E k : FlipAndBacktrack(c, i) = EnqueueChecks(flipped, k)
  BY Zenon DEF FlipAndBacktrack, EnqueueBacktracking, flipped
<1>5. \E k : Post!FlipAndBacktrack(c, i) = Post!EnqueueChecks(flipped, k)
  BY Zenon DEF Post!FlipAndBacktrack, Post!EnqueueBacktracking, flipped
<1>6. ASSUME NEW k
      PROVE  SameShape(c, EnqueueChecks(flipped, k)) /\ SameShape(c, Post!EnqueueChecks(flipped, k))
  BY <1>3, EnqueueChecksKeeps DEF SameShape, KeyKept
<1>. QED
  BY <1>4, <1>5, <1>6, Zenon

(* So does a search that goes on.                                          *)
LEMMA ContinueSearchKeeps ==
  ASSUME NEW c, Controller(c), NEW block, NEW region
  PROVE  /\ SameShape(c, ContinueSearch(c, block, region))
         /\ SameShape(c, Post!ContinueSearch(c, block, region))
<1>1. ASSUME NEW entry, NEW front
      PROVE  SameShape(c, Enqueue(c, entry, front)) /\ SameShape(c, Post!Enqueue(c, entry, front))
  BY DEF SameShape, Controller, ControllerFields, Enqueue, Post!Enqueue
<1>. QED
  BY <1>1, BacktrackingKeeps, Zenon DEF ContinueSearch, Post!ContinueSearch

(* An answer: Bob's bits keep their positions, and one more is disclosed.  *)
Answered(c, d) == Controller(d) /\ DOMAIN d.bits = DOMAIN c.bits /\ d.leaked = c.leaked + 1

(* An answer is counted, and the bits keep their positions.                *)
LEMMA ApplyParityFacts ==
  ASSUME NEW c, Controller(c), NEW parity
  PROVE  /\ Answered(c, ApplyParityResponse(c, parity))
         /\ Answered(c, Post!ApplyParityResponse(c, parity))
<1>. DEFINE answered == [c EXCEPT !.outstanding = NoBlock, !.leaked = @ + 1]
<1>1. Controller(answered) /\ answered.bits = c.bits /\ answered.leaked = c.leaked + 1
  BY DEF Controller, ControllerFields
<1>2. Post!NoBlock = NoBlock
  BY DEF Post!NoBlock, NoBlock
<1>3. \/ ApplyParityResponse(c, parity) = answered
      \/ \E block, region : ApplyParityResponse(c, parity) = ContinueSearch(answered, block, region)
  BY Zenon DEF ApplyParityResponse
<1>4. \/ Post!ApplyParityResponse(c, parity) = answered
      \/ \E block, region :
           Post!ApplyParityResponse(c, parity) = Post!ContinueSearch(answered, block, region)
  BY <1>2, Zenon DEF Post!ApplyParityResponse
<1>. HIDE DEF answered
<1>5. ASSUME NEW d, SameShape(answered, d) PROVE Answered(c, d)
  BY <1>1, <1>5 DEF SameShape, Answered
<1>6. Answered(c, answered)
  BY <1>1 DEF Answered
<1>. QED
  BY <1>1, <1>3, <1>4, <1>5, <1>6, ContinueSearchKeeps, Zenon

-----------------------------------------------------------------------------
(* The post-processing: at any time at most one event or message is on its *)
(* way, and what it is tells how far the two agents are.                   *)

SenderFields   == {"sift", "bits", "sample", "answered", "collided", "aborted", "complete",
                   "finalKey"}
ReceiverFields == {"measured", "sift", "bits", "sample", "errors", "cascade", "aborted",
                   "complete", "finalKey"}

PostAgents ==
  /\ DOMAIN sender = SenderFields /\ DOMAIN receiver = ReceiverFields
  /\ IsSequence(sender.bits) /\ sender.answered \in Nat
  /\ IsSequence(receiver.sift) /\ IsSequence(receiver.bits) /\ Len(receiver.bits) <= RawBits
  /\ Len(receiver.sample) \in 0..RawBits /\ receiver.errors \in 0..RawBits
  /\ \/ receiver.cascade = Post!NoController
     \/ Controller(receiver.cascade) /\ DOMAIN receiver.cascade.bits = DOMAIN receiver.bits

PostOpen == ~sender.complete /\ ~receiver.complete /\ receiver.finalKey = Post!NoKey
PostEarly == PostOpen /\ receiver.cascade = Post!NoController /\ sender.answered = 0
PostReconciling ==
  /\ PostOpen /\ Controller(receiver.cascade)
  /\ sender.answered <= receiver.cascade.leaked
PostSameBits == sender.collided \/ sender.bits = receiver.cascade.bits

(* What is so while an event is scheduled, or a message is on its way      *)
PostEventHolds(e) ==
  /\ e \in {"alice.start", "estimate.choose_sample", "cascade.next_request", "cascade.completed",
            "privacy.prepare"}
  /\ e = "alice.start" => PostEarly /\ sender.sift = <<>>
  /\ e = "estimate.choose_sample" => PostEarly /\ DOMAIN sender.bits = DOMAIN receiver.bits
  /\ e \in {"cascade.next_request", "cascade.completed"} => PostReconciling
  /\ e = "privacy.prepare" => PostReconciling /\ PostSameBits

AtSender(m) ==
  /\ m.type \in {"sift.indices", "estimate.result", "cascade.parity_request", "verify.tag",
                 "privacy.seed", "abort"}
  /\ m.type = "sift.indices" =>
       /\ PostEarly /\ m.indices = receiver.sift /\ DOMAIN receiver.bits = DOMAIN receiver.sift
  /\ m.type = "estimate.result" =>
       /\ PostEarly /\ receiver.sample = m.positions
       /\ DOMAIN receiver.bits = DOMAIN RemovePositions(sender.bits, m.positions)
  /\ m.type = "cascade.parity_request" => PostReconciling
  /\ m.type = "verify.tag" => PostReconciling /\ m.bits = receiver.cascade.bits
  /\ m.type = "privacy.seed" =>
       /\ ~sender.complete /\ ~receiver.complete /\ receiver.aborted = "no"
       /\ Controller(receiver.cascade) /\ PostSameBits /\ receiver.finalKey # Post!NoKey
       /\ receiver.finalKey = [bits |-> receiver.cascade.bits, len |-> m.len]
  /\ m.type = "abort" => ~sender.complete /\ ~receiver.complete

AtReceiver(m) ==
  /\ m.type \in {"sift.bases", "estimate.sample", "cascade.start", "cascade.parity_response",
                 "verify.result", "finished", "abort"}
  /\ m.type = "sift.bases" => PostEarly /\ sender.sift = <<>>
  /\ m.type = "estimate.sample" => /\ PostEarly /\ DOMAIN sender.bits = DOMAIN receiver.bits
                                   /\ m.positions \in Seq(Nat)
  /\ m.type = "cascade.start" => /\ PostEarly /\ sender.sample = receiver.sample
                                 /\ DOMAIN sender.bits = DOMAIN receiver.bits
  /\ m.type = "cascade.parity_response" =>
       /\ PostOpen /\ Controller(receiver.cascade)
       /\ sender.answered <= receiver.cascade.leaked + 1
  /\ m.type = "verify.result" => PostReconciling /\ (m.verified => PostSameBits)
  /\ m.type = "finished" => sender.complete /\ sender.aborted = "no"
  /\ m.type = "abort" => ~sender.complete /\ ~receiver.complete

PostTurn ==
  \/ steps = {} /\ toSender = <<>> /\ toReceiver = <<>>
  \/ toSender = <<>> /\ toReceiver = <<>> /\ \E e : steps = {e} /\ PostEventHolds(e)
  \/ steps = {} /\ toReceiver = <<>> /\ \E m : toSender = <<m>> /\ AtSender(m)
  \/ steps = {} /\ toSender = <<>> /\ \E m : toReceiver = <<m>> /\ AtReceiver(m)

PostTargets == Post!PositionsMatch /\ Post!KeysAgree /\ Post!DisclosureSubtracted

PostInv == PostAgents /\ PostTurn /\ PostTargets

(* So it is at the start of the post-processing.                           *)
LEMMA PostInit == Post!Init /\ PostAssumption => PostInv
<1>. SUFFICES ASSUME Post!Init, PostAssumption PROVE PostInv
  OBVIOUS
<1>1. PICK errors, misses :
        receiver = [measured |-> Post!BobBits(errors, misses), sift |-> <<>>, bits |-> <<>>,
                    sample |-> <<>>, errors |-> 0, cascade |-> Post!NoController,
                    aborted |-> "no", complete |-> FALSE, finalKey |-> Post!NoKey]
  BY DEF Post!Init
<1>2. sender = [sift |-> <<>>, bits |-> <<>>, sample |-> <<>>, answered |-> 0,
                collided |-> FALSE, aborted |-> "no", complete |-> FALSE, finalKey |-> Post!NoKey]
  BY DEF Post!Init
<1>3. steps = {"alice.start"} /\ toSender = <<>> /\ toReceiver = <<>>
  BY DEF Post!Init
<1>. HIDE DEF Post!Init
<1>4. IsSequence(<<>>) /\ Len(<<>>) = 0 /\ DOMAIN <<>> = {} /\ 0 \in 0..RawBits
  BY DEF IsSequence, ToSet, PostAssumption
<1>5. PostAgents
  BY <1>1, <1>2, <1>4 DEF PostAgents, SenderFields, ReceiverFields
<1>6. PostEarly /\ sender.sift = <<>>
  BY <1>1, <1>2 DEF PostEarly, PostOpen
<1>7. PostTurn
  BY <1>3, <1>6 DEF PostTurn, PostEventHolds
<1>8. Post!PositionsMatch
  BY <1>1, <1>2, <1>4 DEF Post!PositionsMatch
<1>9. Post!KeysAgree /\ Post!DisclosureSubtracted
  BY <1>1, <1>2 DEF Post!KeysAgree, Post!DisclosureSubtracted
<1>. QED
  BY <1>5, <1>7, <1>8, <1>9 DEF PostInv, PostTargets

(* What an agent does next *)
LEMMA SenderPasses ==
  ASSUME toReceiver = <<>>, toSender' = <<>>, NEW out, Post!AliceDoes(out, {}),
         \/ out.sent = <<>> /\ out.local = {}
         \/ out.sent = <<>> /\ \E e : out.local = {e} /\ PostEventHolds(e)'
         \/ out.local = {} /\ \E m : out.sent = <<m>> /\ AtReceiver(m)'
  PROVE  PostTurn'
<1>1. steps' = out.local
  BY DEF Post!AliceDoes
<1>2. toReceiver' = <<>> \/ toReceiver' = <<>> \o out.sent
  BY DEF Post!AliceDoes, Post!Transmitted
<1>3. <<>> \o <<>> = <<>> /\ \A m : <<>> \o <<m>> = <<m>>
  OBVIOUS
<1>. QED
  BY <1>1, <1>2, <1>3 DEF PostTurn

(* And by one of Bob.                                                      *)
LEMMA ReceiverPasses ==
  ASSUME toSender = <<>>, toReceiver' = <<>>, NEW out, Post!BobDoes(out, {}),
         \/ out.sent = <<>> /\ out.local = {}
         \/ out.sent = <<>> /\ \E e : out.local = {e} /\ PostEventHolds(e)'
         \/ out.local = {} /\ \E m : out.sent = <<m>> /\ AtSender(m)'
  PROVE  PostTurn'
<1>1. steps' = out.local
  BY DEF Post!BobDoes
<1>2. toSender' = <<>> \/ toSender' = <<>> \o out.sent
  BY DEF Post!BobDoes, Post!Transmitted
<1>3. <<>> \o <<>> = <<>> /\ \A m : <<>> \o <<m>> = <<m>>
  OBVIOUS
<1>. QED
  BY <1>1, <1>2, <1>3 DEF PostTurn

(* Only a reason to give up is noted, by an agent that has not completed.  *)
Marked(old, new) ==
  /\ DOMAIN new = DOMAIN old /\ \A x \in DOMAIN old \ {"aborted"} : new[x] = old[x]

(* An abort is recorded: nothing else changes.                             *)
LEMMA PostMarks ==
  ASSUME PostAgents, PostTargets, Marked(sender, sender'), Marked(receiver, receiver'),
         (~sender.complete /\ ~receiver.complete) \/ (sender' = sender /\ receiver' = receiver)
  PROVE  PostAgents' /\ PostTargets'
<1>1. /\ sender'.sift = sender.sift /\ sender'.bits = sender.bits /\ sender'.sample = sender.sample
      /\ sender'.answered = sender.answered /\ sender'.collided = sender.collided
      /\ sender'.complete = sender.complete /\ sender'.finalKey = sender.finalKey
      /\ DOMAIN sender' = SenderFields
  BY DEF PostAgents, SenderFields, Marked
<1>2. /\ receiver'.measured = receiver.measured /\ receiver'.sift = receiver.sift
      /\ receiver'.bits = receiver.bits /\ receiver'.sample = receiver.sample
      /\ receiver'.errors = receiver.errors /\ receiver'.cascade = receiver.cascade
      /\ receiver'.complete = receiver.complete /\ receiver'.finalKey = receiver.finalKey
      /\ DOMAIN receiver' = ReceiverFields
  BY DEF PostAgents, ReceiverFields, Marked
<1>3. PostAgents'
  BY <1>1, <1>2 DEF PostAgents
<1>4. Post!PositionsMatch' /\ Post!DisclosureSubtracted'
  BY <1>1, <1>2 DEF PostTargets, Post!PositionsMatch, Post!DisclosureSubtracted
<1>5. Post!KeysAgree'
  BY <1>1, <1>2 DEF PostTargets, Post!KeysAgree
<1>. QED
  BY <1>3, <1>4, <1>5 DEF PostTargets

(* While neither has finished, the positions are all there is to show.     *)
LEMMA PostOpenTargets ==
  ASSUME PostOpen', Post!PositionsMatch'
  PROVE  PostTargets'
BY DEF PostOpen, PostTargets, Post!KeysAgree, Post!DisclosureSubtracted

(* Alice records an abort, and perhaps tells Bob.                          *)
LEMMA SenderStops ==
  ASSUME PostInv, toReceiver = <<>>, toSender' = <<>>, NEW out, Post!AliceDoes(out, {}),
         Marked(sender, out.self), out.local = {},
         (~sender.complete /\ ~receiver.complete) \/ out.self = sender,
         \/ out.sent = <<>>
         \/ \E m : out.sent = <<m>> /\ m.type = "abort" /\ ~sender.complete /\ ~receiver.complete
  PROVE  PostInv'
<1>1. sender' = out.self /\ receiver' = receiver
  BY DEF Post!AliceDoes
<1>2. Marked(sender, sender') /\ Marked(receiver, receiver')
  <2>1. \A agent : Marked(agent, agent)
    BY DEF Marked
  <2>. QED
    BY <1>1, <2>1, Zenon
<1>6. (~sender.complete /\ ~receiver.complete) \/ (sender' = sender /\ receiver' = receiver)
  BY <1>1
<1>3. PostAgents' /\ PostTargets'
  BY <1>2, <1>6, PostMarks DEF PostInv
<1>4. ~sender.complete => ~sender'.complete
  BY <1>2 DEF PostInv, PostAgents, SenderFields, Marked
<1>5. ASSUME NEW m, m.type = "abort", ~sender.complete, ~receiver.complete
      PROVE  AtReceiver(m)'
  BY <1>1, <1>4, <1>5 DEF AtReceiver
<1>7. PostTurn'
  BY <1>5, SenderPasses
<1>. QED
  BY <1>3, <1>7 DEF PostInv

(* Bob records an abort, and perhaps tells Alice.                          *)
LEMMA ReceiverStops ==
  ASSUME PostInv, toSender = <<>>, toReceiver' = <<>>, NEW out, Post!BobDoes(out, {}),
         Marked(receiver, out.self), out.local = {},
         (~sender.complete /\ ~receiver.complete) \/ out.self = receiver,
         \/ out.sent = <<>>
         \/ \E m : out.sent = <<m>> /\ m.type = "abort" /\ ~sender.complete /\ ~receiver.complete
  PROVE  PostInv'
<1>1. receiver' = out.self /\ sender' = sender
  BY DEF Post!BobDoes
<1>2. Marked(sender, sender') /\ Marked(receiver, receiver')
  <2>1. \A agent : Marked(agent, agent)
    BY DEF Marked
  <2>. QED
    BY <1>1, <2>1, Zenon
<1>6. (~sender.complete /\ ~receiver.complete) \/ (sender' = sender /\ receiver' = receiver)
  BY <1>1
<1>3. PostAgents' /\ PostTargets'
  BY <1>2, <1>6, PostMarks DEF PostInv
<1>4. ~receiver.complete => ~receiver'.complete
  <2>1. "complete" \in DOMAIN receiver \ {"aborted"}
    BY DEF PostInv, PostAgents, ReceiverFields
  <2>. QED
    BY <1>1, <2>1 DEF Marked
<1>5. ASSUME NEW m, m.type = "abort", ~sender.complete, ~receiver.complete
      PROVE  AtSender(m)'
  BY <1>1, <1>4, <1>5 DEF AtSender
<1>7. PostTurn'
  BY <1>5, ReceiverPasses
<1>. QED
  BY <1>3, <1>7 DEF PostInv

(* A handler that raises or gives up; both leave the rest as it is.        *)
LEMMA MarkedFacts ==
  ASSUME NEW agent, "aborted" \in DOMAIN agent, NEW reason
  PROVE  Marked(agent, agent) /\ Marked(agent, Post!RecordAbort(agent, reason))
BY DEF Marked, Post!RecordAbort

(* Alice raises, does nothing or gives up.                                 *)
LEMMA SenderQuits ==
  ASSUME PostInv, toReceiver = <<>>, toSender' = <<>>, NEW out, Post!AliceDoes(out, {}),
         NEW reason,
         \/ out \in Post!Raise(sender)
         \/ out = Post!Outcome(sender, <<>>, {})
         \/ /\ out = Post!Outcome(Post!RecordAbort(sender, reason), <<>>, {})
            /\ ~sender.complete /\ ~receiver.complete
         \/ out \in Post!Abort(sender, reason) /\ ~sender.complete /\ ~receiver.complete
  PROVE  PostInv'
<1>1. "aborted" \in DOMAIN sender
  BY DEF PostInv, PostAgents, SenderFields
<1>2. Marked(sender, out.self) /\ out.local = {}
  BY <1>1, MarkedFacts DEF Post!Raise, Post!Outcome, Post!Abort
<1>3. (~sender.complete /\ ~receiver.complete) \/ out.self = sender
  BY DEF Post!Raise, Post!Outcome
<1>4. \/ out.sent = <<>>
      \/ /\ out.sent = <<[type |-> "abort", reason |-> reason]>>
         /\ ~sender.complete /\ ~receiver.complete
  BY DEF Post!Raise, Post!Outcome, Post!Abort
<1>5. [type |-> "abort", reason |-> reason].type = "abort"
  OBVIOUS
<1>. QED
  BY <1>2, <1>3, <1>4, <1>5, SenderStops

(* Bob raises, does nothing or gives up.                                   *)
LEMMA ReceiverQuits ==
  ASSUME PostInv, toSender = <<>>, toReceiver' = <<>>, NEW out, Post!BobDoes(out, {}),
         NEW reason,
         \/ out \in Post!Raise(receiver)
         \/ out = Post!Outcome(receiver, <<>>, {})
         \/ /\ out = Post!Outcome(Post!RecordAbort(receiver, reason), <<>>, {})
            /\ ~sender.complete /\ ~receiver.complete
         \/ out \in Post!Abort(receiver, reason) /\ ~sender.complete /\ ~receiver.complete
  PROVE  PostInv'
<1>1. "aborted" \in DOMAIN receiver
  BY DEF PostInv, PostAgents, ReceiverFields
<1>2. Marked(receiver, out.self) /\ out.local = {}
  BY <1>1, MarkedFacts DEF Post!Raise, Post!Outcome, Post!Abort
<1>3. (~sender.complete /\ ~receiver.complete) \/ out.self = receiver
  BY DEF Post!Raise, Post!Outcome
<1>4. \/ out.sent = <<>>
      \/ /\ out.sent = <<[type |-> "abort", reason |-> reason]>>
         /\ ~sender.complete /\ ~receiver.complete
  BY DEF Post!Raise, Post!Outcome, Post!Abort
<1>5. [type |-> "abort", reason |-> reason].type = "abort"
  OBVIOUS
<1>. QED
  BY <1>2, <1>3, <1>4, <1>5, ReceiverStops

-----------------------------------------------------------------------------
(* Alice of the post-processing *)

(* A function over the positions of a sequence is one itself.              *)
LEMMA OverSequence ==
  ASSUME NEW q, IsSequence(q), NEW f, f = [k \in DOMAIN q |-> f[k]]
  PROVE  IsSequence(f) /\ DOMAIN f = DOMAIN q /\ Len(f) = Len(q)
<1>1. Len(q) \in Nat /\ DOMAIN q = 1..Len(q) /\ DOMAIN f = DOMAIN q
  BY SequenceFacts
<1>2. \A k \in 1..Len(q) : f[k] \in ToSet(f)
  BY <1>1 DEF ToSet
<1>3. f \in Seq(ToSet(f))
  BY <1>1, <1>2
<1>. QED
  BY <1>1, <1>3 DEF IsSequence

(* Two sequences with the same positions are as long as each other.        *)
LEMMA SameLength ==
  ASSUME NEW p, IsSequence(p), NEW q, IsSequence(q), DOMAIN p = DOMAIN q
  PROVE  Len(p) = Len(q)
<1>1. Len(p) \in Nat /\ DOMAIN p = 1..Len(p) /\ Len(q) \in Nat /\ DOMAIN q = 1..Len(q)
  BY SequenceFacts
<1>2. \A m, n \in Nat : 1..m = 1..n => m = n
  <2>. SUFFICES ASSUME NEW m \in Nat, NEW n \in Nat, 1..m = 1..n, m # n PROVE FALSE
    OBVIOUS
  <2>1. (m + 1 \in 1..n <=> m + 1 \in 1..m) /\ (n + 1 \in 1..m <=> n + 1 \in 1..n)
    OBVIOUS
  <2>. QED
    BY <2>1
<1>. QED
  BY <1>1, <1>2

(* Both sessions count alike.                                              *)
LEMMA SameCardinality == ASSUME NEW S PROVE Post!Cardinality(S) = Cardinality(S)
BY DEF Post!Cardinality, Cardinality

(* Both sessions share their helpers.                                      *)
LEMMA SamePostHelpers ==
  /\ Post!NoController = NoController /\ Post!NoKey = NoKey /\ Post!NoBlock = NoBlock
  /\ \A S : Post!InOrder(S) = InOrder(S)
  /\ \A q, p : Post!RemovePositions(q, p) = RemovePositions(q, p)
<1>1. ASSUME NEW S PROVE Post!InOrder(S) = InOrder(S)
  <2>. DEFINE theirs(k) == CHOOSE x \in S : Post!Cardinality({y \in S : y <= x}) = k
              ours(k) == CHOOSE x \in S : Cardinality({y \in S : y <= x}) = k
  <2>1. \A k : theirs(k) = ours(k)
    BY SameCardinality, Zenon
  <2>2. Post!Cardinality(S) = Cardinality(S)
    BY SameCardinality
  <2>3. Post!InOrder(S) = [k \in 1..Post!Cardinality(S) |-> theirs(k)]
    BY Zenon DEF Post!InOrder
  <2>4. InOrder(S) = [k \in 1..Cardinality(S) |-> ours(k)]
    BY Zenon DEF InOrder
  <2>. HIDE DEF theirs, ours
  <2>. QED
    BY <2>1, <2>2, <2>3, <2>4
<1>2. \A q, p : Post!RemovePositions(q, p) = RemovePositions(q, p)
  <2>. SUFFICES ASSUME NEW q, NEW p PROVE Post!RemovePositions(q, p) = RemovePositions(q, p)
    OBVIOUS
  <2>1. Post!ToSet(p) = ToSet(p)
    BY DEF Post!ToSet, ToSet
  <2>2. PICK kept : kept = InOrder(DOMAIN q \ ToSet(p))
    OBVIOUS
  <2>3. Post!InOrder(DOMAIN q \ Post!ToSet(p)) = kept
    BY <1>1, <2>1, <2>2
  <2>4. RemovePositions(q, p) = [j \in DOMAIN kept |-> q[kept[j]]]
    BY <2>2 DEF RemovePositions
  <2>5. Post!RemovePositions(q, p) = [j \in DOMAIN kept |-> q[kept[j]]]
    BY <2>3 DEF Post!RemovePositions
  <2>. QED
    BY <2>4, <2>5
<1>3. Post!NoController = NoController /\ Post!NoKey = NoKey /\ Post!NoBlock = NoBlock
  BY DEF Post!NoController, NoController, Post!NoKey, NoKey, Post!NoBlock, NoBlock
<1>. QED
  BY <1>1, <1>2, <1>3

(* A controller is not the absence of one.                                 *)
LEMMA IsController == ASSUME NEW c, Controller(c) PROVE c # Post!NoController /\ c # NoController
<1>1. DOMAIN Post!NoController = {"complete", "bits", "outstanding"}
  BY DEF Post!NoController
<1>. QED
  BY <1>1, SamePostHelpers DEF Controller, ControllerFields

(* Alice of the post-processing announces her bases.                       *)
LEMMA PostSendsBases ==
  ASSUME PostInv, PostEventHolds("alice.start"), toReceiver = <<>>, toSender' = <<>>,
         NEW out \in Post!SendBases, Post!AliceDoes(out, {})
  PROVE  PostInv'
<1>1. PICK m : m = [type |-> "sift.bases", bases |-> Post!AliceBases]
  OBVIOUS
<1>2. out.sent = <<m>> /\ out.local = {} /\ out.self = sender
  BY <1>1 DEF Post!SendBases, Post!Outcome
<1>3. sender' = sender /\ receiver' = receiver
  BY <1>2 DEF Post!AliceDoes
<1>4. PostAgents' /\ PostTargets'
  BY <1>3 DEF PostInv, PostAgents, PostTargets, Post!PositionsMatch, Post!KeysAgree,
              Post!DisclosureSubtracted
<1>5. AtReceiver(m)'
  BY <1>1, <1>3 DEF AtReceiver, PostEventHolds, PostEarly, PostOpen
<1>. QED
  BY <1>2, <1>4, <1>5, SenderPasses DEF PostInv

(* Alice keeps the positions Bob kept.                                     *)
LEMMA PostOnSiftIndices ==
  ASSUME PostInv, NEW m, m.type = "sift.indices", AtSender(m), toReceiver = <<>>, toSender' = <<>>,
         NEW out \in Post!OnSiftIndices(m), Post!AliceDoes(out, {})
  PROVE  PostInv'
<1>1. CASE ~Post!ValidPositions(m.indices, RawBits)
  BY <1>1, SenderQuits DEF Post!OnSiftIndices
<1>2. CASE Post!ValidPositions(m.indices, RawBits)
  <2>1. PICK bits : /\ bits = [k \in DOMAIN m.indices |-> Post!AliceBits[m.indices[k]]]
                    /\ out = Post!Outcome([sender EXCEPT !.sift = m.indices, !.bits = bits], <<>>,
                                          {"estimate.choose_sample"})
    BY <1>2 DEF Post!OnSiftIndices
  <2>2. /\ out.sent = <<>> /\ out.local = {"estimate.choose_sample"}
        /\ sender' = [sender EXCEPT !.sift = m.indices, !.bits = bits] /\ receiver' = receiver
    BY <2>1 DEF Post!Outcome, Post!AliceDoes
  <2>3. /\ PostEarly /\ m.indices = receiver.sift /\ DOMAIN receiver.bits = DOMAIN receiver.sift
    BY DEF AtSender
  <2>4. IsSequence(bits) /\ DOMAIN bits = DOMAIN receiver.bits
    BY <2>1, <2>3, OverSequence DEF PostInv, PostAgents
  <2>5. /\ DOMAIN sender' = SenderFields /\ sender'.sift = receiver.sift /\ sender'.bits = bits
        /\ sender'.answered = sender.answered /\ sender'.complete = sender.complete
        /\ sender'.sample = sender.sample
    BY <2>2, <2>3 DEF PostInv, PostAgents, SenderFields
  <2>6. PostEarly' /\ PostAgents'
    BY <2>2, <2>3, <2>4, <2>5 DEF PostEarly, PostOpen, PostInv, PostAgents
  <2>7. Post!PositionsMatch'
    BY <2>2, <2>3, <2>5 DEF PostEarly, PostInv, PostTargets, Post!PositionsMatch
  <2>8. PostTargets'
    BY <2>6, <2>7, PostOpenTargets DEF PostEarly
  <2>9. PostEventHolds("estimate.choose_sample")'
    BY <2>2, <2>4, <2>5, <2>6 DEF PostEventHolds
  <2>. QED
    BY <2>2, <2>6, <2>8, <2>9, SenderPasses DEF PostInv
<1>. QED
  BY <1>1, <1>2

(* The sample leaves the least that is to remain.                          *)
LEMMA SampleSizes ==
  ASSUME KeyAssumption, NEW n \in Nat, n >= MinSample + MinRemaining
  PROVE  SampleSize(n) \in 0..n /\ Post!SampleSize(n) \in 0..n
<1>1. MinSample \in Nat /\ MinRemaining \in Nat /\ SamplePercent \in Nat
  BY DEF KeyAssumption
<1>2. (SamplePercent * n) \div 100 \in Nat
  BY <1>1
<1>. QED
  BY <1>1, <1>2 DEF SampleSize, Post!SampleSize, Smallest, Post!Smallest, Greatest, Post!Greatest

(* Alice chooses the sample among her bits.                                *)
LEMMA PostChoosesSample ==
  ASSUME KeyAssumption, PostAssumption, PostInv, PostEventHolds("estimate.choose_sample"),
         toReceiver = <<>>, toSender' = <<>>,
         NEW out \in Post!ChooseEstimateSample, Post!AliceDoes(out, {})
  PROVE  PostInv'
<1>. DEFINE n == Len(sender.bits)
<1>0. PostEarly /\ DOMAIN sender.bits = DOMAIN receiver.bits
  BY DEF PostEventHolds
<1>1. CASE n < MinSample + MinRemaining
  <2>1. out \in Post!Abort(sender, "not enough bits")
    BY <1>1 DEF Post!ChooseEstimateSample
  <2>. QED
    BY <1>0, <2>1, SenderQuits DEF PostEarly, PostOpen
<1>2. CASE ~(n < MinSample + MinRemaining)
  <2>1. PICK positions \in SampleChoices(n, Post!SampleSize(n)) :
          out = Post!Outcome([sender EXCEPT !.sample = positions],
                    <<[type |-> "estimate.sample", positions |-> positions,
                       bits |-> [k \in DOMAIN positions |-> sender.bits[positions[k]]]]>>, {})
    BY <1>2 DEF Post!ChooseEstimateSample
  <2>2. PICK m : m = [type |-> "estimate.sample", positions |-> positions,
                       bits |-> [k \in DOMAIN positions |-> sender.bits[positions[k]]]]
    OBVIOUS
  <2>3. /\ out.sent = <<m>> /\ out.local = {} /\ receiver' = receiver
        /\ sender' = [sender EXCEPT !.sample = positions]
    BY <2>1, <2>2 DEF Post!Outcome, Post!AliceDoes
  <2>4. n = Len(receiver.bits) /\ n \in 0..RawBits /\ RawBits \in Nat
    BY <1>0, SameLength, SequenceFacts DEF PostInv, PostAgents, PostAssumption
  <2>5. Post!SampleSize(n) \in 0..RawBits
    <3>1. n \in Nat /\ n >= MinSample + MinRemaining
      BY <1>2, <2>4 DEF KeyAssumption
    <3>. HIDE DEF n
    <3>2. Post!SampleSize(n) \in 0..n
      BY <3>1, SampleSizes
    <3>. QED
      BY <2>4, <3>2
  <2>6. positions \in Seq(Nat)
    <3>1. \A k, size, errors \in 0..RawBits : SampleChoices(k, size) \subseteq Seq(Nat)
      BY DEF PostAssumption
    <3>2. 0 \in 0..RawBits
      BY <2>4
    <3>. HIDE DEF n
    <3>3. SampleChoices(n, Post!SampleSize(n)) \subseteq Seq(Nat)
      BY <2>4, <2>5, <3>1, <3>2, Zenon
    <3>. QED
      BY <3>3
  <2>. HIDE DEF n
  <2>7. /\ DOMAIN sender' = SenderFields /\ sender'.sift = sender.sift /\ sender'.bits = sender.bits
        /\ sender'.answered = sender.answered /\ sender'.complete = sender.complete
    BY <2>3 DEF PostInv, PostAgents, SenderFields
  <2>8. PostEarly' /\ PostAgents'
    BY <1>0, <2>3, <2>7 DEF PostEarly, PostOpen, PostInv, PostAgents
  <2>9. Post!PositionsMatch'
    BY <1>0, <2>3, <2>7 DEF PostEarly, PostInv, PostTargets, Post!PositionsMatch
  <2>10. PostTargets'
    BY <2>8, <2>9, PostOpenTargets DEF PostEarly
  <2>11. AtReceiver(m)'
    BY <1>0, <2>2, <2>3, <2>6, <2>7, <2>8 DEF AtReceiver
  <2>. QED
    BY <2>3, <2>8, <2>10, <2>11, SenderPasses DEF PostInv
<1>. QED
  BY <1>1, <1>2

(* Alice removes the sample that Bob has removed.                          *)
LEMMA PostOnEstimateResult ==
  ASSUME PostInv, NEW m, m.type = "estimate.result", AtSender(m), toReceiver = <<>>,
         toSender' = <<>>, NEW out \in Post!OnEstimateResult(m), Post!AliceDoes(out, {})
  PROVE  PostInv'
<1>0. /\ PostEarly /\ receiver.sample = m.positions
      /\ DOMAIN receiver.bits = DOMAIN RemovePositions(sender.bits, m.positions)
  BY DEF AtSender
<1>1. CASE ~Post!ValidPositions(m.positions, Len(sender.bits))
  BY <1>1, SenderQuits DEF Post!OnEstimateResult
<1>2. ASSUME NEW self, NEW bits, NEW aborted, IsSequence(bits),
             self = [sender EXCEPT !.sample = m.positions, !.bits = bits, !.aborted = aborted],
             sender' = self, receiver' = receiver
      PROVE  PostEarly' /\ PostAgents' /\ PostTargets' /\ sender'.sample = receiver'.sample
             /\ sender'.bits = bits
  <2>1. /\ DOMAIN sender' = SenderFields /\ sender'.sift = sender.sift /\ sender'.bits = bits
        /\ sender'.answered = sender.answered /\ sender'.complete = sender.complete
        /\ sender'.sample = m.positions
    BY <1>2 DEF PostInv, PostAgents, SenderFields
  <2>2. PostEarly' /\ PostAgents'
    BY <1>0, <1>2, <2>1 DEF PostEarly, PostOpen, PostInv, PostAgents
  <2>3. Post!PositionsMatch'
    BY <1>0, <1>2, <2>1 DEF PostEarly, PostInv, PostTargets, Post!PositionsMatch
  <2>. QED
    BY <1>0, <1>2, <2>1, <2>2, <2>3, PostOpenTargets DEF PostEarly
<1>3. sender' = out.self /\ receiver' = receiver
  BY DEF Post!AliceDoes
<1>4. CASE Post!ValidPositions(m.positions, Len(sender.bits)) /\ ~m.accept
  <2>1. out \in Post!Abort([sender EXCEPT !.sample = m.positions], "qber")
    BY <1>4 DEF Post!OnEstimateResult
  <2>2. PICK n : n = [type |-> "abort", reason |-> "qber"]
    OBVIOUS
  <2>3. /\ out.sent = <<n>> /\ out.local = {}
        /\ out.self = Post!RecordAbort([sender EXCEPT !.sample = m.positions], "qber")
    BY <2>1, <2>2 DEF Post!Abort, Post!Outcome
  <2>4. \E aborted : out.self = [sender EXCEPT !.sample = m.positions, !.bits = sender.bits,
                                                !.aborted = aborted]
    <3>1. [sender EXCEPT !.sample = m.positions]
            = [sender EXCEPT !.sample = m.positions, !.bits = sender.bits,
                             !.aborted = sender.aborted]
      BY DEF PostInv, PostAgents, SenderFields
    <3>2. [[sender EXCEPT !.sample = m.positions] EXCEPT !.aborted = "qber"]
            = [sender EXCEPT !.sample = m.positions, !.bits = sender.bits, !.aborted = "qber"]
      BY DEF PostInv, PostAgents, SenderFields
    <3>. QED
      BY <2>3, <3>1, <3>2, Zenon DEF Post!RecordAbort
  <2>5. IsSequence(sender.bits)
    BY DEF PostInv, PostAgents
  <2>6. PostEarly' /\ PostAgents' /\ PostTargets'
    BY <1>2, <1>3, <2>4, <2>5
  <2>7. AtReceiver(n)'
    BY <2>2, <2>6 DEF AtReceiver, PostEarly, PostOpen
  <2>. QED
    BY <2>3, <2>6, <2>7, SenderPasses DEF PostInv
<1>5. CASE Post!ValidPositions(m.positions, Len(sender.bits)) /\ m.accept
  <2>1. PICK kept : /\ kept = Post!RemovePositions(sender.bits, m.positions)
                    /\ out = Post!Outcome([sender EXCEPT !.sample = m.positions, !.bits = kept],
                         <<[type |-> "cascade.start",
                            first |-> Post!FirstBlock(m.errors, Len(m.positions), Len(kept))]>>, {})
    BY <1>5 DEF Post!OnEstimateResult
  <2>2. PICK n : n = [type |-> "cascade.start",
                      first |-> Post!FirstBlock(m.errors, Len(m.positions), Len(kept))]
    OBVIOUS
  <2>3. /\ out.sent = <<n>> /\ out.local = {}
        /\ out.self = [sender EXCEPT !.sample = m.positions, !.bits = kept]
    BY <2>1, <2>2 DEF Post!Outcome
  <2>4. out.self = [sender EXCEPT !.sample = m.positions, !.bits = kept,
                                  !.aborted = sender.aborted]
    BY <2>3 DEF PostInv, PostAgents, SenderFields
  <2>5. IsSequence(kept) /\ DOMAIN kept = DOMAIN receiver.bits
    BY <1>0, <2>1, SamePostHelpers, RemoveFacts DEF PostInv, PostAgents
  <2>6. /\ PostEarly' /\ PostAgents' /\ PostTargets' /\ sender'.sample = receiver'.sample
        /\ sender'.bits = kept
    BY <1>2, <1>3, <2>4, <2>5
  <2>7. AtReceiver(n)'
    BY <1>3, <2>2, <2>5, <2>6 DEF AtReceiver
  <2>. QED
    BY <2>3, <2>6, <2>7, SenderPasses DEF PostInv
<1>. QED
  BY <1>1, <1>4, <1>5

(* Alice answers: she has disclosed one bit more than Bob has counted.     *)
LEMMA PostOnParityRequest ==
  ASSUME PostInv, NEW m, m.type = "cascade.parity_request", AtSender(m), toReceiver = <<>>,
         toSender' = <<>>, NEW out \in Post!OnParityRequest(m), Post!AliceDoes(out, {})
  PROVE  PostInv'
<1>1. CASE ~Post!ValidPositions(m.indices, Len(sender.bits))
  BY <1>1, SenderQuits DEF Post!OnParityRequest
<1>2. CASE Post!ValidPositions(m.indices, Len(sender.bits))
  <2>0. PostReconciling
    BY DEF AtSender
  <2>1. PICK n : n = [type |-> "cascade.parity_response", id |-> m.id,
                      parity |-> Post!Parity(sender.bits, m.indices)]
    OBVIOUS
  <2>2. out = Post!Outcome([sender EXCEPT !.answered = @ + 1], <<n>>, {})
    BY <1>2, <2>1 DEF Post!OnParityRequest
  <2>3. /\ out.sent = <<n>> /\ out.local = {} /\ receiver' = receiver
        /\ sender' = [sender EXCEPT !.answered = @ + 1]
    BY <2>2 DEF Post!Outcome, Post!AliceDoes
  <2>4. /\ DOMAIN sender' = SenderFields /\ sender'.sift = sender.sift /\ sender'.bits = sender.bits
        /\ sender'.answered = sender.answered + 1 /\ sender'.complete = sender.complete
        /\ sender'.sample = sender.sample
    BY <2>3 DEF PostInv, PostAgents, SenderFields
  <2>5. PostOpen' /\ PostAgents'
    BY <2>0, <2>3, <2>4 DEF PostReconciling, PostOpen, PostInv, PostAgents
  <2>6. Post!PositionsMatch'
    BY <2>3, <2>4 DEF PostInv, PostTargets, Post!PositionsMatch
  <2>7. sender'.answered <= receiver'.cascade.leaked + 1
    BY <2>0, <2>3, <2>4 DEF PostReconciling, Controller, PostInv, PostAgents
  <2>8. AtReceiver(n)'
    BY <2>0, <2>1, <2>3, <2>5, <2>7 DEF AtReceiver, PostReconciling
  <2>. QED
    BY <2>3, <2>5, <2>6, <2>8, PostOpenTargets, SenderPasses DEF PostInv
<1>. QED
  BY <1>1, <1>2

(* Alice says the tags agree only if the bits do, or the tags collided.    *)
LEMMA PostOnVerifyTag ==
  ASSUME PostInv, NEW m, m.type = "verify.tag", AtSender(m), toReceiver = <<>>,
         toSender' = <<>>, NEW out \in Post!OnVerifyTag(m), Post!AliceDoes(out, {})
  PROVE  PostInv'
<1>1. CASE Len(m.bits) # Len(sender.bits)
  BY <1>1, SenderQuits DEF Post!OnVerifyTag
<1>2. CASE Len(m.bits) = Len(sender.bits)
  <2>0. PostReconciling /\ m.bits = receiver.cascade.bits
    BY DEF AtSender
  <2>1. PICK same \in BOOLEAN :
          out = Post!Outcome([sender EXCEPT !.collided = same /\ m.bits # sender.bits,
                                            !.aborted = IF same THEN @ ELSE "verification"],
                             <<[type |-> "verify.result", verified |-> same]>>, {})
    BY <1>2 DEF Post!OnVerifyTag, Post!TagsAgree
  <2>2. PICK n : n = [type |-> "verify.result", verified |-> same]
    OBVIOUS
  <2>3. /\ out.sent = <<n>> /\ out.local = {} /\ receiver' = receiver
        /\ sender' = [sender EXCEPT !.collided = same /\ m.bits # sender.bits,
                                    !.aborted = IF same THEN @ ELSE "verification"]
    BY <2>1, <2>2 DEF Post!Outcome, Post!AliceDoes
  <2>4. /\ DOMAIN sender' = SenderFields /\ sender'.sift = sender.sift /\ sender'.bits = sender.bits
        /\ sender'.answered = sender.answered /\ sender'.complete = sender.complete
        /\ sender'.sample = sender.sample
    BY <2>3 DEF PostInv, PostAgents, SenderFields
  <2>9. same /\ m.bits # sender.bits => sender'.collided
    BY <2>3 DEF PostInv, PostAgents, SenderFields
  <2>5. PostReconciling' /\ PostAgents'
    BY <2>0, <2>3, <2>4 DEF PostReconciling, PostOpen, PostInv, PostAgents
  <2>6. Post!PositionsMatch'
    BY <2>3, <2>4 DEF PostInv, PostTargets, Post!PositionsMatch
  <2>7. n.verified => PostSameBits'
    BY <2>0, <2>2, <2>3, <2>4, <2>9 DEF PostSameBits
  <2>8. AtReceiver(n)'
    BY <2>2, <2>5, <2>7 DEF AtReceiver
  <2>. QED
    BY <2>3, <2>5, <2>6, <2>8, PostOpenTargets, SenderPasses DEF PostInv, PostReconciling
<1>. QED
  BY <1>1, <1>2

(* Alice's key is Bob's: of the same bits, and as long.                    *)
LEMMA PostOnPrivacySeed ==
  ASSUME PostInv, NEW m, m.type = "privacy.seed", AtSender(m), sender.aborted = "no",
         toReceiver = <<>>, toSender' = <<>>,
         NEW out \in Post!OnPrivacySeed(m), Post!AliceDoes(out, {})
  PROVE  PostInv'
<1>1. CASE m.inputLen # Len(sender.bits)
  BY <1>1, SenderQuits DEF Post!OnPrivacySeed
<1>2. CASE m.inputLen = Len(sender.bits)
  <2>0. /\ ~sender.complete /\ ~receiver.complete /\ receiver.aborted = "no"
        /\ Controller(receiver.cascade) /\ PostSameBits /\ receiver.finalKey # Post!NoKey
        /\ receiver.finalKey = [bits |-> receiver.cascade.bits, len |-> m.len]
    BY DEF AtSender
  <2>1. PICK n : n = [type |-> "finished"]
    OBVIOUS
  <2>2. out = Post!Outcome([sender EXCEPT !.finalKey = [bits |-> sender.bits, len |-> m.len],
                                          !.complete = TRUE], <<n>>, {})
    BY <1>2, <2>1 DEF Post!OnPrivacySeed
  <2>3. /\ out.sent = <<n>> /\ out.local = {} /\ receiver' = receiver
        /\ sender' = [sender EXCEPT !.finalKey = [bits |-> sender.bits, len |-> m.len],
                                    !.complete = TRUE]
    BY <2>2 DEF Post!Outcome, Post!AliceDoes
  <2>4. /\ DOMAIN sender' = SenderFields /\ sender'.sift = sender.sift /\ sender'.bits = sender.bits
        /\ sender'.answered = sender.answered /\ sender'.complete
        /\ sender'.sample = sender.sample /\ sender'.collided = sender.collided
        /\ sender'.aborted = "no" /\ sender'.finalKey = [bits |-> sender.bits, len |-> m.len]
    BY <2>3 DEF PostInv, PostAgents, SenderFields
  <2>5. PostAgents'
    BY <2>3, <2>4 DEF PostInv, PostAgents
  <2>6. Post!PositionsMatch' /\ Post!DisclosureSubtracted'
    BY <2>3, <2>4 DEF PostInv, PostTargets, Post!PositionsMatch, Post!DisclosureSubtracted
  <2>7. Post!KeysAgree'
    BY <2>0, <2>3, <2>4 DEF Post!KeysAgree, PostSameBits
  <2>8. AtReceiver(n)'
    BY <2>1, <2>4 DEF AtReceiver
  <2>. QED
    BY <2>3, <2>5, <2>6, <2>7, <2>8, SenderPasses DEF PostInv, PostTargets
<1>. QED
  BY <1>1, <1>2

(* Every message that may reach Alice has been dealt with.                 *)
LEMMA PostAliceReceives ==
  ASSUME PostInv, Post!AliceReceives PROVE PostInv'
<1>1. PICK m : toSender = <<m>> /\ AtSender(m) /\ steps = {} /\ toReceiver = <<>>
  BY DEF Post!AliceReceives, PostInv, PostTurn
<1>2. Head(toSender) = m /\ Tail(toSender) = <<>>
  BY <1>1
<1>3. toSender' = <<>>
  BY <1>2 DEF Post!AliceReceives
<1>4. PICK out \in Post!AliceOnMessage(m) : Post!AliceDoes(out, {})
  BY <1>1, <1>2 DEF Post!AliceReceives
<1>5. CASE m.type = "abort"
  <2>1. out = Post!Outcome(Post!RecordAbort(sender, m.reason), <<>>, {})
    BY <1>4, <1>5 DEF Post!AliceOnMessage, Post!OnMessage
  <2>2. ~sender.complete /\ ~receiver.complete
    BY <1>1, <1>5 DEF AtSender
  <2>. QED
    BY <1>1, <1>3, <1>4, <2>1, <2>2, SenderQuits
<1>6. CASE m.type # "abort" /\ Post!Over(sender)
  <2>1. out = Post!Outcome(sender, <<>>, {})
    BY <1>4, <1>6 DEF Post!AliceOnMessage, Post!OnMessage
  <2>. QED
    BY <1>1, <1>3, <1>4, <2>1, SenderQuits
<1>7. CASE m.type # "abort" /\ ~Post!Over(sender)
  <2>0. sender.aborted = "no"
    BY <1>7 DEF Post!Over
  <2>1. CASE m.type = "sift.indices"
    <3>1. out \in Post!OnSiftIndices(m)
      BY <1>4, <1>7, <2>1 DEF Post!AliceOnMessage, Post!OnMessage
    <3>. QED
      BY <1>1, <1>3, <1>4, <2>1, <3>1, PostOnSiftIndices
  <2>2. CASE m.type = "estimate.result"
    <3>1. out \in Post!OnEstimateResult(m)
      BY <1>4, <1>7, <2>2 DEF Post!AliceOnMessage, Post!OnMessage
    <3>. QED
      BY <1>1, <1>3, <1>4, <2>2, <3>1, PostOnEstimateResult
  <2>3. CASE m.type = "cascade.parity_request"
    <3>1. out \in Post!OnParityRequest(m)
      BY <1>4, <1>7, <2>3 DEF Post!AliceOnMessage, Post!OnMessage
    <3>. QED
      BY <1>1, <1>3, <1>4, <2>3, <3>1, PostOnParityRequest
  <2>4. CASE m.type = "verify.tag"
    <3>1. out \in Post!OnVerifyTag(m)
      BY <1>4, <1>7, <2>4 DEF Post!AliceOnMessage, Post!OnMessage
    <3>. QED
      BY <1>1, <1>3, <1>4, <2>4, <3>1, PostOnVerifyTag
  <2>5. CASE m.type = "privacy.seed"
    <3>1. out \in Post!OnPrivacySeed(m)
      BY <1>4, <1>7, <2>5 DEF Post!AliceOnMessage, Post!OnMessage
    <3>. QED
      BY <1>1, <1>3, <1>4, <2>0, <2>5, <3>1, PostOnPrivacySeed
  <2>. QED
    BY <1>1, <1>7, <2>1, <2>2, <2>3, <2>4, <2>5 DEF AtSender
<1>. QED
  BY <1>5, <1>6, <1>7

-----------------------------------------------------------------------------
(* Bob of the post-processing *)

(* A part of a part                                                        *)
LEMMA Within == ASSUME NEW c \in Nat, NEW b \in 0..c, NEW a \in 0..b PROVE a \in 0..c
OBVIOUS

(* A sequence has no more members left than it had.                        *)
LEMMA InOrderBound ==
  ASSUME NEW n \in Nat, NEW S \in SUBSET (1..n)
  PROVE  /\ IsSequence(InOrder(S)) /\ Len(InOrder(S)) \in 0..n
         /\ \A k \in DOMAIN InOrder(S) : InOrder(S)[k] \in S
<1>1. IsFiniteSet(1..n) /\ Cardinality(1..n) = n
  BY FS_Interval
<1>2. IsFiniteSet(S) /\ Cardinality(S) <= n /\ Cardinality(S) \in Nat
  BY <1>1, FS_Subset, FS_CardinalityType
<1>3. S \in SUBSET Int
  OBVIOUS
<1>4. InOrder(S) \in Seq(S) /\ Len(InOrder(S)) = Cardinality(S)
  BY <1>2, <1>3, InOrderFacts
<1>. QED
  BY <1>2, <1>4, SequenceFacts

(* What remains of a key is a sequence no longer than it.                  *)
LEMMA RemoveBound ==
  ASSUME NEW q, IsSequence(q), NEW positions
  PROVE  /\ IsSequence(RemovePositions(q, positions))
         /\ Len(RemovePositions(q, positions)) \in 0..Len(q)
<1>. DEFINE left == DOMAIN q \ ToSet(positions)
            kept == InOrder(left)
<1>1. Len(q) \in Nat /\ DOMAIN q = 1..Len(q)
  BY SequenceFacts
<1>2. IsSequence(kept) /\ Len(kept) \in 0..Len(q)
  BY <1>1, InOrderBound
<1>3. RemovePositions(q, positions) = [j \in DOMAIN kept |-> q[kept[j]]]
  BY DEF RemovePositions
<1>. HIDE DEF kept
<1>. QED
  BY <1>2, <1>3, OverSequence

(* The same positions are left of two keys with the same positions.        *)
LEMMA SameRemains ==
  ASSUME NEW p, NEW q, DOMAIN p = DOMAIN q, NEW positions
  PROVE  DOMAIN RemovePositions(p, positions) = DOMAIN RemovePositions(q, positions)
BY DEF RemovePositions

(* Bob keeps the positions whose bases match.                              *)
LEMMA PostOnSiftBases ==
  ASSUME PostAssumption, PostInv, NEW m, m.type = "sift.bases", AtReceiver(m), toSender = <<>>,
         toReceiver' = <<>>, NEW out \in Post!OnSiftBases(m), Post!BobDoes(out, {})
  PROVE  PostInv'
<1>1. CASE Len(m.bases) # RawBits
  BY <1>1, ReceiverQuits DEF Post!OnSiftBases
<1>2. CASE Len(m.bases) = RawBits
  <2>0. PostEarly /\ sender.sift = <<>>
    BY DEF AtReceiver
  <2>1. PICK kept : /\ kept = Post!InOrder({i \in 1..RawBits : Post!Sifts(i, m.bases)})
                    /\ out = Post!Outcome([receiver EXCEPT !.sift = kept,
                                !.bits = [k \in DOMAIN kept |-> receiver.measured[kept[k]]]],
                               <<[type |-> "sift.indices", indices |-> kept]>>, {})
    BY <1>2 DEF Post!OnSiftBases
  <2>2. PICK bits, n : /\ bits = [k \in DOMAIN kept |-> receiver.measured[kept[k]]]
                       /\ n = [type |-> "sift.indices", indices |-> kept]
    OBVIOUS
  <2>3. /\ out.sent = <<n>> /\ out.local = {} /\ sender' = sender
        /\ receiver' = [receiver EXCEPT !.sift = kept, !.bits = bits]
    BY <2>1, <2>2 DEF Post!Outcome, Post!BobDoes
  <2>4. /\ DOMAIN receiver' = ReceiverFields /\ receiver'.sift = kept /\ receiver'.bits = bits
        /\ receiver'.measured = receiver.measured /\ receiver'.sample = receiver.sample
        /\ receiver'.errors = receiver.errors /\ receiver'.cascade = receiver.cascade
        /\ receiver'.complete = receiver.complete /\ receiver'.finalKey = receiver.finalKey
    BY <2>3 DEF PostInv, PostAgents, ReceiverFields
  <2>5. /\ IsSequence(kept) /\ Len(kept) \in 0..RawBits
        /\ \A k \in DOMAIN kept : receiver.measured[kept[k]] # Post!Missed
    <3>. DEFINE S == {i \in 1..RawBits : Post!Sifts(i, m.bases)}
    <3>1. RawBits \in Nat /\ S \in SUBSET (1..RawBits) /\ kept = InOrder(S)
      BY <2>1, SamePostHelpers DEF PostAssumption
    <3>2. \A i \in S : receiver.measured[i] # Post!Missed
      BY DEF Post!Sifts
    <3>. HIDE DEF S
    <3>. QED
      BY <3>1, <3>2, InOrderBound
  <2>6. IsSequence(bits) /\ DOMAIN bits = DOMAIN kept /\ Len(bits) = Len(kept)
    BY <2>2, <2>5, OverSequence
  <2>7. PostEarly'
    BY <2>0, <2>3, <2>4 DEF PostEarly, PostOpen
  <2>8. PostAgents'
    BY <2>0, <2>3, <2>4, <2>5, <2>6 DEF PostEarly, PostInv, PostAgents, PostAssumption
  <2>9. Post!PositionsMatch'
    BY <2>0, <2>3, <2>4, <2>5, <2>7 DEF PostEarly, Post!PositionsMatch
  <2>10. AtSender(n)'
    BY <2>2, <2>4, <2>6, <2>7 DEF AtSender
  <2>. QED
    BY <2>3, <2>7, <2>8, <2>9, <2>10, PostOpenTargets, ReceiverPasses DEF PostInv, PostEarly
<1>. QED
  BY <1>1, <1>2

(* Of n positions at most n are wrong.                                     *)
LEMMA CountBound ==
  ASSUME NEW n \in Nat, NEW S \in SUBSET (1..n)
  PROVE  Cardinality(S) \in 0..n
<1>1. IsFiniteSet(1..n) /\ Cardinality(1..n) = n
  BY FS_Interval
<1>2. IsFiniteSet(S) /\ Cardinality(S) <= n /\ Cardinality(S) \in Nat
  BY <1>1, FS_Subset, FS_CardinalityType
<1>. QED
  BY <1>2

(* A valid sample is not larger than the key.                              *)
LEMMA SampleBound ==
  ASSUME NEW n \in Nat, NEW positions, ValidPositions(positions, n)
  PROVE  Len(positions) \in 0..n
BY CountBound DEF ValidPositions

(* Both sessions check positions alike.                                    *)
LEMMA SameValid ==
  ASSUME NEW positions, NEW n
  PROVE  Post!ValidPositions(positions, n) <=> ValidPositions(positions, n)
<1>1. Post!ToSet(positions) = ToSet(positions)
  BY DEF Post!ToSet, ToSet
<1>. QED
  BY <1>1, SameCardinality DEF Post!ValidPositions, ValidPositions

(* Bob counts the errors of the sample, and removes it.                    *)
LEMMA PostOnEstimateSample ==
  ASSUME PostAssumption, PostInv, NEW m, m.type = "estimate.sample", AtReceiver(m),
         toSender = <<>>, toReceiver' = <<>>,
         NEW out \in Post!OnEstimateSample(m), Post!BobDoes(out, {})
  PROVE  PostInv'
<1>1. CASE m.positions = <<>> \/ ~Post!ValidPositions(m.positions, Len(receiver.bits))
  BY <1>1, ReceiverQuits DEF Post!OnEstimateSample
<1>2. CASE ~(m.positions = <<>> \/ ~Post!ValidPositions(m.positions, Len(receiver.bits)))
  <2>0. PostEarly /\ DOMAIN sender.bits = DOMAIN receiver.bits /\ m.positions \in Seq(Nat)
    BY DEF AtReceiver
  <2>1. PICK errors, accept :
          /\ errors = Post!Cardinality({k \in DOMAIN m.positions :
                                          receiver.bits[m.positions[k]] # m.bits[k]})
          /\ out = Post!Outcome([receiver EXCEPT !.sample = m.positions, !.errors = errors,
                                   !.bits = Post!RemovePositions(@, m.positions),
                                   !.aborted = IF accept THEN @ ELSE "qber"],
                     <<[type |-> "estimate.result", accept |-> accept, errors |-> errors,
                        positions |-> m.positions]>>, {})
    BY <1>2, Zenon DEF Post!OnEstimateSample
  <2>2. PICK n : n = [type |-> "estimate.result", accept |-> accept, errors |-> errors,
                      positions |-> m.positions]
    OBVIOUS
  <2>3. /\ out.sent = <<n>> /\ out.local = {} /\ sender' = sender
        /\ receiver' = [receiver EXCEPT !.sample = m.positions, !.errors = errors,
                                   !.bits = Post!RemovePositions(@, m.positions),
                                   !.aborted = IF accept THEN @ ELSE "qber"]
    BY <2>1, <2>2 DEF Post!Outcome, Post!BobDoes
  <2>. DEFINE rest == RemovePositions(receiver.bits, m.positions)
  <2>4. /\ DOMAIN receiver' = ReceiverFields /\ receiver'.sift = receiver.sift
        /\ receiver'.bits = rest
        /\ receiver'.measured = receiver.measured /\ receiver'.sample = m.positions
        /\ receiver'.errors = errors /\ receiver'.cascade = receiver.cascade
        /\ receiver'.complete = receiver.complete /\ receiver'.finalKey = receiver.finalKey
    BY <2>3, SamePostHelpers DEF PostInv, PostAgents, ReceiverFields
  <2>5. IsSequence(receiver.bits) /\ Len(receiver.bits) \in 0..RawBits /\ RawBits \in Nat
    BY SequenceFacts DEF PostInv, PostAgents, PostAssumption
  <2>6. IsSequence(rest) /\ Len(rest) \in 0..RawBits
    <3>1. IsSequence(rest) /\ Len(rest) \in 0..Len(receiver.bits)
      BY <2>5, RemoveBound
    <3>. HIDE DEF rest
    <3>. QED
      BY <2>5, <3>1
  <2>7. Len(m.positions) \in 0..RawBits
    <3>1. ValidPositions(m.positions, Len(receiver.bits))
      BY <1>2, SameValid
    <3>2. Len(m.positions) \in 0..Len(receiver.bits)
      BY <2>5, <3>1, SampleBound
    <3>. QED
      BY <2>5, <3>2, Within, Zenon
  <2>8. errors \in 0..RawBits
    <3>. DEFINE wrong == {k \in DOMAIN m.positions :
                            receiver.bits[m.positions[k]] # m.bits[k]}
    <3>1. errors = Cardinality(wrong)
      BY <2>1, SameCardinality
    <3>2. wrong \in SUBSET (1..Len(m.positions)) /\ Len(m.positions) \in Nat
      BY <2>0
    <3>. HIDE DEF wrong
    <3>3. Cardinality(wrong) \in 0..Len(m.positions)
      BY <3>2, CountBound
    <3>. QED
      BY <2>5, <2>7, <3>1, <3>3
  <2>9. PostEarly'
    BY <2>0, <2>3, <2>4 DEF PostEarly, PostOpen
  <2>10. PostAgents'
    <3>. HIDE DEF rest
    <3>. QED
      BY <2>0, <2>3, <2>4, <2>5, <2>6, <2>7, <2>8 DEF PostEarly, PostInv, PostAgents
  <2>11. Post!PositionsMatch'
    BY <2>0, <2>3, <2>4 DEF PostEarly, PostInv, PostTargets, Post!PositionsMatch
  <2>12. DOMAIN rest = DOMAIN RemovePositions(sender.bits, m.positions)
    BY <2>0, SameRemains
  <2>. HIDE DEF rest
  <2>13. AtSender(n)'
    BY <2>2, <2>3, <2>4, <2>9, <2>12 DEF AtSender
  <2>. QED
    BY <2>3, <2>9, <2>10, <2>11, <2>13, PostOpenTargets, ReceiverPasses DEF PostInv, PostEarly
<1>. QED
  BY <1>1, <1>2

(* Only the controller changes, and Bob's bits keep their positions.       *)
LEMMA PostController ==
  ASSUME PostInv, NEW c, Controller(c), DOMAIN c.bits = DOMAIN receiver.bits,
         receiver' = [receiver EXCEPT !.cascade = c], sender' = sender, PostOpen,
         sender.sample = receiver.sample, DOMAIN sender.bits = DOMAIN receiver.bits
  PROVE  /\ PostAgents' /\ PostTargets' /\ PostOpen' /\ receiver'.cascade = c
         /\ receiver'.aborted = receiver.aborted
<1>1. /\ DOMAIN receiver' = ReceiverFields /\ receiver'.sift = receiver.sift
      /\ receiver'.bits = receiver.bits /\ receiver'.aborted = receiver.aborted
      /\ receiver'.measured = receiver.measured /\ receiver'.sample = receiver.sample
      /\ receiver'.errors = receiver.errors /\ receiver'.cascade = c
      /\ receiver'.complete = receiver.complete /\ receiver'.finalKey = receiver.finalKey
  BY DEF PostInv, PostAgents, ReceiverFields
<1>2. PostAgents' /\ PostOpen'
  BY <1>1 DEF PostInv, PostAgents, PostOpen
<1>3. Len(sender.bits) = Len(receiver.bits)
  BY SameLength DEF PostInv, PostAgents
<1>4. Post!PositionsMatch'
  BY <1>1, <1>3 DEF PostInv, PostTargets, Post!PositionsMatch
<1>. QED
  BY <1>1, <1>2, <1>4, PostOpenTargets

(* Bob starts Cascade on the bits he has left.                             *)
LEMMA PostOnCascadeStart ==
  ASSUME PostInv, NEW m, m.type = "cascade.start", AtReceiver(m), toSender = <<>>,
         toReceiver' = <<>>, NEW out \in Post!OnCascadeStart(m), Post!BobDoes(out, {})
  PROVE  PostInv'
<1>1. CASE receiver.bits = <<>>
  BY <1>1, ReceiverQuits DEF Post!OnCascadeStart
<1>2. CASE receiver.bits # <<>>
  <2>1. PICK c, shuffled : /\ c = Post!NewController(receiver.bits, m.first, shuffled)
                           /\ out = Post!Outcome([receiver EXCEPT !.cascade = c], <<>>,
                                                 {"cascade.next_request"})
    BY <1>2 DEF Post!OnCascadeStart
  <2>2. /\ out.sent = <<>> /\ out.local = {"cascade.next_request"} /\ sender' = sender
        /\ receiver' = [receiver EXCEPT !.cascade = c]
    BY <2>1 DEF Post!Outcome, Post!BobDoes
  <2>3. Controller(c) /\ c.bits = receiver.bits /\ c.leaked = 0
    BY <2>1, NewControllerFacts DEF PostInv, PostAgents
  <2>4. /\ PostOpen /\ sender.sample = receiver.sample
        /\ DOMAIN sender.bits = DOMAIN receiver.bits /\ sender.answered = 0
    BY DEF AtReceiver, PostEarly
  <2>5. PostAgents' /\ PostTargets' /\ PostOpen' /\ receiver'.cascade = c
    BY <2>2, <2>3, <2>4, PostController
  <2>6. PostEventHolds("cascade.next_request")'
    BY <2>2, <2>3, <2>4, <2>5 DEF PostEventHolds, PostReconciling
  <2>. QED
    BY <2>2, <2>5, <2>6, ReceiverPasses DEF PostInv
<1>. QED
  BY <1>1, <1>2

(* While the keys are reconciled both have dropped the same sample.        *)
LEMMA ReconcilingFacts ==
  ASSUME PostInv, Controller(receiver.cascade)
  PROVE  /\ sender.sample = receiver.sample /\ DOMAIN sender.bits = DOMAIN receiver.bits
         /\ DOMAIN receiver.cascade.bits = DOMAIN receiver.bits
<1>1. receiver.cascade # Post!NoController
  BY IsController
<1>2. sender.sample = receiver.sample /\ Len(sender.bits) = Len(receiver.bits)
  BY <1>1 DEF PostInv, PostTargets, Post!PositionsMatch
<1>3. DOMAIN sender.bits = 1..Len(sender.bits) /\ DOMAIN receiver.bits = 1..Len(receiver.bits)
  BY SequenceFacts DEF PostInv, PostAgents
<1>. QED
  BY <1>1, <1>2, <1>3 DEF PostInv, PostAgents

(* The controller moves on without an answer.                              *)
LEMMA PostMovesOn ==
  ASSUME PostInv, PostReconciling, toSender = <<>>, toReceiver' = <<>>, NEW out,
         Post!BobDoes(out, {}), NEW c, KeyKept(receiver.cascade, c),
         out.self = [receiver EXCEPT !.cascade = c],
         \/ /\ out.sent = <<>>
            /\ \E e \in {"cascade.next_request", "cascade.completed"} : out.local = {e}
         \/ out.local = {} /\ \E m : out.sent = <<m>> /\ m.type = "cascade.parity_request"
  PROVE  PostInv'
<1>1. receiver' = [receiver EXCEPT !.cascade = c] /\ sender' = sender
  BY DEF Post!BobDoes
<1>2. Controller(c) /\ c.leaked = receiver.cascade.leaked /\ c.bits = receiver.cascade.bits
  BY DEF KeyKept
<1>3. PostAgents' /\ PostTargets' /\ PostOpen' /\ receiver'.cascade = c
  BY <1>1, <1>2, ReconcilingFacts, PostController DEF PostReconciling
<1>4. PostReconciling'
  BY <1>1, <1>2, <1>3 DEF PostReconciling
<1>5. \A e \in {"cascade.next_request", "cascade.completed"} : PostEventHolds(e)'
  BY <1>4 DEF PostEventHolds
<1>6. ASSUME NEW m, m.type = "cascade.parity_request" PROVE AtSender(m)'
  BY <1>4, <1>6 DEF AtSender
<1>7. PostTurn'
  BY <1>5, <1>6, ReceiverPasses
<1>. QED
  BY <1>3, <1>7 DEF PostInv

(* Bob polls his controller.                                               *)
LEMMA PostCascadeRequests ==
  ASSUME PostInv, PostEventHolds("cascade.next_request"), toSender = <<>>, toReceiver' = <<>>,
         NEW out \in Post!CascadeNextRequest, Post!BobDoes(out, {})
  PROVE  PostInv'
<1>. DEFINE c == receiver.cascade
<1>0. PostReconciling /\ Controller(c)
  BY DEF PostEventHolds, PostReconciling
<1>1. c # Post!NoController
  BY <1>0, IsController
<1>2. ASSUME NEW d, NEW e \in {"cascade.next_request", "cascade.completed"}, KeyKept(c, d),
             out = Post!Outcome([receiver EXCEPT !.cascade = d], <<>>, {e})
      PROVE  PostInv'
  <2>1. out.self = [receiver EXCEPT !.cascade = d] /\ out.sent = <<>> /\ out.local = {e}
    BY <1>2 DEF Post!Outcome
  <2>. QED
    BY <1>0, <1>2, <2>1, PostMovesOn
<1>3. KeyKept(c, c)
  BY <1>0 DEF KeyKept
<1>4. CASE c.complete
  <2>1. out = Post!Outcome([receiver EXCEPT !.cascade = c], <<>>, {"cascade.completed"})
    BY <1>1, <1>4 DEF Post!CascadeNextRequest
  <2>. QED
    BY <1>2, <1>3, <2>1
<1>5. CASE ~c.complete /\ c.outstanding # Post!NoBlock
  <2>1. out = Post!Outcome([receiver EXCEPT !.cascade = c], <<>>, {"cascade.next_request"})
    BY <1>1, <1>5 DEF Post!CascadeNextRequest
  <2>. QED
    BY <1>2, <1>3, <2>1
<1>6. CASE ~c.complete /\ c.outstanding = Post!NoBlock /\ c.pending # <<>>
  <2>1. out \in Post!AskForParity(c)
    BY <1>1, <1>6 DEF Post!CascadeNextRequest
  <2>2. PICK n : n = [type |-> "cascade.parity_request", id |-> Post!NextBlock(c).asked,
                      indices |-> Post!QueryIndices(Post!NextBlock(c).outstanding)]
    OBVIOUS
  <2>3. out = Post!Outcome([receiver EXCEPT !.cascade = Post!NextBlock(c)], <<n>>, {})
    BY <2>1, <2>2 DEF Post!AskForParity
  <2>4. /\ out.self = [receiver EXCEPT !.cascade = Post!NextBlock(c)] /\ out.sent = <<n>>
        /\ out.local = {} /\ n.type = "cascade.parity_request"
    BY <2>2, <2>3 DEF Post!Outcome
  <2>5. KeyKept(c, Post!NextBlock(c))
    BY <1>0, NextKeeps
  <2>. QED
    BY <1>0, <2>4, <2>5, PostMovesOn
<1>7. CASE ~c.complete /\ c.outstanding = Post!NoBlock /\ c.pending = <<>>
  <2>1. \E d, e, shuffled :
          /\ d = Post!NextPass(c, shuffled) /\ e \in {"cascade.next_request", "cascade.completed"}
          /\ out = Post!Outcome([receiver EXCEPT !.cascade = d], <<>>, {e})
    <3>1. CASE Post!LastPass(c)
      <4>1. out = Post!Outcome([receiver EXCEPT !.cascade = Post!NextPass(c, <<>>)], <<>>,
                               {"cascade.completed"})
        BY <1>1, <1>7, <3>1 DEF Post!CascadeNextRequest
      <4>. QED
        BY <4>1
    <3>2. CASE ~Post!LastPass(c)
      <4>1. PICK shuffled :
              out = Post!Outcome([receiver EXCEPT !.cascade = Post!NextPass(c, shuffled)],
                                               <<>>, {"cascade.next_request"})
        BY <1>1, <1>7, <3>2 DEF Post!CascadeNextRequest
      <4>. QED
        BY <4>1
    <3>. QED
      BY <3>1, <3>2
  <2>2. \A shuffled : KeyKept(c, Post!NextPass(c, shuffled))
    BY <1>0, NextKeeps
  <2>. QED
    BY <1>2, <2>1, <2>2
<1>. QED
  BY <1>4, <1>5, <1>6, <1>7

(* The answer counts as disclosed for Bob, too.                            *)
LEMMA PostOnParityResponse ==
  ASSUME PostInv, NEW m, m.type = "cascade.parity_response", AtReceiver(m), toSender = <<>>,
         toReceiver' = <<>>, NEW out \in Post!OnParityResponse(m), Post!BobDoes(out, {})
  PROVE  PostInv'
<1>1. CASE receiver.cascade.outstanding = Post!NoBlock \/ m.id # receiver.cascade.asked
  BY <1>1, ReceiverQuits DEF Post!OnParityResponse
<1>2. CASE ~(receiver.cascade.outstanding = Post!NoBlock \/ m.id # receiver.cascade.asked)
  <2>0. /\ PostOpen /\ Controller(receiver.cascade)
        /\ sender.answered <= receiver.cascade.leaked + 1
    BY DEF AtReceiver
  <2>1. PICK c : /\ c = Post!ApplyParityResponse(receiver.cascade, m.parity)
                 /\ out = Post!Outcome([receiver EXCEPT !.cascade = c], <<>>,
                                       {"cascade.next_request"})
    BY <1>2 DEF Post!OnParityResponse
  <2>2. /\ out.sent = <<>> /\ out.local = {"cascade.next_request"} /\ sender' = sender
        /\ receiver' = [receiver EXCEPT !.cascade = c]
    BY <2>1 DEF Post!Outcome, Post!BobDoes
  <2>3. Answered(receiver.cascade, c)
    BY <2>0, <2>1, ApplyParityFacts
  <2>4. /\ Controller(c) /\ DOMAIN c.bits = DOMAIN receiver.bits
        /\ c.leaked = receiver.cascade.leaked + 1
    BY <2>0, <2>3, ReconcilingFacts DEF Answered
  <2>5. PostAgents' /\ PostTargets' /\ PostOpen' /\ receiver'.cascade = c
    BY <2>0, <2>2, <2>4, ReconcilingFacts, PostController
  <2>6. PostEventHolds("cascade.next_request")'
    BY <2>0, <2>2, <2>4, <2>5 DEF PostEventHolds, PostReconciling
  <2>. QED
    BY <2>2, <2>5, <2>6, ReceiverPasses DEF PostInv
<1>. QED
  BY <1>1, <1>2

(* Bob's notes stay, and he goes on.                                       *)
LEMMA PostReceiverSays ==
  ASSUME PostInv, toSender = <<>>, toReceiver' = <<>>, NEW out, Post!BobDoes(out, {}),
         out.self = receiver,
         \/ out.sent = <<>> /\ \E e : out.local = {e} /\ PostEventHolds(e)
         \/ out.local = {} /\ \E m : out.sent = <<m>> /\ AtSender(m)
  PROVE  PostInv'
<1>1. receiver' = receiver /\ sender' = sender
  BY DEF Post!BobDoes
<1>2. PostAgents' /\ PostTargets'
  BY <1>1 DEF PostInv, PostAgents, PostTargets, Post!PositionsMatch, Post!KeysAgree,
              Post!DisclosureSubtracted
<1>3. ASSUME NEW e, PostEventHolds(e) PROVE PostEventHolds(e)'
  BY <1>1, <1>3 DEF PostEventHolds, PostEarly, PostOpen, PostReconciling, PostSameBits
<1>4. ASSUME NEW m, AtSender(m) PROVE AtSender(m)'
  BY <1>1, <1>4 DEF AtSender, PostEarly, PostOpen, PostReconciling, PostSameBits
<1>5. PostTurn'
  BY <1>3, <1>4, ReceiverPasses
<1>. QED
  BY <1>2, <1>5 DEF PostInv

(* Bob sends the tag of the bits he has reconciled.                        *)
LEMMA PostSendsTag ==
  ASSUME PostInv, PostEventHolds("cascade.completed"), toSender = <<>>, toReceiver' = <<>>,
         NEW out \in Post!SendVerificationTag, Post!BobDoes(out, {})
  PROVE  PostInv'
<1>1. PostReconciling /\ receiver.cascade # Post!NoController
  BY IsController DEF PostEventHolds, PostReconciling
<1>2. PICK n : n = [type |-> "verify.tag", bits |-> receiver.cascade.bits]
  OBVIOUS
<1>3. out = Post!Outcome(receiver, <<n>>, {})
  BY <1>1, <1>2 DEF Post!SendVerificationTag
<1>4. out.self = receiver /\ out.sent = <<n>> /\ out.local = {}
  BY <1>3 DEF Post!Outcome
<1>5. AtSender(n)
  BY <1>1, <1>2 DEF AtSender
<1>. QED
  BY <1>4, <1>5, PostReceiverSays

(* The keys are the same when Bob goes on to the privacy amplification.    *)
LEMMA PostOnVerifyResult ==
  ASSUME PostInv, NEW m, m.type = "verify.result", AtReceiver(m), toSender = <<>>,
         toReceiver' = <<>>, NEW out \in Post!OnVerifyResult(m), Post!BobDoes(out, {})
  PROVE  PostInv'
<1>1. PostReconciling /\ (m.verified => PostSameBits)
  BY DEF AtReceiver
<1>2. CASE m.verified
  <2>1. out.self = receiver /\ out.sent = <<>> /\ out.local = {"privacy.prepare"}
    BY <1>2 DEF Post!OnVerifyResult, Post!Outcome
  <2>2. PostEventHolds("privacy.prepare")
    BY <1>1, <1>2 DEF PostEventHolds
  <2>. QED
    BY <2>1, <2>2, PostReceiverSays
<1>3. CASE ~m.verified
  <2>1. out \in Post!Abort(receiver, "verification")
    BY <1>3 DEF Post!OnVerifyResult
  <2>. QED
    BY <1>1, <2>1, ReceiverQuits DEF PostReconciling, PostOpen
<1>. QED
  BY <1>2, <1>3

(* What Bob's key loses to an observer                                     *)
LEMMA PostKeyLength ==
  ASSUME KeyAssumption, PostAssumption, PostInv, PostReconciling, NEW len,
         len = Post!Smallest(MaxFinalKey, Post!Greatest(0, Post!EntropyBudget)),
         ~(len < MinFinalKey)
  PROVE  /\ len \in Nat \ {0}
         /\ len <= Len(receiver.cascade.bits) - sender.answered - TagLen - SecurityMargin
<1>. DEFINE n == Len(receiver.cascade.bits)
            cost == PhaseErrorCost(receiver.errors, Len(receiver.sample), n)
            leaked == receiver.cascade.leaked
            answered == sender.answered
<1>1. n \in 0..RawBits /\ RawBits \in Nat
  <2>1. n = Len(receiver.bits) /\ n \in Nat
    BY ReconcilingFacts, SameLength, SequenceFacts DEF PostReconciling, Controller, PostInv,
                                                       PostAgents
  <2>. HIDE DEF n
  <2>. QED
    BY <2>1 DEF PostInv, PostAgents, PostAssumption
<1>2. cost \in Nat
  <2>1. \A k, size, errors \in 0..RawBits : PhaseErrorCost(errors, size, k) \in Nat
    BY DEF PostAssumption
  <2>2. receiver.errors \in 0..RawBits /\ Len(receiver.sample) \in 0..RawBits
    BY DEF PostInv, PostAgents
  <2>. HIDE DEF n
  <2>. QED
    BY <1>1, <2>1, <2>2
<1>3. /\ TagLen \in Nat /\ SecurityMargin \in Int /\ MinFinalKey \in Nat \ {0}
      /\ MaxFinalKey \in Nat
  BY DEF KeyAssumption, PostAssumption
<1>4. leaked \in Nat /\ answered \in Nat /\ answered <= leaked
  BY DEF PostReconciling, Controller, PostInv, PostAgents
<1>5. Post!EntropyBudget = n - cost - leaked - TagLen - SecurityMargin
  BY DEF Post!EntropyBudget
<1>. DEFINE budget == n - cost - leaked - TagLen - SecurityMargin
<1>6. n \in Nat
  BY <1>1
<1>. HIDE DEF n, cost, leaked, answered
<1>7. budget \in Int /\ budget <= n - answered - TagLen - SecurityMargin
  BY <1>2, <1>3, <1>4, <1>6
<1>. HIDE DEF budget
<1>8. len = IF MaxFinalKey < (IF 0 > budget THEN 0 ELSE budget) THEN MaxFinalKey
            ELSE IF 0 > budget THEN 0 ELSE budget
  BY <1>5 DEF Post!Smallest, Post!Greatest, budget
<1>9. len \in Nat \ {0} /\ len <= budget
  BY <1>3, <1>7, <1>8
<1>10. len <= n - answered - TagLen - SecurityMargin
  BY <1>3, <1>4, <1>6, <1>7, <1>9
<1>. QED
  BY <1>9, <1>10 DEF n, answered

(* Bob hashes his key down to what the disclosures leave.                  *)
LEMMA PostPreparesPrivacy ==
  ASSUME KeyAssumption, PostAssumption, PostInv, PostEventHolds("privacy.prepare"),
         receiver.aborted = "no", toSender = <<>>, toReceiver' = <<>>,
         NEW out \in Post!PreparePrivacy, Post!BobDoes(out, {})
  PROVE  PostInv'
<1>0. PostReconciling /\ PostSameBits
  BY DEF PostEventHolds
<1>. DEFINE len == Post!Smallest(MaxFinalKey, Post!Greatest(0, Post!EntropyBudget))
<1>1. CASE len < MinFinalKey
  <2>1. out \in Post!Abort(receiver, "short key")
    BY <1>1 DEF Post!PreparePrivacy
  <2>. QED
    BY <1>0, <2>1, ReceiverQuits DEF PostReconciling, PostOpen
<1>2. CASE ~(len < MinFinalKey)
  <2>1. PICK n : n = [type |-> "privacy.seed", inputLen |-> Len(receiver.cascade.bits), len |-> len]
    OBVIOUS
  <2>2. out = Post!Outcome([receiver EXCEPT !.finalKey = [bits |-> receiver.cascade.bits,
                                                          len |-> len]], <<n>>, {})
    BY <1>2, <2>1 DEF Post!PreparePrivacy
  <2>3. /\ len \in Nat \ {0}
        /\ len <= Len(receiver.cascade.bits) - sender.answered - TagLen - SecurityMargin
    BY <1>0, <1>2, PostKeyLength
  <2>. HIDE DEF len
  <2>4. /\ out.sent = <<n>> /\ out.local = {} /\ sender' = sender
        /\ receiver' = [receiver EXCEPT !.finalKey = [bits |-> receiver.cascade.bits, len |-> len]]
    BY <2>2 DEF Post!Outcome, Post!BobDoes
  <2>5. /\ DOMAIN receiver' = ReceiverFields /\ receiver'.sift = receiver.sift
        /\ receiver'.bits = receiver.bits /\ receiver'.aborted = receiver.aborted
        /\ receiver'.measured = receiver.measured /\ receiver'.sample = receiver.sample
        /\ receiver'.errors = receiver.errors /\ receiver'.cascade = receiver.cascade
        /\ receiver'.complete = receiver.complete
        /\ receiver'.finalKey = [bits |-> receiver.cascade.bits, len |-> len]
    BY <2>4 DEF PostInv, PostAgents, ReceiverFields
  <2>6. PostAgents'
    BY <2>4, <2>5 DEF PostInv, PostAgents
  <2>7. Post!PositionsMatch'
    BY <2>4, <2>5 DEF PostInv, PostTargets, Post!PositionsMatch
  <2>8. Post!DisclosureSubtracted'
    BY <2>3, <2>4, <2>5 DEF Post!DisclosureSubtracted
  <2>9. Post!KeysAgree'
    BY <1>0, <2>4, <2>5 DEF Post!KeysAgree, PostReconciling, PostOpen
  <2>10. [bits |-> receiver.cascade.bits, len |-> len] # Post!NoKey
    BY <2>3 DEF Post!NoKey
  <2>11. AtSender(n)'
    BY <1>0, <2>1, <2>4, <2>5, <2>10 DEF AtSender, PostReconciling, PostOpen, PostSameBits
  <2>. QED
    BY <2>4, <2>6, <2>7, <2>8, <2>9, <2>11, ReceiverPasses DEF PostInv, PostTargets
<1>. QED
  BY <1>1, <1>2

(* Bob is told that Alice has finished.                                    *)
LEMMA PostFinishes ==
  ASSUME PostInv, NEW m, m.type = "finished", AtReceiver(m), toSender = <<>>, toReceiver' = <<>>,
         NEW out, out = Post!Outcome([receiver EXCEPT !.complete = TRUE], <<>>, {}),
         Post!BobDoes(out, {})
  PROVE  PostInv'
<1>1. /\ out.sent = <<>> /\ out.local = {} /\ sender' = sender
      /\ receiver' = [receiver EXCEPT !.complete = TRUE]
  BY DEF Post!Outcome, Post!BobDoes
<1>2. /\ DOMAIN receiver' = ReceiverFields /\ receiver'.sift = receiver.sift
      /\ receiver'.bits = receiver.bits /\ receiver'.aborted = receiver.aborted
      /\ receiver'.measured = receiver.measured /\ receiver'.sample = receiver.sample
      /\ receiver'.errors = receiver.errors /\ receiver'.cascade = receiver.cascade
      /\ receiver'.finalKey = receiver.finalKey
  BY <1>1 DEF PostInv, PostAgents, ReceiverFields
<1>3. PostAgents'
  BY <1>1, <1>2 DEF PostInv, PostAgents
<1>4. Post!PositionsMatch' /\ Post!DisclosureSubtracted'
  BY <1>1, <1>2 DEF PostInv, PostTargets, Post!PositionsMatch, Post!DisclosureSubtracted
<1>5. Post!KeysAgree'
  BY <1>1, <1>2 DEF PostInv, PostTargets, Post!KeysAgree, AtReceiver
<1>. QED
  BY <1>1, <1>3, <1>4, <1>5, ReceiverPasses DEF PostInv, PostTargets

(* Every message that may reach Bob has been dealt with.                   *)
LEMMA PostBobReceives ==
  ASSUME PostAssumption, PostInv, Post!BobReceives PROVE PostInv'
<1>1. PICK m : toReceiver = <<m>> /\ AtReceiver(m) /\ steps = {} /\ toSender = <<>>
  BY DEF Post!BobReceives, PostInv, PostTurn
<1>2. Head(toReceiver) = m /\ Tail(toReceiver) = <<>>
  BY <1>1
<1>3. toReceiver' = <<>>
  BY <1>2 DEF Post!BobReceives
<1>4. PICK out \in Post!BobOnMessage(m) : Post!BobDoes(out, {})
  BY <1>1, <1>2 DEF Post!BobReceives
<1>5. CASE m.type = "abort"
  <2>1. out = Post!Outcome(Post!RecordAbort(receiver, m.reason), <<>>, {})
    BY <1>4, <1>5 DEF Post!BobOnMessage, Post!OnMessage
  <2>2. ~sender.complete /\ ~receiver.complete
    BY <1>1, <1>5 DEF AtReceiver
  <2>. QED
    BY <1>1, <1>3, <1>4, <2>1, <2>2, ReceiverQuits
<1>6. CASE m.type # "abort" /\ Post!Over(receiver)
  <2>1. out = Post!Outcome(receiver, <<>>, {})
    BY <1>4, <1>6 DEF Post!BobOnMessage, Post!OnMessage
  <2>. QED
    BY <1>1, <1>3, <1>4, <2>1, ReceiverQuits
<1>7. CASE m.type # "abort" /\ ~Post!Over(receiver)
  <2>1. CASE m.type = "sift.bases"
    <3>1. out \in Post!OnSiftBases(m)
      BY <1>4, <1>7, <2>1 DEF Post!BobOnMessage, Post!OnMessage
    <3>. QED
      BY <1>1, <1>3, <1>4, <2>1, <3>1, PostOnSiftBases
  <2>2. CASE m.type = "estimate.sample"
    <3>1. out \in Post!OnEstimateSample(m)
      BY <1>4, <1>7, <2>2 DEF Post!BobOnMessage, Post!OnMessage
    <3>. QED
      BY <1>1, <1>3, <1>4, <2>2, <3>1, PostOnEstimateSample
  <2>3. CASE m.type = "cascade.start"
    <3>1. out \in Post!OnCascadeStart(m)
      BY <1>4, <1>7, <2>3 DEF Post!BobOnMessage, Post!OnMessage
    <3>. QED
      BY <1>1, <1>3, <1>4, <2>3, <3>1, PostOnCascadeStart
  <2>4. CASE m.type = "cascade.parity_response"
    <3>1. out \in Post!OnParityResponse(m)
      BY <1>4, <1>7, <2>4 DEF Post!BobOnMessage, Post!OnMessage
    <3>. QED
      BY <1>1, <1>3, <1>4, <2>4, <3>1, PostOnParityResponse
  <2>5. CASE m.type = "verify.result"
    <3>1. out \in Post!OnVerifyResult(m)
      BY <1>4, <1>7, <2>5 DEF Post!BobOnMessage, Post!OnMessage
    <3>. QED
      BY <1>1, <1>3, <1>4, <2>5, <3>1, PostOnVerifyResult
  <2>6. CASE m.type = "finished"
    <3>1. out = Post!Outcome([receiver EXCEPT !.complete = TRUE], <<>>, {})
      BY <1>4, <1>7, <2>6 DEF Post!BobOnMessage, Post!OnMessage
    <3>. QED
      BY <1>1, <1>3, <1>4, <2>6, <3>1, PostFinishes
  <2>. QED
    BY <1>1, <1>7, <2>1, <2>2, <2>3, <2>4, <2>5, <2>6 DEF AtReceiver
<1>. QED
  BY <1>5, <1>6, <1>7

(* An event that is scheduled is the only thing there is.                  *)
LEMMA PostEvents ==
  ASSUME PostInv, NEW e, e \in steps
  PROVE  steps \ {e} = {} /\ PostEventHolds(e) /\ toSender = <<>> /\ toReceiver = <<>>
BY DEF PostInv, PostTurn

(* Every step of the post-processing keeps its invariant.                  *)
LEMMA PostNextKeeps ==
  ASSUME KeyAssumption, PostAssumption, PostInv, Post!Next PROVE PostInv'
<1>1. ASSUME NEW e, NEW outcomes, Post!AliceEvent(e, outcomes)
      PROVE  /\ PostEventHolds(e) /\ toReceiver = <<>> /\ toSender' = <<>>
             /\ \/ \E out \in outcomes : Post!AliceDoes(out, {})
                \/ PostInv'
  <2>1. e \in steps /\ toSender' = toSender
    BY <1>1 DEF Post!AliceEvent
  <2>2. steps \ {e} = {} /\ PostEventHolds(e) /\ toSender = <<>> /\ toReceiver = <<>>
    BY <2>1, PostEvents
  <2>3. PICK out \in Post!OnEvent(sender, outcomes) : Post!AliceDoes(out, {})
    BY <1>1, <2>2 DEF Post!AliceEvent
  <2>4. CASE Post!Over(sender)
    <3>1. out = Post!Outcome(sender, <<>>, {})
      BY <2>3, <2>4 DEF Post!OnEvent
    <3>2. PostInv'
      BY <2>1, <2>2, <2>3, <3>1, SenderQuits
    <3>. QED
      BY <2>1, <2>2, <3>2
  <2>5. CASE ~Post!Over(sender)
    BY <2>1, <2>2, <2>3, <2>5 DEF Post!OnEvent
  <2>. QED
    BY <2>4, <2>5
<1>2. ASSUME NEW e, NEW outcomes, Post!BobEvent(e, outcomes)
      PROVE  /\ PostEventHolds(e) /\ toSender = <<>> /\ toReceiver' = <<>>
             /\ \/ receiver.aborted = "no" /\ \E out \in outcomes : Post!BobDoes(out, {})
                \/ PostInv'
  <2>1. e \in steps /\ toReceiver' = toReceiver
    BY <1>2 DEF Post!BobEvent
  <2>2. steps \ {e} = {} /\ PostEventHolds(e) /\ toSender = <<>> /\ toReceiver = <<>>
    BY <2>1, PostEvents
  <2>3. PICK out \in Post!OnEvent(receiver, outcomes) : Post!BobDoes(out, {})
    BY <1>2, <2>2 DEF Post!BobEvent
  <2>4. CASE Post!Over(receiver)
    <3>1. out = Post!Outcome(receiver, <<>>, {})
      BY <2>3, <2>4 DEF Post!OnEvent
    <3>2. PostInv'
      BY <2>1, <2>2, <2>3, <3>1, ReceiverQuits
    <3>. QED
      BY <2>1, <2>2, <3>2
  <2>5. CASE ~Post!Over(receiver)
    <3>1. receiver.aborted = "no"
      BY <2>5 DEF Post!Over
    <3>. QED
      BY <2>1, <2>2, <2>3, <2>5, <3>1 DEF Post!OnEvent
  <2>. QED
    BY <2>4, <2>5
<1>3. CASE Post!AliceReceives
  BY <1>3, PostAliceReceives
<1>4. CASE Post!BobReceives
  BY <1>4, PostBobReceives
<1>5. CASE Post!AliceEvent("alice.start", Post!SendBases)
  BY <1>1, <1>5, PostSendsBases
<1>6. CASE Post!AliceEvent("estimate.choose_sample", Post!ChooseEstimateSample)
  BY <1>1, <1>6, PostChoosesSample
<1>7. CASE Post!BobEvent("cascade.next_request", Post!CascadeNextRequest)
  BY <1>2, <1>7, PostCascadeRequests
<1>8. CASE Post!BobEvent("cascade.completed", Post!SendVerificationTag)
  BY <1>2, <1>8, PostSendsTag
<1>9. CASE Post!BobEvent("privacy.prepare", Post!PreparePrivacy)
  BY <1>2, <1>9, PostPreparesPrivacy
<1>. QED
  BY <1>3, <1>4, <1>5, <1>6, <1>7, <1>8, <1>9 DEF Post!Next

(* So does a step of the other session.                                    *)
LEMMA PostRests == ASSUME PostInv, UNCHANGED postVars PROVE PostInv'
<1>1. /\ sender' = sender /\ receiver' = receiver /\ steps' = steps /\ toSender' = toSender
      /\ toReceiver' = toReceiver
  BY DEF postVars
<1>2. PostAgents' /\ PostTargets'
  BY <1>1 DEF PostInv, PostAgents, PostTargets, Post!PositionsMatch, Post!KeysAgree,
              Post!DisclosureSubtracted
<1>3. ASSUME NEW e, PostEventHolds(e) PROVE PostEventHolds(e)'
  BY <1>1, <1>3 DEF PostEventHolds, PostEarly, PostOpen, PostReconciling, PostSameBits
<1>4. ASSUME NEW m, AtSender(m) PROVE AtSender(m)'
  BY <1>1, <1>4 DEF AtSender, PostEarly, PostOpen, PostReconciling, PostSameBits
<1>5. ASSUME NEW m, AtReceiver(m) PROVE AtReceiver(m)'
  BY <1>1, <1>5 DEF AtReceiver, PostEarly, PostOpen, PostReconciling, PostSameBits
<1>6. PostTurn'
  BY <1>1, <1>3, <1>4, <1>5 DEF PostInv, PostTurn
<1>. QED
  BY <1>2, <1>6 DEF PostInv

-----------------------------------------------------------------------------
(* BB84: but for Bob's start, which does nothing, one event is due or a    *)
(* message or two are on their way, and they tell how far the agents are.  *)

AliceFields == {"prepared", "slots", "bits", "sample", "qberComplete", "leaked", "verified",
                "collided", "aborted", "finalKey"}
BobFields   == {"detections", "siftingStarted", "siftingComplete", "slots", "bits", "sample",
                "errors", "qberComplete", "cascade", "verified", "aborted", "finalKey",
                "privacyComplete", "unreadable"}

Due == local \ {"bob.start"}

(* The reports kept are of different slots.                                *)
DetectionsDiffer(detections) ==
  /\ IsSequence(detections)
  /\ \A i \in DOMAIN detections : detections[i].slot \in 1..NumSlots
  /\ \A i, j \in DOMAIN detections : detections[i].slot = detections[j].slot => i = j

SessionAgents ==
  /\ DOMAIN rt = {"bound", "scheduled", "running"}
  /\ DOMAIN alice = AliceFields /\ DOMAIN bob = BobFields /\ alice.leaked \in Nat
  /\ DetectionsDiffer(bob.detections)
  /\ IsSequence(bob.slots) /\ IsSequence(bob.bits) /\ Len(bob.bits) <= NumSlots
  /\ Len(bob.sample) \in 0..NumSlots /\ bob.errors \in 0..NumSlots
  /\ \/ bob.cascade = NoController
     \/ Controller(bob.cascade) /\ Len(bob.cascade.bits) <= NumSlots

(* Neither has a final key, and which slots and disclosures there are      *)
Open == alice.finalKey = NoKey /\ bob.finalKey = NoKey /\ ~bob.privacyComplete
Early == Open /\ alice.leaked = 0 /\ alice.qberComplete = FALSE /\ bob.qberComplete = FALSE
Unsifted == Early /\ ~bob.siftingComplete /\ bob.slots = <<>>
Reconciling == Open /\ Controller(bob.cascade) /\ alice.leaked <= bob.cascade.leaked
SameBits == alice.collided \/ alice.bits = bob.cascade.bits

(* In each slot Bob has a detection in the basis that Alice prepared.      *)
Aligned(slots) ==
  \A i \in DOMAIN slots : \E k \in DOMAIN bob.detections :
    /\ bob.detections[k].slot = slots[i]
    /\ bob.detections[k].basis = alice.prepared[slots[i]].basis

SlotsMatch ==
  /\ bob.siftingComplete /\ alice.qberComplete = bob.qberComplete => alice.slots = bob.slots
  /\ Aligned(bob.slots)

(* What is so while an event is due, or a message is on its way            *)
EventHolds(e) ==
  \/ e \in {"alice.start", "quantum.done", "sifting.start"} /\ Unsifted
  \/ e = "cascade.next_request" /\ Reconciling

AtAlice(m) ==
  \/ /\ m.type = "sift.bob_bases" /\ Unsifted
     /\ IsSequence(m.detections) /\ Len(m.detections) <= NumSlots
     /\ \A i \in DOMAIN m.detections :
          \E k \in DOMAIN bob.detections : bob.detections[k] = m.detections[i]
  \/ m.type = "estimate.result" /\ bob.slots = RemovePositions(alice.slots, m.positions)
  \/ m.type = "cascade.parity_request" /\ Reconciling
  \/ m.type = "verify.tag" /\ Reconciling /\ m.bits = bob.cascade.bits
  \/ /\ m.type = "privacy.seed" /\ SameBits
     /\ bob.finalKey = [bits |-> bob.cascade.bits, len |-> m.len]

AtBob(m) ==
  \/ m.type = "quantum.done" /\ Unsifted
  \/ /\ m.type = "sift.accepted" /\ Unsifted
     /\ m.slots = alice.slots /\ Aligned(m.slots)
     /\ IsSequence(m.slots) /\ Len(m.slots) <= NumSlots
  \/ m.type = "estimate.sample" /\ Early /\ m.positions \in Seq(Nat)
  \/ m.type = "cascade.parity_response" /\ Open /\ Controller(bob.cascade)
     /\ alice.leaked <= bob.cascade.leaked + 1
  \/ m.type = "verify.result" /\ Reconciling /\ (m.verified => SameBits)
  \/ m.type = "privacy.done" /\ m.len = alice.finalKey.len
  \/ m.type = "abort"

(* The result of the estimate may be on its way while Bob goes on.         *)
Result(queue) == \E m : queue = <<m>> /\ m.type = "estimate.result" /\ AtAlice(m)

SessionTurn ==
  \/ Due = {} /\ toAlice = <<>> /\ toBob = <<>>
  \/ /\ toAlice = <<>> \/ Result(toAlice)
     /\ toBob = <<>> /\ \E e : Due = {e} /\ EventHolds(e)
     /\ toAlice # <<>> => Due = {"cascade.next_request"}
  \/ Due = {} /\ toBob = <<>> /\ \E m : toAlice = <<m>> /\ AtAlice(m)
  \/ /\ Due = {} /\ toBob = <<>>
     /\ \E m, n : /\ toAlice = <<m, n>> /\ m.type = "estimate.result"
                  /\ n.type \in {"cascade.parity_request", "verify.tag"}
                  /\ AtAlice(m) /\ AtAlice(n)
  \/ Due = {} /\ toAlice = <<>> /\ \E m : toBob = <<m>> /\ AtBob(m)
  \/ /\ Due = {} /\ toAlice = <<>>
     /\ \E m, n : /\ toBob = <<m, n>> /\ m.type = "sift.accepted"
                  /\ n.type \in {"estimate.sample", "abort"}
                  /\ AtBob(m) /\ AtBob(n)

SessionTargets == SlotsMatch /\ KeysAgree /\ DisclosureSubtracted

(* Nothing happens before the starts are scheduled.                        *)
Waiting == local = {} /\ toAlice = <<>> /\ toBob = <<>> /\ Unsifted

SessionSound == SessionAgents /\ SessionTurn /\ SessionTargets
SessionInv == SessionSound /\ (rt.scheduled \/ Waiting)

(* So it is at the start of the session.                                   *)
LEMMA SessionStarts == Init /\ SessionAssumption => SessionInv
<1>. SUFFICES ASSUME Init, SessionAssumption PROVE SessionInv
  OBVIOUS
<1>1. rt = [bound |-> FALSE, scheduled |-> FALSE, running |-> FALSE]
  BY DEF Init
<1>2. alice = [prepared |-> [k \in 1..NumSlots |-> NoEmission], slots |-> <<>>,
              bits |-> <<>>, sample |-> <<>>, qberComplete |-> FALSE, leaked |-> 0,
              verified |-> "unknown", collided |-> FALSE, aborted |-> "no",
              finalKey |-> NoKey]
  BY DEF Init
<1>3. bob = [detections |-> <<>>, siftingStarted |-> FALSE, siftingComplete |-> FALSE,
            slots |-> <<>>, bits |-> <<>>, sample |-> <<>>, errors |-> 0,
            qberComplete |-> FALSE, cascade |-> NoController, verified |-> "unknown",
            aborted |-> "no", finalKey |-> NoKey, privacyComplete |-> FALSE,
            unreadable |-> FALSE]
  BY DEF Init
<1>4. local = {} /\ toAlice = <<>> /\ toBob = <<>>
  BY DEF Init
<1>. HIDE DEF Init
<1>5. IsSequence(<<>>) /\ Len(<<>>) = 0 /\ DOMAIN <<>> = {} /\ 0 \in 0..NumSlots
  BY DEF IsSequence, ToSet, SessionAssumption
<1>6. SessionAgents
  BY <1>1, <1>2, <1>3, <1>5 DEF SessionAgents, AliceFields, BobFields, DetectionsDiffer
<1>7. Unsifted
  BY <1>2, <1>3 DEF Unsifted, Early, Open
<1>8. SessionTurn
  BY <1>4 DEF SessionTurn, Due
<1>9. SessionTargets
  BY <1>2, <1>3, <1>5 DEF SessionTargets, SlotsMatch, Aligned, KeysAgree, DisclosureSubtracted
<1>. QED
  BY <1>4, <1>6, <1>7, <1>8, <1>9 DEF SessionInv, SessionSound, Waiting

(* There are n numbers from 1 to n.                                        *)
LEMMA IntervalCount ==
  ASSUME NEW n \in Nat PROVE IsFiniteSet(1..n) /\ Cardinality(1..n) = n
BY FS_Interval

(* There are no more detections than slots.                                *)
LEMMA DetectionBound ==
  ASSUME SessionAssumption, NEW detections, DetectionsDiffer(detections)
  PROVE  Len(detections) \in 0..NumSlots
<1>. DEFINE f == [i \in DOMAIN detections |-> detections[i].slot]
<1>1. Len(detections) \in Nat /\ DOMAIN detections = 1..Len(detections) /\ NumSlots \in Nat
  BY SequenceFacts DEF DetectionsDiffer, SessionAssumption
<1>2. f \in [1..Len(detections) -> 1..NumSlots]
  BY <1>1 DEF DetectionsDiffer
<1>3. \A x, y \in 1..Len(detections) : f[x] = f[y] => x = y
  BY <1>1 DEF DetectionsDiffer
<1>. HIDE DEF f
<1>5. PICK n \in Nat : n = Len(detections)
  BY <1>1
<1>6. ~(NumSlots < n)
  <2>1. f \in [1..n -> 1..NumSlots] /\ \A x, y \in 1..n : f[x] = f[y] => x = y
    BY <1>2, <1>3, <1>5
  <2>2. /\ IsFiniteSet(1..n) /\ Cardinality(1..n) = n
        /\ IsFiniteSet(1..NumSlots) /\ Cardinality(1..NumSlots) = NumSlots
    BY <1>1, IntervalCount
  <2>3. PICK S, T : S = 1..n /\ T = 1..NumSlots
    OBVIOUS
  <2>4. ~(Cardinality(T) < Cardinality(S))
    <3>1. IsFiniteSet(S) /\ IsFiniteSet(T) /\ f \in [S -> T]
      BY <2>1, <2>2, <2>3
    <3>2. \A x, y \in S : f[x] = f[y] => x = y
      BY <2>1, <2>3
    <3>3. Cardinality(T) < Cardinality(S) => \E x, y \in S : x # y /\ f[x] = f[y]
      BY <3>1, FS_PigeonHole
    <3>. QED
      BY <3>2, <3>3
  <2>5. Cardinality(S) = n /\ Cardinality(T) = NumSlots
    BY <2>2, <2>3
  <2>. QED
    BY <2>4, <2>5
<1>. QED
  BY <1>1, <1>5, <1>6

(* What the other fields say changes nothing that matters, and the         *)
(* detections may grow.                                                    *)
Steady ==
  /\ DOMAIN alice' = AliceFields /\ DOMAIN bob' = BobFields
  /\ alice'.prepared = alice.prepared /\ alice'.slots = alice.slots /\ alice'.bits = alice.bits
  /\ alice'.qberComplete = alice.qberComplete /\ alice'.leaked = alice.leaked
  /\ alice'.collided = alice.collided /\ alice'.finalKey = alice.finalKey
  /\ bob'.siftingComplete = bob.siftingComplete /\ bob'.slots = bob.slots
  /\ bob'.bits = bob.bits /\ bob'.sample = bob.sample /\ bob'.errors = bob.errors
  /\ bob'.qberComplete = bob.qberComplete /\ bob'.cascade = bob.cascade
  /\ bob'.finalKey = bob.finalKey /\ bob'.privacyComplete = bob.privacyComplete
  /\ DetectionsDiffer(bob'.detections)
  /\ \A k \in DOMAIN bob.detections :
       k \in DOMAIN bob'.detections /\ bob'.detections[k] = bob.detections[k]

(* What is due, and what is on its way, keeps its meaning.                 *)
LEMMA SteadyKeeps ==
  ASSUME SessionAgents, SessionTargets, Steady, DOMAIN rt' = DOMAIN rt
  PROVE  /\ SessionAgents' /\ SessionTargets'
         /\ Unsifted => Unsifted'
         /\ \A e : EventHolds(e) => EventHolds(e)'
         /\ \A m : AtAlice(m) => AtAlice(m)'
         /\ \A m : AtBob(m) => AtBob(m)'
<1>1. SessionAgents'
  BY DEF SessionAgents, Steady
<1>2. ASSUME NEW slots, Aligned(slots) PROVE Aligned(slots)'
  <2>. SUFFICES ASSUME NEW i \in DOMAIN slots
                PROVE  \E k \in DOMAIN bob'.detections :
                         /\ bob'.detections[k].slot = slots[i]
                         /\ bob'.detections[k].basis = alice'.prepared[slots[i]].basis
    BY DEF Aligned
  <2>1. PICK k \in DOMAIN bob.detections :
               /\ bob.detections[k].slot = slots[i]
               /\ bob.detections[k].basis = alice.prepared[slots[i]].basis
    BY <1>2 DEF Aligned
  <2>2. k \in DOMAIN bob'.detections /\ bob'.detections[k] = bob.detections[k]
    BY DEF Steady
  <2>3. alice'.prepared = alice.prepared
    BY DEF Steady
  <2>. QED
    BY <2>1, <2>2, <2>3
<1>3. Aligned(bob.slots)'
  <2>1. Aligned(bob.slots)
    BY DEF SessionTargets, SlotsMatch
  <2>2. PICK slots : slots = bob.slots
    OBVIOUS
  <2>3. bob'.slots = slots /\ Aligned(slots)
    BY <2>1, <2>2 DEF Steady
  <2>4. Aligned(slots)'
    BY <1>2, <2>3
  <2>. QED
    BY <2>3, <2>4 DEF Aligned
<1>4. SessionTargets'
  BY <1>3 DEF SessionTargets, SlotsMatch, KeysAgree, DisclosureSubtracted, Steady
<1>5. /\ (Open => Open') /\ (Early => Early') /\ (Unsifted => Unsifted')
      /\ (Reconciling => Reconciling') /\ (SameBits => SameBits')
  BY DEF Open, Early, Unsifted, Reconciling, SameBits, Steady
<1>6. ASSUME NEW e, EventHolds(e) PROVE EventHolds(e)'
  BY <1>5, <1>6 DEF EventHolds
<1>7. ASSUME NEW m, AtAlice(m) PROVE AtAlice(m)'
  <2>1. CASE m.type = "sift.bob_bases" /\ Unsifted /\ IsSequence(m.detections)
             /\ Len(m.detections) <= NumSlots
             /\ \A i \in DOMAIN m.detections :
                  \E k \in DOMAIN bob.detections : bob.detections[k] = m.detections[i]
    <3>1. ASSUME NEW i \in DOMAIN m.detections
          PROVE  \E k \in DOMAIN bob'.detections : bob'.detections[k] = m.detections[i]
      BY <2>1 DEF Steady
    <3>. QED
      BY <1>5, <2>1, <3>1 DEF AtAlice
  <2>2. CASE m.type = "estimate.result" /\ bob.slots = RemovePositions(alice.slots, m.positions)
    BY <2>2 DEF AtAlice, Steady
  <2>3. CASE m.type = "cascade.parity_request" /\ Reconciling
    BY <1>5, <2>3 DEF AtAlice
  <2>4. CASE m.type = "verify.tag" /\ Reconciling /\ m.bits = bob.cascade.bits
    BY <1>5, <2>4 DEF AtAlice, Steady
  <2>5. CASE /\ m.type = "privacy.seed" /\ SameBits
             /\ bob.finalKey = [bits |-> bob.cascade.bits, len |-> m.len]
    BY <1>5, <2>5 DEF AtAlice, Steady
  <2>. QED
    BY <1>7, <2>1, <2>2, <2>3, <2>4, <2>5 DEF AtAlice
<1>8. ASSUME NEW m, AtBob(m) PROVE AtBob(m)'
  <2>1. CASE /\ m.type = "sift.accepted" /\ Unsifted /\ m.slots = alice.slots
             /\ Aligned(m.slots) /\ IsSequence(m.slots) /\ Len(m.slots) <= NumSlots
    <3>1. Aligned(m.slots)'
      BY <1>2, <2>1
    <3>. QED
      BY <1>5, <2>1, <3>1 DEF AtBob, Steady
  <2>2. CASE /\ m.type = "cascade.parity_response" /\ Open /\ Controller(bob.cascade)
             /\ alice.leaked <= bob.cascade.leaked + 1
    BY <1>5, <2>2 DEF AtBob, Steady
  <2>3. CASE m.type = "privacy.done" /\ m.len = alice.finalKey.len
    BY <2>3 DEF AtBob, Steady
  <2>. QED
    BY <1>5, <1>8, <2>1, <2>2, <2>3 DEF AtBob
<1>. QED
  BY <1>1, <1>4, <1>5, <1>6, <1>7, <1>8

(* Two queues of one message or two joined                                 *)
LEMMA Joined ==
  /\ <<>> \o <<>> = <<>> /\ \A m : <<>> \o <<m>> = <<m>>
  /\ \A m, n : <<>> \o <<m, n>> = <<m, n>> /\ <<m>> \o <<n>> = <<m, n>>
  /\ \A m : <<m>> \o <<>> = <<m>>
<1>1. ASSUME NEW m, NEW n PROVE <<m>> \o <<n>> = <<m, n>>
  <2>1. <<m>> \in Seq({m, n}) /\ <<n>> \in Seq({m, n}) /\ Len(<<m>>) = 1 /\ Len(<<n>>) = 1
    OBVIOUS
  <2>2. PICK q : q = <<m>> \o <<n>>
    OBVIOUS
  <2>3. q \in Seq({m, n}) /\ Len(q) = 2 /\ q[1] = m /\ q[2] = n
    BY <2>1, <2>2
  <2>4. q = <<q[1], q[2]>>
    BY <2>3
  <2>. QED
    BY <2>2, <2>3, <2>4
<1>. QED
  BY <1>1

(* What is left of one message or of two when some are lost                *)
LEMMA Forwarded ==
  ASSUME NEW queue, NEW sent, NEW t \in Transmitted(queue, sent)
  PROVE  /\ sent = <<>> => t.queue = queue \o <<>>
         /\ \A m : sent = <<m>> => t.queue \in {queue \o <<>>, queue \o <<m>>}
         /\ \A m, n : sent = <<m, n>> =>
              t.queue \in {queue \o <<>>, queue \o <<m>>, queue \o <<n>>, queue \o <<m, n>>}
<1>1. PICK drops : t.queue = queue \o RemovePositions(sent, drops)
  BY DEF Transmitted
<1>2. PICK rest : rest = RemovePositions(sent, drops)
  OBVIOUS
<1>3. ASSUME IsSequence(sent)
      PROVE  /\ Len(rest) \in Nat /\ DOMAIN rest = 1..Len(rest) /\ IsSequence(rest)
             /\ \E at \in [DOMAIN rest -> DOMAIN sent] :
                  /\ \A i \in DOMAIN rest : rest[i] = sent[at[i]]
                  /\ \A i, j \in DOMAIN rest : at[i] = at[j] => i = j
                  /\ \A i, j \in DOMAIN rest : i < j => at[i] < at[j]
  <2>1. /\ IsSequence(rest)
        /\ \E at \in [DOMAIN rest -> DOMAIN sent \ ToSet(drops)] :
                  /\ \A i \in DOMAIN rest : rest[i] = sent[at[i]]
                  /\ \A i, j \in DOMAIN rest : at[i] = at[j] => i = j
                  /\ \A i, j \in DOMAIN rest : i < j => at[i] < at[j]
    BY <1>2, <1>3, RemoveFacts
  <2>2. PICK at \in [DOMAIN rest -> DOMAIN sent \ ToSet(drops)] :
                  /\ \A i \in DOMAIN rest : rest[i] = sent[at[i]]
                  /\ \A i, j \in DOMAIN rest : at[i] = at[j] => i = j
                  /\ \A i, j \in DOMAIN rest : i < j => at[i] < at[j]
    BY <2>1
  <2>3. at \in [DOMAIN rest -> DOMAIN sent]
    BY <2>2
  <2>4. Len(rest) \in Nat /\ DOMAIN rest = 1..Len(rest) /\ IsSequence(rest)
    BY <2>1, SequenceFacts
  <2>. QED
    BY <2>2, <2>3, <2>4
<1>4. IsSequence(rest) /\ Len(rest) = 0 => rest = <<>>
  BY DEF IsSequence
<1>5. IsSequence(rest) /\ Len(rest) = 1 => rest = <<rest[1]>>
  BY DEF IsSequence
<1>6. IsSequence(rest) /\ Len(rest) = 2 => rest = <<rest[1], rest[2]>>
  BY DEF IsSequence
<1>7. ASSUME sent = <<>> PROVE rest = <<>>
  <2>1. IsSequence(sent) /\ DOMAIN sent = {}
    BY <1>7 DEF IsSequence, ToSet
  <2>2. DOMAIN rest = {}
    BY <1>3, <2>1
  <2>. QED
    BY <1>3, <1>4, <2>1, <2>2
<1>8. ASSUME NEW m, sent = <<m>> PROVE rest \in {<<>>, <<m>>}
  <2>1. IsSequence(sent) /\ DOMAIN sent = {1} /\ sent[1] = m
    <3>1. sent \in Seq({m}) /\ DOMAIN sent = {1} /\ sent[1] = m
      BY <1>8
    <3>. QED
      BY <3>1, SequenceFacts
  <2>2. PICK at \in [DOMAIN rest -> {1}] :
                  /\ \A i \in DOMAIN rest : rest[i] = sent[at[i]]
                  /\ \A i, j \in DOMAIN rest : at[i] = at[j] => i = j
    BY <1>3, <2>1
  <2>3. Len(rest) \in {0, 1}
    <3>1. ~(1 \in DOMAIN rest /\ 2 \in DOMAIN rest)
      BY <2>2
    <3>. QED
      BY <1>3, <2>1, <3>1
  <2>4. Len(rest) = 1 => rest[1] = m
    BY <1>3, <2>1, <2>2
  <2>. QED
    BY <1>3, <1>4, <1>5, <2>1, <2>3, <2>4
<1>9. ASSUME NEW m, NEW n, sent = <<m, n>> PROVE rest \in {<<>>, <<m>>, <<n>>, <<m, n>>}
  <2>1. IsSequence(sent) /\ DOMAIN sent = {1, 2} /\ sent[1] = m /\ sent[2] = n
    <3>1. sent \in Seq({m, n}) /\ DOMAIN sent = 1..2 /\ sent[1] = m /\ sent[2] = n
      BY <1>9
    <3>. QED
      BY <3>1, SequenceFacts
  <2>2. PICK at \in [DOMAIN rest -> {1, 2}] :
                  /\ \A i \in DOMAIN rest : rest[i] = sent[at[i]]
                  /\ \A i, j \in DOMAIN rest : i < j => at[i] < at[j]
    BY <1>3, <2>1
  <2>3. Len(rest) \in {0, 1, 2}
    <3>1. ~(1 \in DOMAIN rest /\ 2 \in DOMAIN rest /\ 3 \in DOMAIN rest)
      BY <2>2
    <3>. QED
      BY <1>3, <2>1, <3>1
  <2>4. Len(rest) = 1 => rest[1] \in {m, n}
    BY <1>3, <2>1, <2>2
  <2>5. Len(rest) = 2 => rest[1] = m /\ rest[2] = n
    <3>1. ASSUME Len(rest) = 2 PROVE 1 \in DOMAIN rest /\ 2 \in DOMAIN rest
      BY <1>3, <2>1, <3>1
    <3>2. ASSUME Len(rest) = 2 PROVE at[1] = 1 /\ at[2] = 2
      BY <2>2, <3>1, <3>2
    <3>. QED
      BY <2>1, <2>2, <3>1, <3>2
  <2>. QED
    BY <1>3, <1>4, <1>5, <1>6, <2>1, <2>3, <2>4, <2>5
<1>. QED
  BY <1>1, <1>2, <1>7, <1>8, <1>9

(* What a handler of Alice leaves due or on its way                        *)
LEMMA AlicePasses ==
  ASSUME toBob = <<>>, toAlice' = <<>>, NEW out, NEW left, left \ {"bob.start"} = {},
         AliceDoes(out, left),
         \/ out.sent = <<>> /\ out.local = {}
         \/ out.sent = <<>> /\ \E e : out.local = {e} /\ EventHolds(e)'
         \/ out.local = {} /\ \E m : out.sent = <<m>> /\ AtBob(m)'
         \/ /\ out.local = {}
            /\ \E m, n : /\ out.sent = <<m, n>> /\ AtBob(m)' /\ AtBob(n)'
                         /\ m.type = "sift.accepted" /\ n.type \in {"estimate.sample", "abort"}
  PROVE  SessionTurn'
<1>1. local' = left \cup out.local
  BY DEF AliceDoes
<1>2. PICK t \in Transmitted(toBob, out.sent) : toBob' = t.queue
  BY DEF AliceDoes
<1>3. \A e : EventHolds(e)' => e # "bob.start"
  BY DEF EventHolds
<1>5. CASE out.sent = <<>> /\ out.local = {}
  <2>1. Due' = {} /\ toBob' = <<>>
    BY <1>1, <1>2, Joined, <1>5, Forwarded DEF Due
  <2>. QED
    BY <2>1 DEF SessionTurn
<1>6. ASSUME NEW e, out.sent = <<>>, out.local = {e}, EventHolds(e)' PROVE SessionTurn'
  <2>1. Due' = {e} /\ toBob' = <<>>
    BY <1>1, <1>2, <1>3, Joined, <1>6, Forwarded DEF Due
  <2>. QED
    BY <1>6, <2>1 DEF SessionTurn
<1>7. ASSUME NEW m, out.local = {}, out.sent = <<m>>, AtBob(m)' PROVE SessionTurn'
  <2>1. Due' = {} /\ toBob' \in {<<>>, <<m>>}
    BY <1>1, <1>2, Joined, <1>7, Forwarded DEF Due
  <2>. QED
    BY <1>7, <2>1 DEF SessionTurn
<1>8. ASSUME NEW m, NEW n, out.local = {}, out.sent = <<m, n>>, AtBob(m)', AtBob(n)',
             m.type = "sift.accepted", n.type \in {"estimate.sample", "abort"}
      PROVE  SessionTurn'
  <2>1. Due' = {}
    BY <1>1, <1>8 DEF Due
  <2>2. toBob' \in {<<>> \o <<>>, <<>> \o <<m>>, <<>> \o <<n>>, <<>> \o <<m, n>>}
    BY <1>2, <1>8, Forwarded
  <2>3. toBob' \in {<<>>, <<m>>, <<n>>, <<m, n>>}
    BY <2>2, Joined, Zenon
  <2>. QED
    BY <1>8, <2>1, <2>3 DEF SessionTurn
<1>. QED
  BY <1>5, <1>6, <1>7, <1>8

(* What a handler of Bob leaves due or on its way                          *)
LEMMA BobPasses ==
  ASSUME toAlice = <<>>, toBob' = <<>>, NEW out, NEW left, left \ {"bob.start"} = {},
         BobDoes(out, left),
         \/ out.sent = <<>> /\ out.local = {}
         \/ out.sent = <<>> /\ \E e : out.local = {e} /\ EventHolds(e)'
         \/ out.local = {} /\ \E m : out.sent = <<m>> /\ AtAlice(m)'
         \/ /\ out.local = {"cascade.next_request"} /\ EventHolds("cascade.next_request")'
            /\ \E m : out.sent = <<m>> /\ m.type = "estimate.result" /\ AtAlice(m)'
  PROVE  SessionTurn'
<1>1. local' = left \cup out.local
  BY DEF BobDoes
<1>2. PICK t \in Transmitted(toAlice, out.sent) : toAlice' = t.queue
  BY DEF BobDoes
<1>3. \A e : EventHolds(e)' => e # "bob.start"
  BY DEF EventHolds
<1>5. CASE out.sent = <<>> /\ out.local = {}
  <2>1. Due' = {} /\ toAlice' = <<>>
    BY <1>1, <1>2, Joined, <1>5, Forwarded DEF Due
  <2>. QED
    BY <2>1 DEF SessionTurn
<1>6. ASSUME NEW e, out.sent = <<>>, out.local = {e}, EventHolds(e)' PROVE SessionTurn'
  <2>1. Due' = {e} /\ toAlice' = <<>>
    BY <1>1, <1>2, <1>3, Joined, <1>6, Forwarded DEF Due
  <2>. QED
    BY <1>6, <2>1 DEF SessionTurn
<1>7. ASSUME NEW m, out.local = {}, out.sent = <<m>>, AtAlice(m)' PROVE SessionTurn'
  <2>1. Due' = {} /\ toAlice' \in {<<>>, <<m>>}
    BY <1>1, <1>2, Joined, <1>7, Forwarded DEF Due
  <2>. QED
    BY <1>7, <2>1 DEF SessionTurn
<1>8. ASSUME NEW m, out.sent = <<m>>, AtAlice(m)', m.type = "estimate.result",
             out.local = {"cascade.next_request"}, EventHolds("cascade.next_request")'
      PROVE  SessionTurn'
  <2>1. Due' = {"cascade.next_request"} /\ toAlice' \in {<<>>, <<m>>}
    BY <1>1, <1>2, <1>3, Joined, <1>8, Forwarded DEF Due
  <2>2. toAlice' = <<>> \/ Result(toAlice)'
    BY <1>8, <2>1 DEF Result
  <2>. QED
    BY <1>8, <2>1, <2>2 DEF SessionTurn
<1>. QED
  BY <1>5, <1>6, <1>7, <1>8

(* Bob goes on while the result of the estimate is on its way.             *)
LEMMA BobPassesResult ==
  ASSUME NEW r, toAlice = <<r>>, r.type = "estimate.result", AtAlice(r)', toBob' = <<>>,
         NEW out, NEW left, left \ {"bob.start"} = {}, BobDoes(out, left),
         \/ out.sent = <<>> /\ out.local = {}
         \/ /\ out.sent = <<>> /\ out.local = {"cascade.next_request"}
            /\ EventHolds("cascade.next_request")'
         \/ /\ out.local = {}
            /\ \E m : /\ out.sent = <<m>> /\ AtAlice(m)'
                      /\ m.type \in {"cascade.parity_request", "verify.tag"}
  PROVE  SessionTurn'
<1>1. local' = left \cup out.local
  BY DEF BobDoes
<1>2. PICK t \in Transmitted(toAlice, out.sent) : toAlice' = t.queue
  BY DEF BobDoes
<1>5. CASE out.sent = <<>> /\ out.local = {}
  <2>1. Due' = {} /\ toAlice' = <<r>>
    BY <1>1, <1>2, Joined, <1>5, Forwarded DEF Due
  <2>. QED
    BY <2>1 DEF SessionTurn
<1>6. CASE /\ out.sent = <<>> /\ out.local = {"cascade.next_request"}
           /\ EventHolds("cascade.next_request")'
  <2>1. Due' = {"cascade.next_request"} /\ toAlice' = <<r>>
    BY <1>1, <1>2, Joined, <1>6, Forwarded DEF Due
  <2>2. Result(toAlice)'
    BY <2>1 DEF Result
  <2>. QED
    BY <1>6, <2>1, <2>2 DEF SessionTurn
<1>7. ASSUME NEW m, out.local = {}, out.sent = <<m>>, AtAlice(m)',
             m.type \in {"cascade.parity_request", "verify.tag"}
      PROVE  SessionTurn'
  <2>1. Due' = {}
    BY <1>1, <1>7 DEF Due
  <2>2. toAlice' \in {<<r>> \o <<>>, <<r>> \o <<m>>}
    BY <1>2, <1>7, Forwarded
  <2>3. toAlice' \in {<<r>>, <<r, m>>}
    BY <2>2, Joined, Zenon
  <2>. QED
    BY <1>7, <2>1, <2>3 DEF SessionTurn
<1>. QED
  BY <1>5, <1>6, <1>7

-----------------------------------------------------------------------------
(* Alice of BB84 *)

(* Only a reason to give up or a verdict is noted.                         *)
AliceMarked(a) ==
  /\ DOMAIN a = AliceFields
  /\ a.prepared = alice.prepared /\ a.slots = alice.slots /\ a.bits = alice.bits
  /\ a.qberComplete = alice.qberComplete /\ a.leaked = alice.leaked
  /\ a.collided = alice.collided /\ a.finalKey = alice.finalKey

(* A handler of Alice that changes nothing else                            *)
LEMMA AliceMarks ==
  ASSUME SessionAgents, SessionTargets, NEW out, NEW left, AliceDoes(out, left),
         AliceMarked(out.self)
  PROVE  /\ SessionAgents' /\ SessionTargets'
         /\ \A e : EventHolds(e) => EventHolds(e)'
         /\ \A m : AtAlice(m) => AtAlice(m)'
         /\ \A m : AtBob(m) => AtBob(m)'
<1>1. alice' = out.self /\ bob' = bob /\ rt' = rt
  BY DEF AliceDoes
<1>2. Steady
  BY <1>1 DEF Steady, AliceMarked, SessionAgents
<1>. QED
  BY <1>1, <1>2, SteadyKeeps

(* One that sends a message whose meaning does not depend on it            *)
LEMMA AliceSays ==
  ASSUME SessionSound, toBob = <<>>, toAlice' = <<>>, NEW out, NEW left,
         left \ {"bob.start"} = {}, AliceDoes(out, left), AliceMarked(out.self),
         \/ out.sent = <<>> /\ out.local = {}
         \/ out.sent = <<>> /\ \E e : out.local = {e} /\ EventHolds(e)
         \/ out.local = {} /\ \E m : out.sent = <<m>> /\ AtBob(m)
  PROVE  SessionSound'
<1>1. SessionAgents /\ SessionTargets
  BY DEF SessionSound
<1>2. SessionAgents' /\ SessionTargets'
      /\ (\A e : EventHolds(e) => EventHolds(e)') /\ (\A m : AtBob(m) => AtBob(m)')
  BY <1>1, AliceMarks
<1>3. SessionTurn'
  BY <1>2, AlicePasses
<1>. QED
  BY <1>2, <1>3 DEF SessionSound

(* One that raises                                                         *)
LEMMA AliceRaises ==
  ASSUME SessionSound, toBob = <<>>, toAlice' = <<>>, NEW out, NEW left,
         left \ {"bob.start"} = {}, AliceDoes(out, left), out \in Raise(alice)
  PROVE  SessionSound'
<1>1. out.self = alice /\ out.sent = <<>> /\ out.local = {}
  BY DEF Raise
<1>2. AliceMarked(alice)
  BY DEF AliceMarked, SessionSound, SessionAgents
<1>. QED
  BY <1>1, <1>2, AliceSays

(* Alice starts, or announces that the slots have passed.                  *)
LEMMA AliceStartKeeps ==
  ASSUME SessionSound, Unsifted, toBob = <<>>, toAlice' = <<>>, NEW left,
         left \ {"bob.start"} = {}, NEW out \in AliceStart \cup SendQuantumDone,
         AliceDoes(out, left)
  PROVE  SessionSound'
<1>1. AliceMarked(alice)
  BY DEF AliceMarked, SessionSound, SessionAgents
<1>2. CASE out \in AliceStart
  <2>1. out.self = alice /\ out.sent = <<>> /\ out.local = {"quantum.done"}
    BY <1>2 DEF AliceStart, Outcome
  <2>2. EventHolds("quantum.done")
    BY DEF EventHolds
  <2>. QED
    BY <1>1, <2>1, <2>2, AliceSays
<1>3. CASE out \in SendQuantumDone
  <2>1. PICK m : m = [type |-> "quantum.done"]
    OBVIOUS
  <2>2. out.self = alice /\ out.sent = <<m>> /\ out.local = {}
    BY <1>3, <2>1 DEF SendQuantumDone, Outcome
  <2>3. AtBob(m)
    BY <2>1 DEF AtBob
  <2>. QED
    BY <1>1, <2>2, <2>3, AliceSays
<1>. QED
  BY <1>2, <1>3

(* Alice's key is sifted; whatever she notes with it, both are still early. *)
AliceSifted ==
  /\ DOMAIN alice' = AliceFields /\ alice'.prepared = alice.prepared
  /\ alice'.qberComplete = alice.qberComplete /\ alice'.leaked = alice.leaked
  /\ alice'.finalKey = alice.finalKey /\ bob' = bob /\ rt' = rt

(* The empty sequence has no positions.                                    *)
LEMMA EmptyDomain == DOMAIN <<>> = {}
BY SMT

(* The slots that Alice keeps are those in which the bases agree.          *)
LEMMA AliceSifts ==
  ASSUME SessionSound, Unsifted, AliceSifted
  PROVE  SessionAgents' /\ SessionTargets' /\ Unsifted'
<1>1. Unsifted'
  BY DEF AliceSifted, Unsifted, Early, Open
<1>2. SessionAgents'
  BY DEF AliceSifted, SessionSound, SessionAgents
<1>3. SlotsMatch'
  BY <1>1, EmptyDomain DEF Unsifted, SlotsMatch, Aligned
<1>4. KeysAgree' /\ DisclosureSubtracted'
  BY <1>1 DEF Unsifted, Early, Open, KeysAgree, DisclosureSubtracted
<1>. QED
  BY <1>1, <1>2, <1>3, <1>4 DEF SessionTargets

(* Alice sifts Bob's detections and chooses the sample, or gives up.       *)
LEMMA OnBobBasesKeeps ==
  ASSUME KeyAssumption, SessionAssumption, SessionSound, NEW m, m.type = "sift.bob_bases",
         AtAlice(m), toBob = <<>>, toAlice' = <<>>, NEW left, left \ {"bob.start"} = {},
         NEW out \in OnBobBases(m), AliceDoes(out, left)
  PROVE  SessionSound'
<1>0. /\ Unsifted /\ IsSequence(m.detections) /\ Len(m.detections) \in 0..NumSlots
      /\ NumSlots \in Nat /\ DOMAIN m.detections = 1..Len(m.detections)
      /\ \A i \in DOMAIN m.detections :
           \E k \in DOMAIN bob.detections : bob.detections[k] = m.detections[i]
  <2>1. /\ Unsifted /\ IsSequence(m.detections) /\ Len(m.detections) <= NumSlots
        /\ \A i \in DOMAIN m.detections :
             \E k \in DOMAIN bob.detections : bob.detections[k] = m.detections[i]
    BY DEF AtAlice
  <2>. QED
    BY <2>1, SequenceFacts DEF SessionAssumption
<1>. DEFINE announced == [i \in DOMAIN m.detections |-> m.detections[i].slot]
            S == {i \in DOMAIN m.detections :
                    LET d == m.detections[i]
                    IN  /\ alice.prepared[d.slot] # NoEmission
                        /\ alice.prepared[d.slot].basis = d.basis}
            kept == InOrder(S)
            slots == [i \in DOMAIN kept |-> announced[kept[i]]]
            bits == [i \in DOMAIN slots |-> alice.prepared[slots[i]].bit]
<1>1. \/ out \in Raise(alice)
      \/ out \in StartQberEstimation([alice EXCEPT !.slots = slots, !.bits = bits],
                                     [type |-> "sift.accepted", slots |-> slots])
  BY DEF OnBobBases
<1>2. /\ IsSequence(kept) /\ Len(kept) \in 0..Len(m.detections)
      /\ \A k \in DOMAIN kept : kept[k] \in S
  <2>1. S \in SUBSET (1..Len(m.detections)) /\ Len(m.detections) \in Nat
    BY <1>0
  <2>. HIDE DEF S
  <2>. QED
    BY <2>1, InOrderBound
<1>3. \A i \in S : /\ announced[i] = m.detections[i].slot
                   /\ alice.prepared[announced[i]].basis = m.detections[i].basis
                   /\ i \in DOMAIN m.detections
  OBVIOUS
<1>. HIDE DEF S, announced, kept
<1>4. IsSequence(slots) /\ Len(slots) = Len(kept) /\ DOMAIN slots = DOMAIN kept
  BY <1>2, OverSequence
<1>5. Len(slots) \in 0..NumSlots
  BY <1>0, <1>2, <1>4, Within, Zenon
<1>6. \A i \in DOMAIN slots : \E k \in DOMAIN bob.detections :
         /\ bob.detections[k].slot = slots[i]
         /\ bob.detections[k].basis = alice.prepared[slots[i]].basis
  <2>. SUFFICES ASSUME NEW i \in DOMAIN slots
                PROVE  \E k \in DOMAIN bob.detections :
                         /\ bob.detections[k].slot = slots[i]
                         /\ bob.detections[k].basis = alice.prepared[slots[i]].basis
    OBVIOUS
  <2>1. slots[i] = announced[kept[i]] /\ kept[i] \in S
    BY <1>2, <1>4
  <2>2. PICK k \in DOMAIN bob.detections : bob.detections[k] = m.detections[kept[i]]
    BY <1>0, <1>3, <2>1
  <2>. QED
    BY <1>3, <2>1, <2>2
<1>7. IsSequence(bits) /\ Len(bits) = Len(slots)
  <2>. HIDE DEF slots
  <2>. QED
    BY <1>4, OverSequence
<1>. HIDE DEF slots, bits
<1>8. alice' = out.self /\ bob' = bob /\ rt' = rt
  BY DEF AliceDoes
<1>9. PICK q, b, accepted :
        q = slots /\ b = bits /\ accepted = [type |-> "sift.accepted", slots |-> q]
  OBVIOUS
<1>. DEFINE sifted == [alice EXCEPT !.slots = q, !.bits = b]
<1>10. ASSUME Unsifted', alice'.slots = q, alice'.prepared = alice.prepared
       PROVE  AtBob(accepted)' /\ accepted.type = "sift.accepted"
  <2>1. Aligned(q)'
    BY <1>6, <1>8, <1>9, <1>10 DEF Aligned
  <2>2. IsSequence(q) /\ Len(q) <= NumSlots
    BY <1>4, <1>5, <1>9
  <2>. QED
    BY <1>9, <1>10, <2>1, <2>2 DEF AtBob
<1>11. DOMAIN alice = AliceFields
  BY DEF SessionSound, SessionAgents
<1>12. IsSequence(b) /\ Len(b) \in 0..NumSlots
  BY <1>5, <1>7, <1>9
<1>13. CASE out \in Raise(alice)
  BY <1>13, AliceRaises
<1>14. CASE out \in StartQberEstimation(sifted, accepted)
  <2>0. sifted.bits = b
    BY DEF SessionSound, SessionAgents, AliceFields
  <2>1. CASE out \in Raise(sifted)
    <3>1. out.self = sifted /\ out.sent = <<>> /\ out.local = {}
      BY <2>1 DEF Raise
    <3>2. SessionAgents' /\ SessionTargets'
      <4>1. AliceSifted
        BY <1>8, <3>1, <1>11 DEF AliceSifted, AliceFields
      <4>. QED
        BY <1>0, <4>1, AliceSifts
    <3>. QED
      BY <3>1, <3>2, AlicePasses DEF SessionSound
  <2>2. CASE out = Outcome([sifted EXCEPT !.aborted = "not enough bits"],
                           <<accepted, [type |-> "abort"]>>, {})
    <3>1. PICK n : n = [type |-> "abort"]
      OBVIOUS
    <3>2. /\ out.self = [sifted EXCEPT !.aborted = "not enough bits"]
          /\ out.sent = <<accepted, n>> /\ out.local = {}
      BY <2>2, <3>1 DEF Outcome
    <3>3. /\ SessionAgents' /\ SessionTargets' /\ Unsifted' /\ alice'.slots = q
          /\ alice'.prepared = alice.prepared
      <4>1. AliceSifted /\ alice'.slots = q
        BY <1>8, <3>2, <1>11 DEF AliceSifted, AliceFields
      <4>. QED
        BY <1>0, <4>1, AliceSifts DEF AliceSifted
    <3>4. AtBob(accepted)' /\ AtBob(n)' /\ accepted.type = "sift.accepted" /\ n.type = "abort"
      BY <1>10, <3>1, <3>3 DEF AtBob
    <3>5. SessionTurn'
      BY <3>2, <3>4, AlicePasses
    <3>. QED
      BY <3>3, <3>5 DEF SessionSound
  <2>3. CASE /\ Len(b) >= MinSample + MinRemaining
             /\ \E positions \in SampleChoices(Len(b), SampleSize(Len(b))) :
                  \E n : /\ n.type = "estimate.sample" /\ n.positions = positions
                         /\ out = Outcome([sifted EXCEPT !.sample = positions],
                                          <<accepted, n>>, {})
    <3>1. PICK positions, n :
               /\ positions \in SampleChoices(Len(b), SampleSize(Len(b)))
               /\ n.type = "estimate.sample" /\ n.positions = positions
               /\ out = Outcome([sifted EXCEPT !.sample = positions], <<accepted, n>>, {})
      BY <2>3
    <3>2. /\ out.self = [sifted EXCEPT !.sample = positions]
          /\ out.sent = <<accepted, n>> /\ out.local = {}
      BY <3>1 DEF Outcome
    <3>3. /\ SessionAgents' /\ SessionTargets' /\ Unsifted' /\ alice'.slots = q
          /\ alice'.prepared = alice.prepared
      <4>1. AliceSifted /\ alice'.slots = q
        BY <1>8, <3>2, <1>11 DEF AliceSifted, AliceFields
      <4>. QED
        BY <1>0, <4>1, AliceSifts DEF AliceSifted
    <3>4. positions \in Seq(Nat)
      <4>1. PICK l \in 0..NumSlots : l = Len(b)
        BY <1>12
      <4>2. l \in Nat /\ l >= MinSample + MinRemaining
        BY <1>0, <2>3, <4>1
      <4>3. SampleSize(l) \in 0..l
        BY <4>2, SampleSizes
      <4>4. SampleSize(l) \in 0..NumSlots /\ 0 \in 0..NumSlots
        BY <1>0, <4>1, <4>3
      <4>5. SampleChoices(l, SampleSize(l)) \subseteq Seq(Nat)
        BY <4>1, <4>4, Zenon DEF SessionAssumption
      <4>. QED
        BY <3>1, <4>1, <4>5
    <3>5. /\ AtBob(accepted)' /\ AtBob(n)' /\ accepted.type = "sift.accepted"
          /\ n.type \in {"estimate.sample", "abort"}
      <4>1. AtBob(accepted)' /\ accepted.type = "sift.accepted"
        BY <1>10, <3>3
      <4>2. Early' /\ n.positions \in Seq(Nat) /\ n.type = "estimate.sample"
        BY <3>1, <3>3, <3>4 DEF Unsifted
      <4>. QED
        BY <4>1, <4>2 DEF AtBob
    <3>6. SessionTurn'
      BY <3>2, <3>5, AlicePasses
    <3>. QED
      BY <3>3, <3>6 DEF SessionSound
  <2>. HIDE DEF sifted
  <2>4. CASE Len(b) < MinSample + MinRemaining
    BY <1>14, <2>0, <2>2, <2>4 DEF StartQberEstimation
  <2>5. CASE ~(Len(b) < MinSample + MinRemaining)
    <3>1. Len(b) >= MinSample + MinRemaining
      BY <1>12, <2>5 DEF KeyAssumption
    <3>2. CASE ~rt.bound
      BY <1>14, <2>0, <2>1, <2>5, <3>2 DEF StartQberEstimation
    <3>3. CASE rt.bound
      <4>1. PICK positions \in SampleChoices(Len(b), SampleSize(Len(b))) :
              out = Outcome([sifted EXCEPT !.sample = positions],
                    <<accepted, [type |-> "estimate.sample", positions |-> positions,
                         bits |-> [i \in DOMAIN positions |-> sifted.bits[positions[i]]]]>>, {})
        BY <1>14, <2>0, <2>5, <3>3 DEF StartQberEstimation
      <4>2. PICK n : n = [type |-> "estimate.sample", positions |-> positions,
                         bits |-> [i \in DOMAIN positions |-> sifted.bits[positions[i]]]]
        OBVIOUS
      <4>3. n.type = "estimate.sample" /\ n.positions = positions
            /\ out = Outcome([sifted EXCEPT !.sample = positions], <<accepted, n>>, {})
        BY <4>1, <4>2
      <4>. QED
        BY <2>3, <3>1, <4>3
    <3>. QED
      BY <3>2, <3>3
  <2>. QED
    BY <2>4, <2>5
<1>. QED
  BY <1>1, <1>9, <1>13, <1>14

(* Alice cuts the sample out of her key: what Bob has sent after the       *)
(* result keeps its meaning.                                               *)
LEMMA OnEstimateResultFacts ==
  ASSUME SessionAgents, SessionTargets, NEW m, m.type = "estimate.result", AtAlice(m),
         NEW left, NEW out \in OnEstimateResult(m), AliceDoes(out, left)
  PROVE  /\ SessionAgents' /\ SessionTargets' /\ out.sent = <<>> /\ out.local = {}
         /\ EventHolds("cascade.next_request") => EventHolds("cascade.next_request")'
         /\ \A n : n.type \in {"cascade.parity_request", "verify.tag"} /\ AtAlice(n) =>
                     AtAlice(n)'
<1>0. alice' = out.self /\ bob' = bob /\ rt' = rt
  BY DEF AliceDoes
<1>1. CASE out \in Raise(alice)
  <2>1. out.self = alice /\ out.sent = <<>> /\ out.local = {}
    BY <1>1 DEF Raise
  <2>2. AliceMarked(alice)
    BY DEF AliceMarked, SessionAgents
  <2>. QED
    BY <2>1, <2>2, AliceMarks
<1>2. CASE /\ m.positions = alice.sample
           /\ out = Outcome([alice EXCEPT !.bits = RemovePositions(@, alice.sample),
                              !.slots = RemovePositions(@, alice.sample),
                              !.qberComplete = TRUE,
                              !.aborted = IF m.accept THEN @ ELSE "qber"], <<>>, {})
  <2>1. /\ out.sent = <<>> /\ out.local = {}
        /\ alice' = [alice EXCEPT !.bits = RemovePositions(@, alice.sample),
                                  !.slots = RemovePositions(@, alice.sample),
                                  !.qberComplete = TRUE,
                                  !.aborted = IF m.accept THEN @ ELSE "qber"]
    BY <1>0, <1>2 DEF Outcome
  <2>2. /\ DOMAIN alice' = AliceFields /\ alice'.prepared = alice.prepared
        /\ alice'.slots = RemovePositions(alice.slots, m.positions)
        /\ alice'.leaked = alice.leaked /\ alice'.collided = alice.collided
        /\ alice'.finalKey = alice.finalKey
    BY <1>2, <2>1 DEF SessionAgents, AliceFields
  <2>3. bob.slots = RemovePositions(alice.slots, m.positions)
    BY DEF AtAlice
  <2>4. SessionAgents'
    BY <1>0, <2>2 DEF SessionAgents
  <2>5. SlotsMatch'
    BY <1>0, <2>2, <2>3 DEF SessionTargets, SlotsMatch, Aligned
  <2>6. KeysAgree' /\ DisclosureSubtracted'
    BY <1>0, <2>2 DEF SessionTargets, KeysAgree, DisclosureSubtracted
  <2>7. Reconciling => Reconciling'
    BY <1>0, <2>2 DEF Reconciling, Open
  <2>8. EventHolds("cascade.next_request") => EventHolds("cascade.next_request")'
    BY <2>7 DEF EventHolds
  <2>9. ASSUME NEW n, n.type \in {"cascade.parity_request", "verify.tag"}, AtAlice(n)
        PROVE  AtAlice(n)'
    BY <1>0, <2>7, <2>9 DEF AtAlice
  <2>. QED
    BY <2>1, <2>4, <2>5, <2>6, <2>8, <2>9 DEF SessionTargets
<1>. QED
  BY <1>1, <1>2 DEF OnEstimateResult

(* While neither has a final key, the slots are all there is to show.      *)
LEMMA OpenTargets == ASSUME Open', SlotsMatch' PROVE SessionTargets'
BY DEF Open, SessionTargets, KeysAgree, DisclosureSubtracted

(* Alice answers: she has disclosed one bit more than Bob has counted.     *)
LEMMA OnParityRequestKeeps ==
  ASSUME SessionSound, NEW m, m.type = "cascade.parity_request", AtAlice(m),
         toBob = <<>>, toAlice' = <<>>, NEW left, left \ {"bob.start"} = {},
         NEW out \in OnParityRequest(m), AliceDoes(out, left)
  PROVE  SessionSound'
<1>1. CASE ~alice.qberComplete \/ ~ValidPositions(m.indices, Len(alice.bits))
  BY <1>1, AliceRaises DEF OnParityRequest
<1>2. CASE ~(~alice.qberComplete \/ ~ValidPositions(m.indices, Len(alice.bits)))
  <2>1. PICK n : n = [type |-> "cascade.parity_response", id |-> m.id,
                      parity |-> Parity(alice.bits, m.indices)]
    OBVIOUS
  <2>2. out = Outcome([alice EXCEPT !.leaked = @ + 1], <<n>>, {})
    BY <1>2, <2>1 DEF OnParityRequest
  <2>3. /\ out.sent = <<n>> /\ out.local = {} /\ bob' = bob /\ rt' = rt
        /\ alice' = [alice EXCEPT !.leaked = @ + 1]
    BY <2>2 DEF Outcome, AliceDoes
  <2>4. /\ DOMAIN alice' = AliceFields /\ alice'.prepared = alice.prepared
        /\ alice'.slots = alice.slots /\ alice'.qberComplete = alice.qberComplete
        /\ alice'.leaked = alice.leaked + 1 /\ alice'.finalKey = alice.finalKey
    BY <2>3 DEF SessionSound, SessionAgents, AliceFields
  <2>5. Reconciling
    BY DEF AtAlice
  <2>6. SessionAgents' /\ Open'
    BY <2>3, <2>4, <2>5 DEF Reconciling, Open, SessionSound, SessionAgents
  <2>7. SlotsMatch'
    BY <2>3, <2>4 DEF SessionSound, SessionTargets, SlotsMatch, Aligned
  <2>8. alice'.leaked <= bob'.cascade.leaked + 1
    BY <2>3, <2>4, <2>5 DEF Reconciling, Controller, SessionSound, SessionAgents
  <2>9. AtBob(n)'
    BY <2>1, <2>3, <2>5, <2>6, <2>8 DEF AtBob, Reconciling
  <2>. QED
    BY <2>3, <2>6, <2>7, <2>9, OpenTargets, AlicePasses DEF SessionSound
<1>. QED
  BY <1>1, <1>2

(* Alice says the tags agree only if the bits do, or the tags collided.    *)
LEMMA OnVerifyTagKeeps ==
  ASSUME SessionSound, NEW m, m.type = "verify.tag", AtAlice(m),
         toBob = <<>>, toAlice' = <<>>, NEW left, left \ {"bob.start"} = {},
         NEW out \in OnVerifyTag(m), AliceDoes(out, left)
  PROVE  SessionSound'
<1>1. CASE ~alice.qberComplete
  BY <1>1, AliceRaises DEF OnVerifyTag
<1>2. CASE alice.qberComplete
  <2>0. Reconciling /\ m.bits = bob.cascade.bits
    BY DEF AtAlice
  <2>1. PICK same \in BOOLEAN :
          out = Outcome([alice EXCEPT !.verified = IF same THEN "yes" ELSE "no",
                              !.collided = same /\ m.bits # alice.bits,
                              !.aborted = IF same THEN @ ELSE "verification"],
                        <<[type |-> "verify.result", verified |-> same]>>, {})
    BY <1>2 DEF OnVerifyTag, TagsAgree
  <2>2. PICK n : n = [type |-> "verify.result", verified |-> same]
    OBVIOUS
  <2>3. /\ out.sent = <<n>> /\ out.local = {} /\ bob' = bob /\ rt' = rt
        /\ alice' = [alice EXCEPT !.verified = IF same THEN "yes" ELSE "no",
                              !.collided = same /\ m.bits # alice.bits,
                              !.aborted = IF same THEN @ ELSE "verification"]
    BY <2>1, <2>2 DEF Outcome, AliceDoes
  <2>4. /\ DOMAIN alice' = AliceFields /\ alice'.prepared = alice.prepared
        /\ alice'.slots = alice.slots /\ alice'.qberComplete = alice.qberComplete
        /\ alice'.leaked = alice.leaked /\ alice'.finalKey = alice.finalKey
        /\ alice'.bits = alice.bits
    BY <2>3 DEF SessionSound, SessionAgents, AliceFields
  <2>5. same /\ m.bits # alice.bits => alice'.collided
    BY <2>3 DEF SessionSound, SessionAgents, AliceFields
  <2>6. SessionAgents' /\ Reconciling' /\ Open'
    BY <2>0, <2>3, <2>4 DEF Reconciling, Open, SessionSound, SessionAgents
  <2>7. SlotsMatch'
    BY <2>3, <2>4 DEF SessionSound, SessionTargets, SlotsMatch, Aligned
  <2>8. n.verified => SameBits'
    BY <2>0, <2>2, <2>3, <2>4, <2>5 DEF SameBits
  <2>9. AtBob(n)'
    BY <2>2, <2>6, <2>8 DEF AtBob
  <2>. QED
    BY <2>3, <2>6, <2>7, <2>9, OpenTargets, AlicePasses DEF SessionSound
<1>. QED
  BY <1>1, <1>2

(* Alice's key is Bob's: of the same bits, and as long.                    *)
LEMMA OnPrivacySeedKeeps ==
  ASSUME SessionSound, NEW m, m.type = "privacy.seed", AtAlice(m),
         toBob = <<>>, toAlice' = <<>>, NEW left, left \ {"bob.start"} = {},
         NEW out \in OnPrivacySeed(m), AliceDoes(out, left)
  PROVE  SessionSound'
<1>1. CASE out \in Raise(alice)
  BY <1>1, AliceRaises
<1>2. CASE out = Outcome([alice EXCEPT !.aborted = "short key"], <<>>, {})
  <2>1. /\ out.self = [alice EXCEPT !.aborted = "short key"] /\ out.sent = <<>>
        /\ out.local = {}
    BY <1>2 DEF Outcome
  <2>2. AliceMarked(out.self)
    BY <2>1 DEF AliceMarked, SessionSound, SessionAgents, AliceFields
  <2>. QED
    BY <2>1, <2>2, AliceSays
<1>3. CASE out = Outcome([alice EXCEPT !.finalKey = [bits |-> alice.bits, len |-> m.len]],
                         <<[type |-> "privacy.done", len |-> m.len]>>, {})
  <2>1. PICK n : n = [type |-> "privacy.done", len |-> m.len]
    OBVIOUS
  <2>2. /\ out.sent = <<n>> /\ out.local = {} /\ bob' = bob /\ rt' = rt
        /\ alice' = [alice EXCEPT !.finalKey = [bits |-> alice.bits, len |-> m.len]]
    BY <1>3, <2>1 DEF Outcome, AliceDoes
  <2>3. /\ DOMAIN alice' = AliceFields /\ alice'.prepared = alice.prepared
        /\ alice'.slots = alice.slots /\ alice'.qberComplete = alice.qberComplete
        /\ alice'.leaked = alice.leaked /\ alice'.collided = alice.collided
        /\ alice'.finalKey = [bits |-> alice.bits, len |-> m.len]
    BY <2>2 DEF SessionSound, SessionAgents, AliceFields
  <2>4. SameBits /\ bob.finalKey = [bits |-> bob.cascade.bits, len |-> m.len]
    BY DEF AtAlice
  <2>5. SessionAgents'
    BY <2>2, <2>3 DEF SessionSound, SessionAgents
  <2>6. SlotsMatch'
    BY <2>2, <2>3 DEF SessionSound, SessionTargets, SlotsMatch, Aligned
  <2>7. KeysAgree'
    BY <2>2, <2>3, <2>4 DEF KeysAgree, SameBits
  <2>8. DisclosureSubtracted'
    BY <2>2, <2>3 DEF SessionSound, SessionTargets, DisclosureSubtracted
  <2>9. AtBob(n)'
    BY <2>1, <2>3 DEF AtBob
  <2>. QED
    BY <2>2, <2>5, <2>6, <2>7, <2>8, <2>9, AlicePasses DEF SessionSound, SessionTargets
<1>. QED
  BY <1>1, <1>2, <1>3 DEF OnPrivacySeed

(* Every message that may reach Alice has been dealt with.                 *)
LEMMA AliceReceivesKeeps ==
  ASSUME KeyAssumption, SessionAssumption, SessionSound, AliceReceives
  PROVE  SessionSound'
<1>0. toBob = <<>> /\ SessionAgents /\ SessionTargets
  BY DEF AliceReceives, SessionSound, SessionTurn
<1>1. PICK out \in AliceOnMessage(Head(toAlice)) : AliceDoes(out, local)
  BY DEF AliceReceives
<1>2. toAlice # <<>> /\ toAlice' = Tail(toAlice)
  BY DEF AliceReceives
<1>3. ASSUME NEW m, Head(toAlice) = m, m.type = "estimate.result", AtAlice(m)
      PROVE  /\ SessionAgents' /\ SessionTargets' /\ Due' = Due /\ toBob' = <<>>
             /\ EventHolds("cascade.next_request") => EventHolds("cascade.next_request")'
             /\ \A n : n.type \in {"cascade.parity_request", "verify.tag"} /\ AtAlice(n) =>
                         AtAlice(n)'
  <2>1. out \in OnEstimateResult(m)
    BY <1>1, <1>3 DEF AliceOnMessage
  <2>2. /\ SessionAgents' /\ SessionTargets' /\ out.sent = <<>> /\ out.local = {}
        /\ EventHolds("cascade.next_request") => EventHolds("cascade.next_request")'
        /\ \A n : n.type \in {"cascade.parity_request", "verify.tag"} /\ AtAlice(n) =>
                    AtAlice(n)'
    BY <1>0, <1>1, <1>3, <2>1, OnEstimateResultFacts
  <2>3. local' = local \cup {}
    BY <1>1, <2>2 DEF AliceDoes
  <2>4. PICK t \in Transmitted(toBob, out.sent) : toBob' = t.queue
    BY <1>1 DEF AliceDoes
  <2>5. toBob' = <<>>
    BY <1>0, <2>2, <2>4, Forwarded, Joined
  <2>. QED
    BY <2>2, <2>3, <2>5 DEF Due
<1>4. CASE Result(toAlice) /\ Due = {"cascade.next_request"} /\ EventHolds("cascade.next_request")
  <2>1. PICK m : toAlice = <<m>> /\ m.type = "estimate.result" /\ AtAlice(m)
    BY <1>4 DEF Result
  <2>2. Head(toAlice) = m /\ toAlice' = <<>>
    BY <1>2, <2>1
  <2>3. /\ SessionAgents' /\ SessionTargets' /\ Due' = {"cascade.next_request"} /\ toBob' = <<>>
        /\ EventHolds("cascade.next_request")'
    BY <1>3, <1>4, <2>1, <2>2
  <2>4. SessionTurn'
    BY <2>2, <2>3 DEF SessionTurn
  <2>. QED
    BY <2>3, <2>4 DEF SessionSound
<1>5. ASSUME NEW m, NEW n, Due = {}, toAlice = <<m, n>>, m.type = "estimate.result",
             n.type \in {"cascade.parity_request", "verify.tag"}, AtAlice(m), AtAlice(n)
      PROVE  SessionSound'
  <2>1. Head(toAlice) = m /\ toAlice' = <<n>>
    BY <1>2, <1>5
  <2>2. SessionAgents' /\ SessionTargets' /\ Due' = {} /\ toBob' = <<>> /\ AtAlice(n)'
    BY <1>3, <1>5, <2>1
  <2>3. SessionTurn'
    BY <2>1, <2>2 DEF SessionTurn
  <2>. QED
    BY <2>2, <2>3 DEF SessionSound
<1>6. ASSUME NEW m, Due = {}, toAlice = <<m>>, AtAlice(m) PROVE SessionSound'
  <2>1. Head(toAlice) = m /\ toAlice' = <<>> /\ out \in AliceOnMessage(m)
    BY <1>1, <1>2, <1>6
  <2>2. local \ {"bob.start"} = {}
    BY <1>6 DEF Due
  <2>3. CASE m.type = "estimate.result"
    <3>1. SessionAgents' /\ SessionTargets' /\ Due' = {} /\ toBob' = <<>>
      BY <1>3, <1>6, <2>1, <2>3
    <3>. QED
      BY <2>1, <3>1 DEF SessionSound, SessionTurn
  <2>4. CASE m.type = "sift.bob_bases"
    <3>1. out \in OnBobBases(m)
      BY <2>1, <2>4 DEF AliceOnMessage
    <3>. QED
      BY <1>0, <1>1, <1>6, <2>1, <2>2, <2>4, <3>1, OnBobBasesKeeps
  <2>5. CASE m.type = "cascade.parity_request"
    <3>1. out \in OnParityRequest(m)
      BY <2>1, <2>5 DEF AliceOnMessage
    <3>. QED
      BY <1>0, <1>1, <1>6, <2>1, <2>2, <2>5, <3>1, OnParityRequestKeeps
  <2>6. CASE m.type = "verify.tag"
    <3>1. out \in OnVerifyTag(m)
      BY <2>1, <2>6 DEF AliceOnMessage
    <3>. QED
      BY <1>0, <1>1, <1>6, <2>1, <2>2, <2>6, <3>1, OnVerifyTagKeeps
  <2>7. CASE m.type = "privacy.seed"
    <3>1. out \in OnPrivacySeed(m)
      BY <2>1, <2>7 DEF AliceOnMessage
    <3>. QED
      BY <1>0, <1>1, <1>6, <2>1, <2>2, <2>7, <3>1, OnPrivacySeedKeeps
  <2>. QED
    BY <1>6, <2>3, <2>4, <2>5, <2>6, <2>7 DEF AtAlice
<1>. QED
  BY <1>2, <1>4, <1>5, <1>6 DEF SessionSound, SessionTurn

(* An event of an agent other than Bob's start: what is due, and that      *)
(* nothing else is.                                                        *)
LEMMA DueEvent ==
  ASSUME SessionSound, NEW e, e \in local, e # "bob.start"
  PROVE  /\ (local \ {e}) \ {"bob.start"} = {} /\ EventHolds(e) /\ toBob = <<>>
         /\ toAlice = <<>> \/ (Result(toAlice) /\ e = "cascade.next_request")
<1>1. e \in Due
  BY DEF Due
<1>2. Due = {e} /\ EventHolds(e) /\ toBob = <<>>
  BY <1>1 DEF SessionSound, SessionTurn
<1>3. toAlice = <<>> \/ (Result(toAlice) /\ e = "cascade.next_request")
  BY <1>1 DEF SessionSound, SessionTurn
<1>. QED
  BY <1>2, <1>3 DEF Due

(* Alice's events happen before anything is sifted.                        *)
LEMMA AliceEventsKeep ==
  ASSUME SessionSound, AliceStarts \/ QuantumDone PROVE SessionSound'
<1>1. PICK e \in {"alice.start", "quantum.done"}, out \in AliceStart \cup SendQuantumDone :
         e \in local /\ AliceDoes(out, local \ {e}) /\ toAlice' = toAlice
  <2>1. CASE AliceStarts
    BY <2>1 DEF AliceStarts, AliceEvent
  <2>2. CASE QuantumDone
    BY <2>2 DEF QuantumDone, AliceEvent
  <2>. QED
    BY <2>1, <2>2
<1>2. /\ (local \ {e}) \ {"bob.start"} = {} /\ EventHolds(e) /\ toBob = <<>>
      /\ toAlice = <<>> \/ (Result(toAlice) /\ e = "cascade.next_request")
  BY <1>1, DueEvent
<1>3. Unsifted /\ toAlice' = <<>>
  BY <1>1, <1>2 DEF EventHolds
<1>. QED
  BY <1>1, <1>2, <1>3, AliceStartKeeps

-----------------------------------------------------------------------------
(* Bob of BB84 *)

(* Only the Cascade controller, a verdict or a reason to give up changes.  *)
BobMoved(b) ==
  /\ DOMAIN b = BobFields
  /\ b.detections = bob.detections /\ b.siftingComplete = bob.siftingComplete
  /\ b.slots = bob.slots /\ b.bits = bob.bits /\ b.sample = bob.sample
  /\ b.errors = bob.errors /\ b.qberComplete = bob.qberComplete
  /\ b.finalKey = bob.finalKey /\ b.privacyComplete = bob.privacyComplete

BobMarked(b) == BobMoved(b) /\ b.cascade = bob.cascade

(* A handler of Bob that changes nothing else                              *)
LEMMA BobMarks ==
  ASSUME SessionAgents, SessionTargets, NEW out, NEW left, BobDoes(out, left),
         BobMarked(out.self)
  PROVE  /\ SessionAgents' /\ SessionTargets'
         /\ \A e : EventHolds(e) => EventHolds(e)'
         /\ \A m : AtAlice(m) => AtAlice(m)'
         /\ \A m : AtBob(m) => AtBob(m)'
<1>1. bob' = out.self /\ alice' = alice /\ rt' = rt
  BY DEF BobDoes
<1>2. Steady
  BY <1>1 DEF Steady, BobMarked, BobMoved, SessionAgents
<1>. QED
  BY <1>1, <1>2, SteadyKeeps

(* One that sends a message whose meaning does not depend on it            *)
LEMMA BobSays ==
  ASSUME SessionSound, toAlice = <<>>, toBob' = <<>>, NEW out, NEW left,
         left \ {"bob.start"} = {}, BobDoes(out, left), BobMarked(out.self),
         \/ out.sent = <<>> /\ out.local = {}
         \/ out.sent = <<>> /\ \E e : out.local = {e} /\ EventHolds(e)
         \/ out.local = {} /\ \E m : out.sent = <<m>> /\ AtAlice(m)
  PROVE  SessionSound'
<1>1. SessionAgents /\ SessionTargets
  BY DEF SessionSound
<1>2. SessionAgents' /\ SessionTargets'
      /\ (\A e : EventHolds(e) => EventHolds(e)') /\ (\A m : AtAlice(m) => AtAlice(m)')
  BY <1>1, BobMarks
<1>3. SessionTurn'
  BY <1>2, BobPasses
<1>. QED
  BY <1>2, <1>3 DEF SessionSound

(* One that raises                                                         *)
LEMMA BobRaises ==
  ASSUME SessionSound, toAlice = <<>>, toBob' = <<>>, NEW out, NEW left,
         left \ {"bob.start"} = {}, BobDoes(out, left), out \in Raise(bob)
  PROVE  SessionSound'
<1>1. out.self = bob /\ out.sent = <<>> /\ out.local = {}
  BY DEF Raise
<1>2. BobMarked(bob)
  BY DEF BobMarked, BobMoved, SessionSound, SessionAgents
<1>. QED
  BY <1>1, <1>2, BobSays

(* Bob hears that the slots have passed, and schedules the sifting.        *)
LEMMA OnQuantumDoneKeeps ==
  ASSUME SessionSound, Unsifted, toAlice = <<>>, toBob' = <<>>, NEW left,
         left \ {"bob.start"} = {}, NEW out \in OnQuantumDone, BobDoes(out, left)
  PROVE  SessionSound'
<1>1. BobMarked(bob)
  BY DEF BobMarked, BobMoved, SessionSound, SessionAgents
<1>2. out.self = bob /\ out.sent = <<>> /\ out.local = {"sifting.start"}
  BY DEF OnQuantumDone, Outcome
<1>3. EventHolds("sifting.start")
  BY DEF EventHolds
<1>. QED
  BY <1>1, <1>2, <1>3, BobSays

(* Bob announces the detections he has, once.                              *)
LEMMA StartSiftingKeeps ==
  ASSUME SessionAssumption, SessionSound, Unsifted, toAlice = <<>>, toBob' = <<>>, NEW left,
         left \ {"bob.start"} = {}, NEW out \in StartSifting, BobDoes(out, left)
  PROVE  SessionSound'
<1>1. CASE out = Outcome(bob, <<>>, {})
  <2>1. BobMarked(bob) /\ out.self = bob /\ out.sent = <<>> /\ out.local = {}
    BY <1>1 DEF Outcome, BobMarked, BobMoved, SessionSound, SessionAgents
  <2>. QED
    BY <2>1, BobSays
<1>2. CASE out = Outcome([bob EXCEPT !.siftingStarted = TRUE],
                         <<[type |-> "sift.bob_bases", detections |-> bob.detections]>>, {})
  <2>1. PICK m : m = [type |-> "sift.bob_bases", detections |-> bob.detections]
    OBVIOUS
  <2>2. /\ out.self = [bob EXCEPT !.siftingStarted = TRUE] /\ out.sent = <<m>>
        /\ out.local = {}
    BY <1>2, <2>1 DEF Outcome
  <2>3. BobMarked(out.self)
    BY <2>2 DEF BobMarked, BobMoved, SessionSound, SessionAgents, BobFields
  <2>4. DetectionsDiffer(bob.detections)
    BY DEF SessionSound, SessionAgents
  <2>5. Len(bob.detections) <= NumSlots
    <3>1. NumSlots \in Nat
      BY DEF SessionAssumption
    <3>2. Len(bob.detections) \in 0..NumSlots
      BY <2>4, DetectionBound
    <3>. QED
      BY <3>1, <3>2
  <2>6. AtAlice(m)
    BY <2>1, <2>4, <2>5 DEF AtAlice, DetectionsDiffer
  <2>. QED
    BY <2>2, <2>3, <2>6, BobSays
<1>. QED
  BY <1>1, <1>2 DEF StartSifting

(* Bob's key is sifted: what Alice has sent after it keeps its meaning.    *)
LEMMA OnSiftAcceptedFacts ==
  ASSUME SessionAssumption, SessionAgents, SessionTargets, NEW m, m.type = "sift.accepted",
         AtBob(m), NEW left, NEW out \in OnSiftAccepted(m), BobDoes(out, left)
  PROVE  /\ SessionAgents' /\ SessionTargets' /\ out.sent = <<>> /\ out.local = {}
         /\ \A n : n.type \in {"estimate.sample", "abort"} /\ AtBob(n) => AtBob(n)'
<1>0. bob' = out.self /\ alice' = alice /\ rt' = rt
  BY DEF BobDoes
<1>1. CASE out \in Raise(bob)
  <2>1. out.self = bob /\ out.sent = <<>> /\ out.local = {}
    BY <1>1 DEF Raise
  <2>2. BobMarked(bob)
    BY DEF BobMarked, BobMoved, SessionAgents
  <2>. QED
    BY <2>1, <2>2, BobMarks
<1>2. CASE out = Outcome([bob EXCEPT !.slots = m.slots, !.siftingComplete = TRUE,
                            !.bits = [i \in DOMAIN m.slots |-> DetectionOf(m.slots[i]).bit]],
                         <<>>, {})
  <2>0. /\ Unsifted /\ m.slots = alice.slots /\ Aligned(m.slots)
        /\ IsSequence(m.slots) /\ Len(m.slots) <= NumSlots
    BY DEF AtBob
  <2>1. PICK bits, q : /\ bits = [i \in DOMAIN m.slots |-> DetectionOf(m.slots[i]).bit]
                       /\ q = m.slots
    OBVIOUS
  <2>2. /\ out.sent = <<>> /\ out.local = {}
        /\ bob' = [bob EXCEPT !.slots = q, !.siftingComplete = TRUE, !.bits = bits]
    BY <1>0, <1>2, <2>1 DEF Outcome
  <2>3. /\ DOMAIN bob' = BobFields /\ bob'.detections = bob.detections
        /\ bob'.slots = q /\ bob'.bits = bits /\ bob'.sample = bob.sample
        /\ bob'.errors = bob.errors /\ bob'.qberComplete = bob.qberComplete
        /\ bob'.cascade = bob.cascade /\ bob'.finalKey = bob.finalKey
        /\ bob'.privacyComplete = bob.privacyComplete
    BY <2>2 DEF SessionAgents, BobFields
  <2>4. IsSequence(bits) /\ Len(bits) = Len(q) /\ IsSequence(q) /\ Len(q) <= NumSlots
    BY <2>0, <2>1, OverSequence
  <2>5. SessionAgents'
    BY <1>0, <2>3, <2>4 DEF SessionAgents
  <2>6. Early'
    BY <1>0, <2>0, <2>3 DEF Unsifted, Early, Open
  <2>7. Aligned(q)'
    <3>1. Aligned(q) /\ bob'.detections = bob.detections /\ alice' = alice
      BY <1>0, <2>0, <2>1, <2>3
    <3>. QED
      BY <3>1 DEF Aligned
  <2>8. SlotsMatch'
    <3>1. Aligned(bob.slots)'
      BY <2>3, <2>7 DEF Aligned
    <3>2. alice'.slots = bob'.slots
      BY <1>0, <2>0, <2>1, <2>3
    <3>. QED
      BY <3>1, <3>2 DEF SlotsMatch
  <2>9. SessionTargets'
    BY <2>6, <2>8, OpenTargets DEF Early
  <2>10. ASSUME NEW n, n.type \in {"estimate.sample", "abort"}, AtBob(n) PROVE AtBob(n)'
    BY <2>6, <2>10 DEF AtBob
  <2>. QED
    BY <2>2, <2>5, <2>9, <2>10
<1>. QED
  BY <1>1, <1>2 DEF OnSiftAccepted

(* A length within a bound, and the bound on a length                      *)
LEMMA LengthBound ==
  ASSUME NEW n \in Nat, NEW q
  PROVE  /\ IsSequence(q) /\ Len(q) <= n => Len(q) \in 0..n
         /\ Len(q) \in 0..n => Len(q) <= n
<1>1. PICK k : k = Len(q)
  OBVIOUS
<1>2. IsSequence(q) => k \in Nat
  BY <1>1, SequenceFacts
<1>3. (k \in Nat /\ k <= n => k \in 0..n) /\ (k \in 0..n => k <= n)
  OBVIOUS
<1>. QED
  BY <1>1, <1>2, <1>3

(* Bob cuts the sample out of his key.                                     *)
BobCut(b, positions, errors) ==
  /\ DOMAIN b = BobFields /\ b.detections = bob.detections
  /\ b.siftingComplete = bob.siftingComplete
  /\ b.slots = RemovePositions(bob.slots, positions)
  /\ b.bits = RemovePositions(bob.bits, positions)
  /\ b.sample = positions /\ b.errors = errors /\ b.qberComplete
  /\ b.finalKey = bob.finalKey /\ b.privacyComplete = bob.privacyComplete

(* The slots that remain are aligned as they were.                         *)
LEMMA AlignedRemains ==
  ASSUME NEW slots, IsSequence(slots), Aligned(slots), NEW positions
  PROVE  Aligned(RemovePositions(slots, positions))
<1>. DEFINE rest == RemovePositions(slots, positions)
<1>1. PICK at \in [DOMAIN rest -> DOMAIN slots \ ToSet(positions)] :
         \A i \in DOMAIN rest : rest[i] = slots[at[i]]
  BY RemoveFacts
<1>. HIDE DEF rest
<1>2. Aligned(rest)
  BY <1>1 DEF Aligned
<1>. QED
  BY <1>2 DEF rest

(* So are those of unchanged detections.                                   *)
LEMMA AlignedStays ==
  ASSUME NEW q, Aligned(q), bob'.detections = bob.detections, alice'.prepared = alice.prepared
  PROVE  Aligned(q)'
BY DEF Aligned

(* Bob's slots are what the same sample leaves of Alice's.                 *)
LEMMA BobCuts ==
  ASSUME SessionAssumption, SessionSound, Early, bob.siftingComplete, NEW positions, NEW errors,
         Len(positions) \in 0..NumSlots, errors \in 0..NumSlots,
         BobCut(bob', positions, errors), alice' = alice, rt' = rt,
         \/ bob'.cascade = bob.cascade
         \/ Controller(bob'.cascade) /\ bob'.cascade.bits = bob'.bits /\ bob'.cascade.leaked = 0
  PROVE  /\ SessionAgents' /\ SessionTargets'
         /\ bob'.slots = RemovePositions(alice'.slots, positions)
         /\ bob'.cascade # bob.cascade => Reconciling'
<1>1. /\ IsSequence(bob.slots) /\ IsSequence(bob.bits) /\ Len(bob.bits) <= NumSlots
      /\ NumSlots \in Nat
  BY DEF SessionSound, SessionAgents, SessionAssumption
<1>2. IsSequence(bob'.slots) /\ IsSequence(bob'.bits)
  BY <1>1, RemoveBound DEF BobCut
<1>3. Len(bob'.bits) <= NumSlots
  <2>1. Len(bob.bits) \in 0..NumSlots
    BY <1>1, LengthBound
  <2>2. Len(bob'.bits) \in 0..Len(bob.bits)
    BY <1>1, RemoveBound DEF BobCut
  <2>3. Len(bob'.bits) \in 0..NumSlots
    BY <1>1, <2>1, <2>2, Within, Zenon
  <2>. QED
    BY <1>1, <2>3, LengthBound
<1>4. SessionAgents'
  <2>1. \/ bob'.cascade = NoController
        \/ Controller(bob'.cascade) /\ Len(bob'.cascade.bits) <= NumSlots
    BY <1>3 DEF SessionSound, SessionAgents
  <2>. QED
    BY <1>2, <1>3, <2>1 DEF SessionSound, SessionAgents, BobCut
<1>4b. /\ alice' = alice /\ bob'.detections = bob.detections
       /\ bob'.siftingComplete = bob.siftingComplete
       /\ bob'.slots = RemovePositions(bob.slots, positions)
       /\ bob'.qberComplete /\ bob'.finalKey = bob.finalKey
       /\ bob'.privacyComplete = bob.privacyComplete
  BY DEF BobCut
<1>5. Open'
  BY <1>4b DEF Early, Open
<1>6. alice.slots = bob.slots
  BY DEF SessionSound, SessionTargets, SlotsMatch, Early
<1>7. bob'.slots = RemovePositions(alice'.slots, positions)
  BY <1>6, <1>4b
<1>8. SlotsMatch'
  <2>1. Aligned(RemovePositions(bob.slots, positions))
    BY <1>1, AlignedRemains DEF SessionSound, SessionTargets, SlotsMatch
  <2>2. PICK q : q = RemovePositions(bob.slots, positions)
    OBVIOUS
  <2>3. Aligned(q) /\ bob'.slots = q
    BY <2>1, <2>2, <1>4b
  <2>4. Aligned(q)'
    BY <1>4b, <2>3, AlignedStays
  <2>5. Aligned(bob.slots)'
    BY <2>3, <2>4 DEF Aligned
  <2>6. alice'.qberComplete # bob'.qberComplete
    BY <1>4b DEF Early
  <2>. QED
    BY <2>5, <2>6 DEF SlotsMatch
<1>9. bob'.cascade # bob.cascade => Reconciling'
  <2>1. alice'.leaked = 0
    BY <1>4b DEF Early
  <2>2. ASSUME bob'.cascade # bob.cascade
        PROVE  Controller(bob'.cascade) /\ bob'.cascade.leaked = 0
    BY <2>2
  <2>3. 0 <= 0
    OBVIOUS
  <2>. QED
    BY <1>5, <2>1, <2>2, <2>3, Zenon DEF Reconciling, Controller
<1>. QED
  BY <1>4, <1>5, <1>7, <1>8, <1>9, OpenTargets

(* Bob counts the errors of the sample, removes it and starts Cascade.     *)
LEMMA OnEstimateSampleKeeps ==
  ASSUME SessionAssumption, SessionSound, NEW m, m.type = "estimate.sample", AtBob(m),
         toAlice = <<>>, toBob' = <<>>, NEW left, left \ {"bob.start"} = {},
         NEW out \in OnEstimateSample(m), BobDoes(out, left)
  PROVE  SessionSound'
<1>. DEFINE wrong == {i \in DOMAIN m.positions : bob.bits[m.positions[i]] # m.bits[i]}
            bad == \/ ~bob.siftingComplete \/ m.positions = <<>>
                   \/ ~ValidPositions(m.positions, Len(bob.bits))
<1>1. CASE bad
  <2>1. out \in Raise(bob)
    BY <1>1 DEF OnEstimateSample
  <2>. QED
    BY <2>1, BobRaises
<1>2. CASE ~bad
  <2>0. Early /\ m.positions \in Seq(Nat)
    BY DEF AtBob
  <2>21. PICK accept : accept = (100 * Cardinality(wrong) <= AbortPercent * Len(m.positions))
    OBVIOUS
  <2>22. PICK removed : removed = [bob EXCEPT !.bits = RemovePositions(@, m.positions),
                            !.slots = RemovePositions(@, m.positions),
                            !.sample = m.positions, !.errors = Cardinality(wrong),
                            !.qberComplete = TRUE]
    OBVIOUS
  <2>23. out \in IF accept
                THEN UNION {StartCascade(b, <<[type |-> "estimate.result", accept |-> accept,
                                positions |-> m.positions]>>) : b \in {removed}}
                ELSE {Outcome([removed EXCEPT !.aborted = "qber"],
                              <<[type |-> "estimate.result", accept |-> accept,
                                 positions |-> m.positions]>>, {})}
    BY <1>2, <2>21, <2>22, Zenon DEF OnEstimateSample
  <2>24. PICK errors, n :
           /\ errors = Cardinality(wrong)
           /\ n = [type |-> "estimate.result", accept |-> accept, positions |-> m.positions]
    OBVIOUS
  <2>26. removed = [bob EXCEPT !.bits = RemovePositions(@, m.positions),
                            !.slots = RemovePositions(@, m.positions),
                            !.sample = m.positions, !.errors = errors,
                            !.qberComplete = TRUE]
    BY <2>22, <2>24, Zenon
  <2>2. /\ IsSequence(bob.bits) /\ Len(bob.bits) \in 0..NumSlots /\ NumSlots \in Nat
    BY LengthBound DEF SessionSound, SessionAgents, SessionAssumption
  <2>3. Len(m.positions) \in 0..NumSlots
    <3>1. Len(m.positions) \in 0..Len(bob.bits)
      BY <1>2, <2>2, SampleBound
    <3>. QED
      BY <2>2, <3>1, Within, Zenon
  <2>4. errors \in 0..NumSlots
    <3>1. wrong \in SUBSET (1..Len(m.positions)) /\ Len(m.positions) \in Nat
      BY <2>0
    <3>. HIDE DEF wrong
    <3>2. Cardinality(wrong) \in 0..Len(m.positions)
      BY <3>1, CountBound
    <3>. QED
      BY <2>24, <2>2, <2>3, <3>2, Within, Zenon
  <2>. HIDE DEF wrong
  <2>25. \/ out \in UNION {StartCascade(b, <<n>>) : b \in {removed}}
        \/ out = Outcome([removed EXCEPT !.aborted = "qber"], <<n>>, {})
    BY <2>23, <2>24, Zenon
  <2>5. DOMAIN bob = BobFields /\ bob.siftingComplete
    BY <1>2 DEF SessionSound, SessionAgents
  <2>6. BobCut(removed, m.positions, errors) /\ removed.cascade = bob.cascade
    BY <2>26, <2>5 DEF BobCut, BobFields
  <2>7. bob' = out.self /\ alice' = alice /\ rt' = rt
    BY DEF BobDoes
  <2>8. n.type = "estimate.result" /\ n.positions = m.positions
    BY <2>24
  <2>9. CASE out \in Raise(removed)
    <3>1. out.self = removed /\ out.sent = <<>> /\ out.local = {}
      BY <2>9 DEF Raise
    <3>2. SessionAgents' /\ SessionTargets'
      BY <2>0, <2>3, <2>4, <2>5, <2>6, <2>7, <3>1, BobCuts
    <3>. QED
      BY <3>1, <3>2, BobPasses DEF SessionSound
  <2>10. CASE out = Outcome([removed EXCEPT !.aborted = "qber"], <<n>>, {})
    <3>1. out.self = [removed EXCEPT !.aborted = "qber"] /\ out.sent = <<n>> /\ out.local = {}
      BY <2>10 DEF Outcome
    <3>2. BobCut(out.self, m.positions, errors) /\ out.self.cascade = bob.cascade
      BY <2>6, <3>1 DEF BobCut, BobFields
    <3>3. /\ SessionAgents' /\ SessionTargets'
          /\ bob'.slots = RemovePositions(alice'.slots, m.positions)
      BY <2>0, <2>3, <2>4, <2>5, <2>7, <3>2, BobCuts
    <3>4. AtAlice(n)'
      BY <2>8, <3>3 DEF AtAlice
    <3>. QED
      BY <3>1, <3>3, <3>4, BobPasses DEF SessionSound
  <2>11. ASSUME NEW c, Controller(c), c.bits = removed.bits, c.leaked = 0,
                out = Outcome([removed EXCEPT !.cascade = c], <<n>>, {"cascade.next_request"})
         PROVE  SessionSound'
    <3>1. /\ out.self = [removed EXCEPT !.cascade = c] /\ out.sent = <<n>>
          /\ out.local = {"cascade.next_request"}
      BY <2>11 DEF Outcome
    <3>2. /\ BobCut(out.self, m.positions, errors) /\ out.self.cascade = c
          /\ out.self.bits = removed.bits
      BY <2>6, <3>1 DEF BobCut, BobFields
    <3>3. /\ SessionAgents' /\ SessionTargets'
          /\ bob'.slots = RemovePositions(alice'.slots, m.positions)
      BY <2>0, <2>3, <2>4, <2>5, <2>7, <2>11, <3>2, BobCuts
    <3>4. AtAlice(n)'
      BY <2>8, <3>3 DEF AtAlice
    <3>5. Reconciling'
      BY <2>0, <2>7, <2>11, <3>2 DEF Reconciling, Early, Open, BobCut
    <3>6. EventHolds("cascade.next_request")'
      BY <3>5 DEF EventHolds
    <3>. QED
      BY <2>8, <3>1, <3>3, <3>4, <3>6, BobPasses DEF SessionSound
  <2>12. CASE out \in StartCascade(removed, <<n>>)
    <3>1. CASE out \in Raise(removed)
      BY <2>9, <3>1
    <3>2. CASE out \notin Raise(removed)
      <4>1. PICK c, first, shuffled :
               /\ c = NewController(removed.bits, first, shuffled)
               /\ out = Outcome([removed EXCEPT !.cascade = c], <<n>>, {"cascade.next_request"})
        BY <2>12, <3>2 DEF StartCascade
      <4>2. Controller(c) /\ c.bits = removed.bits /\ c.leaked = 0
        BY <2>2, <2>6, <4>1, RemoveBound, NewControllerFacts DEF BobCut
      <4>. QED
        BY <2>11, <4>1, <4>2
    <3>. QED
      BY <3>1, <3>2
  <2>. QED
    BY <2>25, <2>10, <2>12
<1>. QED
  BY <1>1, <1>2

(* Bob goes on with Cascade, whether or not the result of the estimate is   *)
(* still on its way.                                                       *)
LEMMA BobMovesOn ==
  ASSUME SessionSound, Reconciling, toAlice = <<>> \/ Result(toAlice), toBob' = <<>>,
         NEW out, NEW left, left \ {"bob.start"} = {}, BobDoes(out, left),
         BobMoved(out.self), KeyKept(bob.cascade, out.self.cascade),
         \/ out.sent = <<>> /\ out.local = {"cascade.next_request"}
         \/ /\ out.local = {}
            /\ \E m : /\ out.sent = <<m>>
                      /\ \/ m.type = "cascade.parity_request"
                         \/ m.type = "verify.tag" /\ m.bits = bob.cascade.bits
  PROVE  SessionSound'
<1>1. bob' = out.self /\ alice' = alice /\ rt' = rt
  BY DEF BobDoes
<1>2. /\ Controller(bob'.cascade) /\ bob'.cascade.bits = bob.cascade.bits
      /\ bob'.cascade.leaked = bob.cascade.leaked
  BY <1>1 DEF KeyKept
<1>3. /\ DOMAIN bob' = BobFields
      /\ bob'.detections = bob.detections /\ bob'.siftingComplete = bob.siftingComplete
      /\ bob'.slots = bob.slots /\ bob'.bits = bob.bits /\ bob'.sample = bob.sample
      /\ bob'.errors = bob.errors /\ bob'.qberComplete = bob.qberComplete
      /\ bob'.finalKey = bob.finalKey /\ bob'.privacyComplete = bob.privacyComplete
  BY <1>1 DEF BobMoved
<1>4. SessionAgents'
  <2>1. SessionAgents /\ Len(bob.cascade.bits) <= NumSlots
    BY IsController DEF SessionSound, SessionAgents, Reconciling
  <2>2. Len(bob'.cascade.bits) <= NumSlots
    BY <1>2, <2>1
  <2>. QED
    BY <1>1, <1>2, <1>3, <2>1, <2>2 DEF SessionAgents
<1>5. Reconciling' /\ Open'
  BY <1>1, <1>2, <1>3 DEF Reconciling, Open
<1>6. SlotsMatch'
  <2>1. SlotsMatch
    BY DEF SessionSound, SessionTargets
  <2>2. PICK q : q = bob.slots
    OBVIOUS
  <2>3. Aligned(q)
    BY <2>1, <2>2 DEF SlotsMatch
  <2>4. Aligned(q)'
    BY <1>1, <1>3, <2>3, AlignedStays
  <2>5. Aligned(bob.slots)'
    BY <1>3, <2>2, <2>4 DEF Aligned
  <2>. QED
    BY <1>1, <1>3, <2>1, <2>5 DEF SlotsMatch
<1>7. SessionTargets'
  BY <1>5, <1>6, OpenTargets
<1>8. ASSUME NEW m, \/ m.type = "cascade.parity_request"
                    \/ m.type = "verify.tag" /\ m.bits = bob.cascade.bits
      PROVE  AtAlice(m)' /\ m.type \in {"cascade.parity_request", "verify.tag"}
  BY <1>2, <1>5, <1>8 DEF AtAlice
<1>9. EventHolds("cascade.next_request")'
  BY <1>5 DEF EventHolds
<1>10. CASE toAlice = <<>>
  <2>1. SessionTurn'
    BY <1>8, <1>9, <1>10, BobPasses
  <2>. QED
    BY <1>4, <1>7, <2>1 DEF SessionSound
<1>11. CASE Result(toAlice)
  <2>1. PICK r : toAlice = <<r>> /\ r.type = "estimate.result" /\ AtAlice(r)
    BY <1>11 DEF Result
  <2>2. AtAlice(r)'
    BY <1>1, <1>3, <2>1 DEF AtAlice
  <2>3. SessionTurn'
    BY <1>8, <1>9, <2>1, <2>2, BobPassesResult
  <2>. QED
    BY <1>4, <1>7, <2>3 DEF SessionSound
<1>. QED
  BY <1>10, <1>11

(* Bob polls his controller, and asks or sends the tag.                    *)
LEMMA CascadeNextRequestKeeps ==
  ASSUME SessionSound, Reconciling, toAlice = <<>> \/ Result(toAlice), toBob' = <<>>,
         NEW left, left \ {"bob.start"} = {}, NEW out \in CascadeNextRequest,
         BobDoes(out, left)
  PROVE  SessionSound'
<1>1. PICK c : c = bob.cascade
  OBVIOUS
<1>2. Controller(c) /\ c # NoController /\ DOMAIN bob = BobFields
  BY <1>1, IsController DEF Reconciling, SessionSound, SessionAgents
<1>3. ASSUME NEW d, KeyKept(c, d)
      PROVE  LET b == [bob EXCEPT !.cascade = d]
             IN  BobMoved(b) /\ KeyKept(bob.cascade, b.cascade) /\ b.cascade.bits = c.bits
  BY <1>1, <1>2, <1>3 DEF BobMoved, BobFields, KeyKept
<1>4. BobMoved(bob) /\ KeyKept(bob.cascade, bob.cascade) /\ bob.cascade.bits = c.bits
  BY <1>1, <1>2 DEF BobMoved, KeyKept, Controller
<1>5. ASSUME NEW b, BobMoved(b), KeyKept(bob.cascade, b.cascade), b.cascade.bits = c.bits,
             out \in StartVerification(b)
      PROVE  SessionSound'
  <2>1. PICK m : m = [type |-> "verify.tag", bits |-> b.cascade.bits]
    OBVIOUS
  <2>2. out.self = b /\ out.sent = <<m>> /\ out.local = {}
    BY <1>5, <2>1 DEF StartVerification, Outcome
  <2>3. m.type = "verify.tag" /\ m.bits = bob.cascade.bits
    BY <1>1, <1>5, <2>1
  <2>. QED
    BY <1>5, <2>2, <2>3, BobMovesOn
<1>6. CASE out \in StartVerification(bob)
  BY <1>4, <1>5, <1>6
<1>7. CASE out = Outcome(bob, <<>>, {"cascade.next_request"})
  <2>1. out.self = bob /\ out.sent = <<>> /\ out.local = {"cascade.next_request"}
    BY <1>7 DEF Outcome
  <2>. QED
    BY <1>4, <2>1, BobMovesOn
<1>8. CASE out \in AskForParity(c)
  <2>1. PICK d, m : /\ d = NextBlock(c)
                    /\ m = [type |-> "cascade.parity_request", id |-> d.asked,
                            indices |-> QueryIndices(d.outstanding)]
    OBVIOUS
  <2>2. out = Outcome([bob EXCEPT !.cascade = d], <<m>>, {})
    BY <1>8, <2>1 DEF AskForParity
  <2>3. out.self = [bob EXCEPT !.cascade = d] /\ out.sent = <<m>> /\ out.local = {}
    BY <2>2 DEF Outcome
  <2>4. KeyKept(c, d)
    BY <1>2, <2>1, NextKeeps
  <2>5. m.type = "cascade.parity_request"
    BY <2>1
  <2>6. BobMoved(out.self) /\ KeyKept(bob.cascade, out.self.cascade)
    BY <1>3, <2>3, <2>4
  <2>. QED
    BY <2>3, <2>5, <2>6, BobMovesOn
<1>9. CASE out \in StartVerification([bob EXCEPT !.cascade = NextPass(c, <<>>)])
  <2>1. PICK d : d = NextPass(c, <<>>)
    OBVIOUS
  <2>2. KeyKept(c, d)
    BY <1>2, <2>1, NextKeeps
  <2>. QED
    BY <1>3, <1>5, <1>9, <2>1, <2>2
<1>10. CASE out \in BeginPass(c)
  <2>1. PICK shuffled : out = Outcome([bob EXCEPT !.cascade = NextPass(c, shuffled)], <<>>,
                                      {"cascade.next_request"})
    BY <1>10 DEF BeginPass
  <2>2. PICK d : d = NextPass(c, shuffled)
    OBVIOUS
  <2>3. /\ out.self = [bob EXCEPT !.cascade = d] /\ out.sent = <<>>
        /\ out.local = {"cascade.next_request"}
    BY <2>1, <2>2 DEF Outcome
  <2>4. KeyKept(c, d)
    BY <1>2, <2>2, NextKeeps
  <2>5. BobMoved(out.self) /\ KeyKept(bob.cascade, out.self.cascade)
    BY <1>3, <2>3, <2>4
  <2>. QED
    BY <2>3, <2>5, BobMovesOn
<1>. QED
  BY <1>1, <1>2, <1>6, <1>7, <1>8, <1>9, <1>10, Zenon DEF CascadeNextRequest

(* The slots match as long as they and the detections stay.                *)
LEMMA SlotsStay ==
  ASSUME SlotsMatch, alice' = alice, bob'.detections = bob.detections, bob'.slots = bob.slots,
         bob'.siftingComplete = bob.siftingComplete, bob'.qberComplete = bob.qberComplete
  PROVE  SlotsMatch'
<1>1. PICK q : q = bob.slots
  OBVIOUS
<1>2. Aligned(q)
  BY <1>1 DEF SlotsMatch
<1>3. Aligned(q)'
  BY <1>2, AlignedStays
<1>4. Aligned(bob.slots)'
  BY <1>1, <1>3 DEF Aligned
<1>. QED
  BY <1>4 DEF SlotsMatch

(* An answer of Alice's reaches Bob: he has counted it, too.               *)
LEMMA OnParityResponseKeeps ==
  ASSUME SessionSound, NEW m, m.type = "cascade.parity_response", AtBob(m),
         toAlice = <<>>, toBob' = <<>>, NEW left, left \ {"bob.start"} = {},
         NEW out \in OnParityResponse(m), BobDoes(out, left)
  PROVE  SessionSound'
<1>1. CASE out \in Raise(bob)
  BY <1>1, BobRaises
<1>2. CASE out = Outcome([bob EXCEPT !.cascade = ApplyParityResponse(@, m.parity)], <<>>,
                         {"cascade.next_request"})
  <2>1. PICK c, d : c = bob.cascade /\ d = ApplyParityResponse(c, m.parity)
    OBVIOUS
  <2>2. /\ bob' = [bob EXCEPT !.cascade = d] /\ alice' = alice /\ rt' = rt
        /\ out.sent = <<>> /\ out.local = {"cascade.next_request"}
    BY <1>2, <2>1 DEF BobDoes, Outcome
  <2>3. Open /\ Controller(c) /\ alice.leaked <= c.leaked + 1
    BY <2>1 DEF AtBob
  <2>4. Answered(c, d)
    BY <2>1, <2>3, ApplyParityFacts
  <2>5. /\ DOMAIN bob' = BobFields /\ bob'.cascade = d
        /\ bob'.detections = bob.detections /\ bob'.siftingComplete = bob.siftingComplete
        /\ bob'.slots = bob.slots /\ bob'.bits = bob.bits /\ bob'.sample = bob.sample
        /\ bob'.errors = bob.errors /\ bob'.qberComplete = bob.qberComplete
        /\ bob'.finalKey = bob.finalKey /\ bob'.privacyComplete = bob.privacyComplete
    BY <2>2 DEF SessionSound, SessionAgents, BobFields
  <2>6. Controller(d) /\ Len(d.bits) = Len(c.bits) /\ alice.leaked <= d.leaked
    BY <2>3, <2>4, SameLength DEF Controller, Answered
  <2>7. SessionAgents'
    <3>1. SessionAgents /\ Len(c.bits) <= NumSlots
      BY <2>1, <2>3, IsController DEF SessionSound, SessionAgents
    <3>2. Len(d.bits) <= NumSlots
      BY <2>6, <3>1
    <3>. QED
      BY <2>2, <2>5, <2>6, <3>1, <3>2 DEF SessionAgents
  <2>8. Open' /\ Reconciling'
    BY <2>2, <2>3, <2>5, <2>6 DEF Open, Reconciling
  <2>9. SlotsMatch'
    BY <2>2, <2>5, SlotsStay DEF SessionSound, SessionTargets
  <2>10. SessionTargets'
    BY <2>8, <2>9, OpenTargets
  <2>11. EventHolds("cascade.next_request")'
    BY <2>8 DEF EventHolds
  <2>. QED
    BY <2>2, <2>7, <2>10, <2>11, BobPasses DEF SessionSound
<1>. QED
  BY <1>1, <1>2 DEF OnParityResponse

(* The length of the final key is what Alice's answers and the tag leave.  *)
LEMMA KeyLength ==
  ASSUME KeyAssumption, SessionAssumption, SessionAgents, Reconciling, NEW len,
         len = FinalKeyLength, ~(len < MinFinalKey)
  PROVE  /\ len \in Nat \ {0}
         /\ len <= Len(bob.cascade.bits) - alice.leaked - TagLen - SecurityMargin
<1>. DEFINE n == Len(bob.cascade.bits)
            size == Len(bob.sample)
            cost == PhaseErrorCost(bob.errors, size, n)
            leaked == bob.cascade.leaked
            answered == alice.leaked
<1>1. n \in 0..NumSlots /\ NumSlots \in Nat
  BY IsController, LengthBound DEF Reconciling, Controller, SessionAgents, SessionAssumption
<1>2. cost \in Nat
  <2>1. \A k, s, errors \in 0..NumSlots : PhaseErrorCost(errors, s, k) \in Nat
    BY DEF SessionAssumption
  <2>2. bob.errors \in 0..NumSlots /\ size \in 0..NumSlots
    BY DEF SessionAgents
  <2>. HIDE DEF n, size
  <2>. QED
    BY <1>1, <2>1, <2>2
<1>3. TagLen \in Nat /\ SecurityMargin \in Int /\ MinFinalKey \in Nat \ {0}
  BY DEF KeyAssumption
<1>4. leaked \in Nat /\ answered \in Nat /\ answered <= leaked
  BY DEF Reconciling, Controller, SessionAgents
<1>5. len = Greatest(0, n - cost - (size + leaked + TagLen) - SecurityMargin)
  BY DEF FinalKeyLength, RevealedBits
<1>6. n \in Nat /\ size \in Nat
  <2>1. size \in 0..NumSlots
    BY DEF SessionAgents
  <2>. HIDE DEF n, size
  <2>. QED
    BY <1>1, <2>1
<1>. HIDE DEF n, size, cost, leaked, answered
<1>. DEFINE budget == n - cost - (size + leaked + TagLen) - SecurityMargin
<1>7. budget \in Int /\ budget <= n - answered - TagLen - SecurityMargin
  BY <1>2, <1>3, <1>4, <1>6
<1>. HIDE DEF budget
<1>8. len = IF 0 > budget THEN 0 ELSE budget
  BY <1>5 DEF Greatest, budget
<1>9. len \in Nat \ {0} /\ len <= budget
  BY <1>3, <1>7, <1>8
<1>10. len <= n - answered - TagLen - SecurityMargin
  BY <1>3, <1>4, <1>6, <1>7, <1>9
<1>. QED
  BY <1>9, <1>10 DEF n, answered

(* Bob hashes his key down to what the disclosures leave.                  *)
LEMMA OnVerifyResultKeeps ==
  ASSUME KeyAssumption, SessionAssumption, SessionSound, NEW m, m.type = "verify.result",
         AtBob(m), toAlice = <<>>, toBob' = <<>>, NEW left, left \ {"bob.start"} = {},
         NEW out \in OnVerifyResult(m), BobDoes(out, left)
  PROVE  SessionSound'
<1>1. ASSUME NEW b, out = Outcome(b, <<>>, {}) \/ out \in Raise(b), BobMarked(b)
      PROVE  SessionSound'
  <2>1. out.self = b /\ out.sent = <<>> /\ out.local = {}
    BY <1>1 DEF Outcome, Raise
  <2>. QED
    BY <1>1, <2>1, BobSays
<1>2. DOMAIN bob = BobFields
  BY DEF SessionSound, SessionAgents
<1>3. CASE out = Outcome([bob EXCEPT !.verified = "no", !.aborted = "verification"], <<>>, {})
  <2>1. BobMarked([bob EXCEPT !.verified = "no", !.aborted = "verification"])
    BY <1>2 DEF BobMarked, BobMoved, BobFields
  <2>. QED
    BY <1>1, <1>3, <2>1
<1>4. CASE m.verified /\ out \in StartPrivacyAmplification([bob EXCEPT !.verified = "yes"])
  <2>1. PICK b, len : b = [bob EXCEPT !.verified = "yes"] /\ len = FinalKeyLength
    OBVIOUS
  <2>2. BobMarked(b) /\ DOMAIN b = BobFields
    BY <1>2, <2>1 DEF BobMarked, BobMoved, BobFields
  <2>3. Reconciling /\ SameBits
    BY <1>4 DEF AtBob
  <2>4. CASE out \in Raise(b)
    BY <1>1, <2>2, <2>4
  <2>5. CASE out = Outcome([b EXCEPT !.aborted = "short key"], <<>>, {})
    <3>1. BobMarked([b EXCEPT !.aborted = "short key"])
      BY <2>2 DEF BobMarked, BobMoved, BobFields
    <3>. QED
      BY <1>1, <2>5, <3>1
  <2>6. CASE /\ ~(len < MinFinalKey)
             /\ out = Outcome([b EXCEPT !.finalKey = [bits |-> b.cascade.bits, len |-> len]],
                              <<[type |-> "privacy.seed", inputLen |-> Len(b.cascade.bits),
                                 len |-> len]>>, {})
    <3>1. PICK key, n : /\ key = [bits |-> b.cascade.bits, len |-> len]
                        /\ n = [type |-> "privacy.seed", inputLen |-> Len(b.cascade.bits),
                                len |-> len]
      OBVIOUS
    <3>2. /\ bob' = [b EXCEPT !.finalKey = key] /\ alice' = alice /\ rt' = rt
          /\ out.sent = <<n>> /\ out.local = {}
      BY <2>6, <3>1 DEF BobDoes, Outcome
    <3>3. /\ DOMAIN bob' = BobFields /\ bob'.cascade = bob.cascade
          /\ bob'.detections = bob.detections /\ bob'.siftingComplete = bob.siftingComplete
          /\ bob'.slots = bob.slots /\ bob'.bits = bob.bits /\ bob'.sample = bob.sample
          /\ bob'.errors = bob.errors /\ bob'.qberComplete = bob.qberComplete
          /\ bob'.finalKey = key /\ bob'.privacyComplete = bob.privacyComplete
          /\ b.cascade = bob.cascade
      BY <2>2, <3>2 DEF BobMarked, BobMoved, BobFields
    <3>4. SessionAgents'
      BY <3>2, <3>3 DEF SessionSound, SessionAgents
    <3>5. SlotsMatch'
      BY <3>2, <3>3, SlotsStay DEF SessionSound, SessionTargets
    <3>6. KeysAgree'
      BY <2>3, <3>2, <3>3 DEF KeysAgree, Reconciling, Open
    <3>7. len <= Len(bob.cascade.bits) - alice.leaked - TagLen - SecurityMargin
      BY <2>1, <2>3, <2>6, KeyLength DEF SessionSound
    <3>8. DisclosureSubtracted'
      <4>1. bob'.finalKey.len = len
        BY <3>1, <3>3
      <4>. QED
        BY <3>2, <3>3, <3>7, <4>1 DEF DisclosureSubtracted
    <3>9. AtAlice(n)'
      <4>1. SameBits'
        BY <2>3, <3>2, <3>3 DEF SameBits
      <4>2. bob'.finalKey = [bits |-> bob'.cascade.bits, len |-> n.len] /\ n.type = "privacy.seed"
        BY <3>1, <3>3
      <4>. QED
        BY <4>1, <4>2 DEF AtAlice
    <3>10. SessionTargets'
      BY <3>5, <3>6, <3>8 DEF SessionTargets
    <3>. QED
      BY <3>2, <3>4, <3>9, <3>10, BobPasses DEF SessionSound
  <2>. QED
    BY <1>4, <2>1, <2>4, <2>5, <2>6 DEF StartPrivacyAmplification
<1>. QED
  BY <1>3, <1>4 DEF OnVerifyResult

(* Bob completes only if Alice's key is as long as his.                    *)
LEMMA OnPrivacyDoneKeeps ==
  ASSUME SessionSound, NEW m, m.type = "privacy.done", AtBob(m), toAlice = <<>>,
         toBob' = <<>>, NEW left, left \ {"bob.start"} = {},
         NEW out \in OnPrivacyDone(m), BobDoes(out, left)
  PROVE  SessionSound'
<1>1. DOMAIN bob = BobFields
  BY DEF SessionSound, SessionAgents
<1>2. CASE out = Outcome([bob EXCEPT !.aborted = "length mismatch"], <<>>, {})
  <2>1. /\ out.self = [bob EXCEPT !.aborted = "length mismatch"] /\ out.sent = <<>>
        /\ out.local = {}
    BY <1>2 DEF Outcome
  <2>2. BobMarked(out.self)
    BY <1>1, <2>1 DEF BobMarked, BobMoved, BobFields
  <2>. QED
    BY <2>1, <2>2, BobSays
<1>3. CASE /\ m.len = bob.finalKey.len
           /\ out = Outcome([bob EXCEPT !.privacyComplete = TRUE], <<>>, {})
  <2>1. /\ bob' = [bob EXCEPT !.privacyComplete = TRUE] /\ alice' = alice /\ rt' = rt
        /\ out.sent = <<>> /\ out.local = {}
    BY <1>3 DEF BobDoes, Outcome
  <2>2. /\ DOMAIN bob' = BobFields /\ bob'.cascade = bob.cascade
        /\ bob'.detections = bob.detections /\ bob'.siftingComplete = bob.siftingComplete
        /\ bob'.slots = bob.slots /\ bob'.bits = bob.bits /\ bob'.sample = bob.sample
        /\ bob'.errors = bob.errors /\ bob'.qberComplete = bob.qberComplete
        /\ bob'.finalKey = bob.finalKey
    BY <1>1, <2>1 DEF BobFields
  <2>3. SessionAgents'
    BY <2>1, <2>2 DEF SessionSound, SessionAgents
  <2>4. SlotsMatch'
    BY <2>1, <2>2, SlotsStay DEF SessionSound, SessionTargets
  <2>5. KeysAgree'
    <3>1. KeysAgree /\ alice.finalKey.len = bob.finalKey.len
      BY <1>3 DEF SessionSound, SessionTargets, AtBob
    <3>. QED
      BY <2>1, <2>2, <3>1 DEF KeysAgree
  <2>6. DisclosureSubtracted'
    BY <2>1, <2>2 DEF SessionSound, SessionTargets, DisclosureSubtracted
  <2>. QED
    BY <2>1, <2>3, <2>4, <2>5, <2>6, BobPasses DEF SessionSound, SessionTargets
<1>. QED
  BY <1>2, <1>3 DEF OnPrivacyDone

(* Every message that may reach Bob has been dealt with.                   *)
LEMMA BobReceivesKeeps ==
  ASSUME KeyAssumption, SessionAssumption, SessionSound, BobReceives
  PROVE  SessionSound'
<1>1. PICK out \in BobOnMessage(Head(toBob)) : BobDoes(out, local)
  BY DEF BobReceives
<1>2. toBob # <<>> /\ toBob' = Tail(toBob)
  BY DEF BobReceives
<1>3. SessionAgents /\ SessionTargets /\ toAlice = <<>> /\ local \ {"bob.start"} = {}
  BY <1>2 DEF SessionSound, SessionTurn, Due
<1>4. ASSUME NEW m, Head(toBob) = m, m.type = "sift.accepted", AtBob(m)
      PROVE  /\ SessionAgents' /\ SessionTargets' /\ Due' = {} /\ toAlice' = <<>>
             /\ \A n : n.type \in {"estimate.sample", "abort"} /\ AtBob(n) => AtBob(n)'
  <2>1. out \in OnSiftAccepted(m)
    BY <1>1, <1>4 DEF BobOnMessage
  <2>2. /\ SessionAgents' /\ SessionTargets' /\ out.sent = <<>> /\ out.local = {}
        /\ \A n : n.type \in {"estimate.sample", "abort"} /\ AtBob(n) => AtBob(n)'
    BY <1>1, <1>3, <1>4, <2>1, OnSiftAcceptedFacts
  <2>3. local' = local \cup {}
    BY <1>1, <2>2 DEF BobDoes
  <2>4. PICK t \in Transmitted(toAlice, out.sent) : toAlice' = t.queue
    BY <1>1 DEF BobDoes
  <2>5. toAlice' = <<>>
    BY <1>3, <2>2, <2>4, Forwarded, Joined
  <2>. QED
    BY <1>3, <2>2, <2>3, <2>5 DEF Due
<1>5. ASSUME NEW m, NEW n, toBob = <<m, n>>, m.type = "sift.accepted",
             n.type \in {"estimate.sample", "abort"}, AtBob(m), AtBob(n)
      PROVE  SessionSound'
  <2>1. Head(toBob) = m /\ toBob' = <<n>>
    BY <1>2, <1>5
  <2>2. SessionAgents' /\ SessionTargets' /\ Due' = {} /\ toAlice' = <<>> /\ AtBob(n)'
    BY <1>4, <1>5, <2>1
  <2>3. SessionTurn'
    BY <2>1, <2>2 DEF SessionTurn
  <2>. QED
    BY <2>2, <2>3 DEF SessionSound
<1>6. ASSUME NEW m, toBob = <<m>>, AtBob(m) PROVE SessionSound'
  <2>1. Head(toBob) = m /\ toBob' = <<>> /\ out \in BobOnMessage(m)
    BY <1>1, <1>2, <1>6
  <2>2. CASE m.type = "sift.accepted"
    <3>1. SessionAgents' /\ SessionTargets' /\ Due' = {} /\ toAlice' = <<>>
      BY <1>4, <1>6, <2>1, <2>2
    <3>. QED
      BY <2>1, <3>1 DEF SessionSound, SessionTurn
  <2>3. CASE m.type = "quantum.done"
    <3>1. out \in OnQuantumDone /\ Unsifted
      BY <1>6, <2>1, <2>3 DEF BobOnMessage, AtBob
    <3>. QED
      BY <1>1, <1>3, <2>1, <3>1, OnQuantumDoneKeeps
  <2>4. CASE m.type = "estimate.sample"
    <3>1. out \in OnEstimateSample(m)
      BY <2>1, <2>4 DEF BobOnMessage
    <3>. QED
      BY <1>1, <1>3, <1>6, <2>1, <2>4, <3>1, OnEstimateSampleKeeps
  <2>5. CASE m.type = "cascade.parity_response"
    <3>1. out \in OnParityResponse(m)
      BY <2>1, <2>5 DEF BobOnMessage
    <3>. QED
      BY <1>1, <1>3, <1>6, <2>1, <2>5, <3>1, OnParityResponseKeeps
  <2>6. CASE m.type = "verify.result"
    <3>1. out \in OnVerifyResult(m)
      BY <2>1, <2>6 DEF BobOnMessage
    <3>. QED
      BY <1>1, <1>3, <1>6, <2>1, <2>6, <3>1, OnVerifyResultKeeps
  <2>7. CASE m.type = "privacy.done"
    <3>1. out \in OnPrivacyDone(m)
      BY <2>1, <2>7 DEF BobOnMessage
    <3>. QED
      BY <1>1, <1>3, <1>6, <2>1, <2>7, <3>1, OnPrivacyDoneKeeps
  <2>8. CASE m.type = "abort"
    <3>1. out = Outcome([bob EXCEPT !.aborted = "peer"], <<>>, {})
      BY <2>1, <2>8 DEF BobOnMessage
    <3>2. /\ out.self = [bob EXCEPT !.aborted = "peer"] /\ out.sent = <<>> /\ out.local = {}
      BY <3>1 DEF Outcome
    <3>3. BobMarked(out.self)
      BY <1>3, <3>2 DEF BobMarked, BobMoved, BobFields, SessionAgents
    <3>. QED
      BY <1>1, <1>3, <2>1, <3>2, <3>3, BobSays
  <2>. QED
    BY <1>6, <2>2, <2>3, <2>4, <2>5, <2>6, <2>7, <2>8 DEF AtBob
<1>. QED
  BY <1>2, <1>5, <1>6 DEF SessionSound, SessionTurn

(* Nothing is sent, and the same event is due.                             *)
LEMMA TurnStays ==
  ASSUME SessionTurn, Due' = Due, toAlice' = toAlice, toBob' = toBob,
         \A e : EventHolds(e) => EventHolds(e)', \A m : AtAlice(m) => AtAlice(m)',
         \A m : AtBob(m) => AtBob(m)'
  PROVE  SessionTurn'
<1>1. Result(toAlice) => Result(toAlice)'
  BY DEF Result
<1>. QED
  BY <1>1 DEF SessionTurn

(* Such a step keeps the invariant.                                        *)
LEMMA SteadyTurn ==
  ASSUME SessionSound, Steady, DOMAIN rt' = DOMAIN rt, Due' = Due, toAlice' = toAlice,
         toBob' = toBob
  PROVE  SessionSound'
<1>1. /\ SessionAgents' /\ SessionTargets'
      /\ \A e : EventHolds(e) => EventHolds(e)'
      /\ \A m : AtAlice(m) => AtAlice(m)'
      /\ \A m : AtBob(m) => AtBob(m)'
  BY SteadyKeeps DEF SessionSound
<1>2. SessionTurn'
  BY <1>1, TurnStays DEF SessionSound
<1>. QED
  BY <1>1, <1>2 DEF SessionSound

(* So does one in which neither agent changes.                             *)
LEMMA Idle ==
  ASSUME SessionSound, alice' = alice, bob' = bob, DOMAIN rt' = DOMAIN rt, Due' = Due,
         toAlice' = toAlice, toBob' = toBob
  PROVE  SessionSound'
<1>1. Steady
  BY DEF Steady, SessionSound, SessionAgents
<1>. QED
  BY <1>1, SteadyTurn

(* Bob's start does nothing; his other events are his handlers'.           *)
LEMMA BobEventsKeep ==
  ASSUME SessionAssumption, SessionSound, BobStarts \/ SiftingStarts \/ CascadeRequestIsDue
  PROVE  SessionSound'
<1>1. CASE BobStarts
  <2>1. PICK out : out = Outcome(bob, <<>>, {}) /\ BobDoes(out, local \ {"bob.start"})
    BY <1>1 DEF BobStarts, BobEvent
  <2>2. out.self = bob /\ out.sent = <<>> /\ out.local = {}
    BY <2>1 DEF Outcome
  <2>3. /\ bob' = bob /\ alice' = alice /\ rt' = rt /\ toBob' = toBob
        /\ local' = local \ {"bob.start"}
    BY <1>1, <2>1, <2>2 DEF BobDoes, BobStarts, BobEvent
  <2>4. PICK t \in Transmitted(toAlice, out.sent) : toAlice' = t.queue
    BY <2>1 DEF BobDoes
  <2>5. toAlice' = toAlice \o <<>>
    BY <2>2, <2>4, Forwarded
  <2>6. toAlice = <<>> \/ (\E m : toAlice = <<m>>) \/ \E m, n : toAlice = <<m, n>>
    BY DEF SessionSound, SessionTurn, Result
  <2>7. toAlice' = toAlice
    BY <2>5, <2>6
  <2>8. Due' = Due
    BY <2>3 DEF Due
  <2>. QED
    BY <2>3, <2>7, <2>8, Idle
<1>2. CASE SiftingStarts
  <2>1. PICK out \in StartSifting : BobDoes(out, local \ {"sifting.start"})
    BY <1>2 DEF SiftingStarts, BobEvent
  <2>2. "sifting.start" \in local /\ toBob' = toBob
    BY <1>2 DEF SiftingStarts, BobEvent
  <2>3. /\ (local \ {"sifting.start"}) \ {"bob.start"} = {} /\ EventHolds("sifting.start")
        /\ toBob = <<>>
        /\ toAlice = <<>> \/ (Result(toAlice) /\ "sifting.start" = "cascade.next_request")
    BY <2>2, DueEvent
  <2>4. Unsifted /\ toAlice = <<>> /\ toBob' = <<>>
    BY <2>2, <2>3 DEF EventHolds
  <2>. QED
    BY <2>1, <2>3, <2>4, StartSiftingKeeps
<1>3. CASE CascadeRequestIsDue
  <2>1. PICK out \in CascadeNextRequest : BobDoes(out, local \ {"cascade.next_request"})
    BY <1>3 DEF CascadeRequestIsDue, BobEvent
  <2>2. "cascade.next_request" \in local /\ toBob' = toBob
    BY <1>3 DEF CascadeRequestIsDue, BobEvent
  <2>3. /\ (local \ {"cascade.next_request"}) \ {"bob.start"} = {}
        /\ EventHolds("cascade.next_request") /\ toBob = <<>>
        /\ toAlice = <<>> \/ Result(toAlice)
    BY <2>2, DueEvent
  <2>4. Reconciling /\ toBob' = <<>>
    BY <2>2, <2>3 DEF EventHolds
  <2>. QED
    BY <2>1, <2>3, <2>4, CascadeNextRequestKeeps
<1>. QED
  BY <1>1, <1>2, <1>3

(* The source reports only before anything is sifted.                      *)
LEMMA PreparationReportKeeps ==
  ASSUME SessionSound, PreparationReport PROVE SessionSound'
<1>1. /\ alice' = [alice EXCEPT !.prepared[emitted + 1] = Prepared[emitted + 1]]
      /\ bob' = bob /\ rt' = rt /\ local' = local /\ toAlice' = toAlice /\ toBob' = toBob
      /\ "quantum.done" \in local
  BY DEF PreparationReport
<1>2. /\ EventHolds("quantum.done") /\ toBob = <<>> /\ toAlice = <<>>
      /\ Due \subseteq {"quantum.done"}
  BY <1>1, DueEvent DEF Due
<1>3. /\ Unsifted /\ Due' = {"quantum.done"}
  BY <1>1, <1>2 DEF EventHolds, Due
<1>4. /\ DOMAIN alice' = AliceFields /\ alice'.slots = alice.slots
      /\ alice'.qberComplete = alice.qberComplete
      /\ alice'.leaked = alice.leaked /\ alice'.finalKey = alice.finalKey
  BY <1>1 DEF SessionSound, SessionAgents, AliceFields
<1>5. SessionAgents'
  BY <1>1, <1>4 DEF SessionSound, SessionAgents
<1>6. Unsifted' /\ Open'
  BY <1>1, <1>3, <1>4 DEF Unsifted, Early, Open
<1>7. SlotsMatch'
  <2>1. DOMAIN bob'.slots = {} /\ ~bob'.siftingComplete
    BY <1>6, EmptyDomain DEF Unsifted
  <2>. QED
    BY <2>1 DEF SlotsMatch, Aligned
<1>8. SessionTargets'
  BY <1>6, <1>7, OpenTargets
<1>9. EventHolds("quantum.done")'
  BY <1>6 DEF EventHolds
<1>10. SessionTurn'
  BY <1>1, <1>2, <1>3, <1>9 DEF SessionTurn
<1>. QED
  BY <1>5, <1>8, <1>10 DEF SessionSound

(* A sequence with one member more                                         *)
LEMMA AppendFacts ==
  ASSUME NEW q, IsSequence(q), NEW x
  PROVE  LET r == Append(q, x)
         IN  /\ IsSequence(r) /\ DOMAIN r = DOMAIN q \cup {Len(q) + 1}
             /\ r[Len(q) + 1] = x /\ Len(q) + 1 \notin DOMAIN q
             /\ \A k \in DOMAIN q : r[k] = q[k]
<1>1. PICK S : S = ToSet(q) \cup {x}
  OBVIOUS
<1>2. q \in Seq(S) /\ x \in S
  <2>1. q \in Seq(ToSet(q))
    BY DEF IsSequence
  <2>2. PICK T : T = ToSet(q)
    OBVIOUS
  <2>3. q \in Seq(T) /\ S = T \cup {x}
    BY <1>1, <2>1, <2>2
  <2>. QED
    BY <2>3
<1>3. Append(q, x) \in Seq(S) /\ Len(q) \in Nat /\ DOMAIN q = 1..Len(q)
  BY <1>2
<1>4. IsSequence(Append(q, x))
  BY <1>3, SequenceFacts
<1>. QED
  BY <1>2, <1>3, <1>4

(* A report of a slot that has none is kept.                               *)
LEMMA DetectionsGrow ==
  ASSUME NEW q, DetectionsDiffer(q), NEW d, d.slot \in 1..NumSlots,
         ~\E i \in DOMAIN q : q[i].slot = d.slot
  PROVE  DetectionsDiffer(Append(q, d)) /\ \A k \in DOMAIN q :
           k \in DOMAIN Append(q, d) /\ Append(q, d)[k] = q[k]
<1>1. PICK r, n : r = Append(q, d) /\ n = Len(q) + 1
  OBVIOUS
<1>2. /\ IsSequence(r) /\ DOMAIN r = DOMAIN q \cup {n} /\ r[n] = d /\ n \notin DOMAIN q
      /\ \A k \in DOMAIN q : r[k] = q[k]
  BY <1>1, AppendFacts DEF DetectionsDiffer
<1>3. DetectionsDiffer(r)
  BY <1>2 DEF DetectionsDiffer
<1>. QED
  BY <1>1, <1>2, <1>3

(* A late report changes none of the detections there are.                 *)
LEMMA DetectorReportKeeps ==
  ASSUME SessionSound, DetectorReport
  PROVE  SessionSound' /\ (Unsifted => Unsifted')
<1>1. PICK r : bob' = RecordDetection(r)
  BY DEF DetectorReport
<1>2. /\ alice' = alice /\ rt' = rt /\ local' = local /\ toAlice' = toAlice /\ toBob' = toBob
  BY DEF DetectorReport
<1>3. SessionAgents /\ SessionTargets
  BY DEF SessionSound
<1>4. Steady
  <2>1. PICK slot : slot = AssignSlot(r.time)
    OBVIOUS
  <2>2. slot = NoSlot \/ slot \in 1..NumSlots
    BY <2>1, Zenon DEF AssignSlot
  <2>3. CASE bob' = [bob EXCEPT !.unreadable = TRUE]
    BY <1>2, <1>3, <2>3 DEF Steady, SessionAgents, BobFields
  <2>4. CASE bob' = bob
    BY <1>2, <1>3, <2>4 DEF Steady, SessionAgents
  <2>5. CASE /\ slot # NoSlot /\ ~\E i \in DOMAIN bob.detections : bob.detections[i].slot = slot
             /\ bob' = [bob EXCEPT !.detections =
                                Append(@, [slot |-> slot, basis |-> r.basis, bit |-> r.bit])]
    <3>1. PICK d : d = [slot |-> slot, basis |-> r.basis, bit |-> r.bit]
      OBVIOUS
    <3>2. d.slot = slot /\ slot \in 1..NumSlots
      BY <2>2, <2>5, <3>1
    <3>3. PICK q : q = bob.detections
      OBVIOUS
    <3>4. /\ DetectionsDiffer(Append(q, d))
          /\ \A k \in DOMAIN q : k \in DOMAIN Append(q, d) /\ Append(q, d)[k] = q[k]
      <4>1. DetectionsDiffer(q) /\ ~\E i \in DOMAIN q : q[i].slot = d.slot
        BY <1>3, <2>5, <3>2, <3>3 DEF SessionAgents
      <4>. QED
        BY <3>2, <4>1, DetectionsGrow
    <3>5. bob' = [bob EXCEPT !.detections = Append(q, d)]
      BY <2>5, <3>1, <3>3
    <3>6. bob'.detections = Append(q, d)
      BY <1>3, <3>5 DEF SessionAgents, BobFields
    <3>7. DetectionsDiffer(bob'.detections) /\ \A k \in DOMAIN bob.detections :
               k \in DOMAIN bob'.detections /\ bob'.detections[k] = bob.detections[k]
      BY <3>3, <3>4, <3>6
    <3>. QED
      BY <1>2, <1>3, <3>5, <3>7 DEF Steady, SessionAgents, BobFields
  <2>. QED
    BY <1>1, <2>1, <2>3, <2>4, <2>5, Zenon DEF RecordDetection
<1>5. Due' = Due
  BY <1>2 DEF Due
<1>6. SessionSound'
  BY <1>2, <1>4, <1>5, SteadyTurn
<1>7. Unsifted => Unsifted'
  BY <1>2, <1>3, <1>4, SteadyKeeps
<1>. QED
  BY <1>6, <1>7

(* The runtime is bound, started or stopped, or schedules the starts.      *)
LEMMA RuntimeKeeps ==
  ASSUME SessionInv, BindAll \/ ScheduleAgentStarts \/ RunUntilEmpty \/ Run \/ Return
  PROVE  SessionInv'
<1>1. /\ alice' = alice /\ bob' = bob /\ toAlice' = toAlice /\ toBob' = toBob
  BY DEF BindAll, ScheduleAgentStarts, RunUntilEmpty, Run, Return
<1>2. DOMAIN rt = {"bound", "scheduled", "running"} /\ SessionSound
  BY DEF SessionInv, SessionSound, SessionAgents
<1>3. DOMAIN rt' = DOMAIN rt
  BY <1>2 DEF BindAll, ScheduleAgentStarts, RunUntilEmpty, Run, Return
<1>4. CASE BindAll \/ RunUntilEmpty \/ Return
  <2>1. local' = local /\ rt'.scheduled = rt.scheduled
    BY <1>2, <1>4 DEF BindAll, RunUntilEmpty, Return
  <2>2. SessionSound'
    BY <1>1, <1>2, <1>3, <2>1, Idle DEF Due
  <2>3. rt'.scheduled \/ Waiting'
    BY <1>1, <2>1 DEF SessionInv, Waiting, Unsifted, Early, Open
  <2>. QED
    BY <2>2, <2>3 DEF SessionInv
<1>5. CASE ScheduleAgentStarts \/ Run
  <2>1. local' = local \cup Starts /\ ~rt.scheduled /\ rt'.scheduled
    BY <1>2, <1>5 DEF ScheduleAgentStarts, MaySchedule, Run
  <2>2. Waiting
    BY <2>1 DEF SessionInv
  <2>3. Due' = {"alice.start"} /\ toAlice' = <<>> /\ toBob' = <<>>
    BY <1>1, <2>1, <2>2 DEF Due, Starts, Waiting
  <2>4. Steady
    BY <1>1, <1>2 DEF Steady, SessionSound, SessionAgents
  <2>5. SessionAgents' /\ SessionTargets' /\ Unsifted'
    BY <1>2, <1>3, <2>2, <2>4, SteadyKeeps DEF SessionSound, Waiting
  <2>6. SessionTurn'
    BY <2>3, <2>5 DEF SessionTurn, EventHolds
  <2>. QED
    BY <2>1, <2>5, <2>6 DEF SessionInv, SessionSound
<1>. QED
  BY <1>4, <1>5

(* Every step of the session keeps its invariant.                          *)
LEMMA SessionNextKeeps ==
  ASSUME KeyAssumption, SessionAssumption, SessionInv, Next
  PROVE  SessionInv'
<1>1. SessionSound
  BY DEF SessionInv
<1>2. CASE BindAll \/ ScheduleAgentStarts \/ RunUntilEmpty \/ Run \/ Return
  BY <1>2, RuntimeKeeps
<1>3. CASE DetectorReport
  <2>1. SessionSound' /\ (Unsifted => Unsifted')
    BY <1>1, <1>3, DetectorReportKeeps
  <2>2. rt' = rt /\ local' = local /\ toAlice' = toAlice /\ toBob' = toBob
    BY <1>3 DEF DetectorReport
  <2>. QED
    BY <2>1, <2>2 DEF SessionInv, Waiting
<1>4. CASE \/ AliceStarts \/ BobStarts \/ PreparationReport \/ QuantumDone \/ SiftingStarts
           \/ AliceReceives \/ BobReceives \/ CascadeRequestIsDue
  <2>1. /\ rt' = rt
        /\ local # {} \/ toAlice # <<>> \/ toBob # <<>>
    BY <1>4 DEF AliceStarts, BobStarts, PreparationReport, QuantumDone, SiftingStarts,
                AliceReceives, BobReceives, CascadeRequestIsDue, AliceEvent, BobEvent,
                AliceDoes, BobDoes
  <2>2. SessionSound'
    BY <1>1, <1>4, AliceEventsKeep, BobEventsKeep, PreparationReportKeeps,
       AliceReceivesKeeps, BobReceivesKeeps
  <2>. QED
    BY <2>1, <2>2 DEF SessionInv, Waiting
<1>. QED
  BY <1>2, <1>3, <1>4 DEF Next, TimelineStep

(* So does a step of the other session.                                    *)
LEMMA SessionRests ==
  ASSUME SessionInv, UNCHANGED vars PROVE SessionInv'
<1>1. /\ rt' = rt /\ alice' = alice /\ bob' = bob /\ local' = local
      /\ toAlice' = toAlice /\ toBob' = toBob
  BY DEF vars
<1>2. SessionSound'
  BY <1>1, Idle DEF SessionInv, Due
<1>3. rt'.scheduled \/ Waiting'
  BY <1>1 DEF SessionInv, Waiting, Unsifted, Early, Open
<1>. QED
  BY <1>2, <1>3 DEF SessionInv

(* The reports kept are of different slots: the one of a slot is the one   *)
(* in Alice's basis.                                                       *)
LEMMA SlotsAreAligned == ASSUME SessionAgents, SlotsMatch PROVE SlotsAligned
<1>. SUFFICES ASSUME NEW i \in DOMAIN bob.slots
              PROVE  DetectionOf(bob.slots[i]).basis = alice.prepared[bob.slots[i]].basis
  BY DEF SlotsAligned, SlotsMatch
<1>1. PICK slot : slot = bob.slots[i]
  OBVIOUS
<1>2. PICK k \in DOMAIN bob.detections :
             /\ bob.detections[k].slot = slot
             /\ bob.detections[k].basis = alice.prepared[slot].basis
  BY <1>1 DEF SlotsMatch, Aligned
<1>3. PICK c : c = CHOOSE j \in DOMAIN bob.detections : bob.detections[j].slot = slot
  OBVIOUS
<1>4. c \in DOMAIN bob.detections /\ bob.detections[c].slot = slot
  BY <1>2, <1>3
<1>5. c = k
  BY <1>2, <1>4 DEF SessionAgents, DetectionsDiffer
<1>6. DetectionOf(slot) = bob.detections[c]
  BY <1>3 DEF DetectionOf
<1>. QED
  BY <1>1, <1>2, <1>5, <1>6

(* The two sessions together: a step of one leaves the other alone.        *)
SessionsInv == PostInv /\ SessionInv

(* Both invariants hold at the start.                                      *)
LEMMA SessionsStart ==
  ASSUME SessionAssumption, PostAssumption, SessionsInit PROVE SessionsInv
<1>1. Init /\ Post!Init
  BY DEF SessionsInit
<1>. QED
  BY <1>1, PostInit, SessionStarts DEF SessionsInv

(* A step of either session keeps both.                                    *)
LEMMA SessionsNextKeep ==
  ASSUME KeyAssumption, SessionAssumption, PostAssumption, SessionsInv, SessionsNext
  PROVE  SessionsInv'
<1>1. CASE Next /\ UNCHANGED postVars
  BY <1>1, SessionNextKeeps, PostRests DEF SessionsInv
<1>2. CASE Post!Next /\ UNCHANGED vars
  BY <1>2, PostNextKeeps, SessionRests DEF SessionsInv
<1>3. SessionsNext => (Next /\ UNCHANGED postVars) \/ (Post!Next /\ UNCHANGED vars)
  BY DEF SessionsNext
<1>. QED
  BY <1>1, <1>2, <1>3

(* And so does none.                                                       *)
LEMMA SessionsRest ==
  ASSUME SessionsInv, UNCHANGED <<vars, postVars, subject>> PROVE SessionsInv'
<1>1. UNCHANGED vars /\ UNCHANGED postVars
  OBVIOUS
<1>. QED
  BY <1>1, SessionRests, PostRests DEF SessionsInv

(* Both sessions keep their invariants, whatever is lost and in whichever  *)
(* order the events and the reports come.                                  *)
THEOREM SessionsHoldOn == SessionsSpec => []SessionsInv
<1>1. SessionsInit => SessionsInv
  BY SessionsStart, SessionAssumption, PostAssumption
<1>2. SessionsInv /\ [SessionsNext]_<<vars, postVars, subject>> => SessionsInv'
  BY SessionsNextKeep, SessionsRest, KeyAssumption, SessionAssumption, PostAssumption
<1>. QED
  BY <1>1, <1>2, PTL DEF SessionsSpec

(* In both, the positions that one agent keeps are the other's, and in     *)
(* each slot of BB84 the bases agree, however late a report comes          *)
(* (assign_reports_to_slots, _on_sift_indices, _on_estimate_sample).       *)
THEOREM SpecMatchesPositions == SessionsSpec => []PositionsMatch
<1>1. SessionsInv => PositionsMatch
  BY SlotsAreAligned DEF SessionsInv, SessionInv, SessionSound, SessionTargets, PostInv,
     PostTargets, PositionsMatch
<1>. QED
  BY <1>1, SessionsHoldOn, PTL

(* In both, two agents that have a final key have the same one, unless two *)
(* tags were equal by chance; in the second neither completes alone        *)
(* (_on_verify_tag, _on_privacy_seed).                                     *)
THEOREM SpecAgreesOnKeys == SessionsSpec => []FinalKeysAgree
<1>1. SessionsInv => FinalKeysAgree
  BY DEF SessionsInv, SessionInv, SessionSound, SessionTargets, PostInv, PostTargets,
         FinalKeysAgree
<1>. QED
  BY <1>1, SessionsHoldOn, PTL

(* In both, the final key is shorter than the reconciled one by every      *)
(* parity that Alice has answered, the tag and the margin, whatever was    *)
(* lost (available_entropy, demo_entropy_budget).                          *)
THEOREM SpecSubtractsDisclosures == SessionsSpec => []DisclosuresSubtracted
<1>1. SessionsInv => DisclosuresSubtracted
  BY DEF SessionsInv, SessionInv, SessionSound, SessionTargets, PostInv, PostTargets,
         DisclosuresSubtracted
<1>. QED
  BY <1>1, SessionsHoldOn, PTL
=============================================================================

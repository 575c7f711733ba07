---------------------------- MODULE BB84Session ----------------------------
(***************************************************************************)
(* The BB84 session of examples/bb84: Alice's and Bob's agents under a     *)
(* SessionRuntime, from the preparation and detection reports to the final *)
(* key, over two classical channels of constant delay that may lose a      *)
(* message.  What Bob's detector reports is an input (frame): PhotonicLink *)
(* models where such reports come from.  Events of different kinds may run *)
(* in any order, which covers every choice of delays; the messages of one  *)
(* channel arrive in the order they were sent.  A handler is an operator   *)
(* that gives the set of its outcomes; an exception ends the run.          *)
(***************************************************************************)
EXTENDS KeyProcessing

CONSTANTS NumSlots,
          Prepared,              \* slot -> [basis, bit], or NoEmission
          NoEmission,
          Frames,                \* the sequences of detector reports tried
          Period,                \* slot_period_ticks
          SlotZero,              \* slot_zero_arrival_tick
          AssignmentWindow,      \* slot_assignment_window_ticks
          PhaseErrorCost(_, _, _),  \* errors, sample size, key length -> bits
          MaxLost                \* bound: messages a run loses

ASSUME SessionAssumption ==
    /\ NumSlots \in Nat \ {0} /\ Period \in Nat \ {0}
    /\ 2 * AssignmentWindow < Period
    /\ \A n, size, errors \in 0..NumSlots :
         /\ PhaseErrorCost(errors, size, n) \in Nat
         /\ SampleChoices(n, size) \subseteq Seq(Nat)

VARIABLES rt,       \* the runtime: [bound, scheduled, running]
          local,    \* the local events scheduled: agent starts and actions
          emitted,  \* the source slots that have passed
          frame,    \* the detector reports still to come
          alice, bob,      \* the agents; slots names the slot of each bit of a key
          toAlice, toBob,  \* the messages in flight
          lost,     \* messages the channels have dropped
          raised    \* a handler raised: the run is over

vars == <<rt, local, emitted, frame, alice, bob, toAlice, toBob, lost, raised>>

NoSlot       == 0
NoBit        == 2    \* of a report whose outcome is None

Init ==
  /\ rt = [bound |-> FALSE, scheduled |-> FALSE, running |-> FALSE]
  /\ local = {} /\ emitted = 0 /\ frame \in Frames
  /\ alice = [prepared |-> [k \in 1..NumSlots |-> NoEmission], slots |-> <<>>,
              bits |-> <<>>, sample |-> <<>>, qberComplete |-> FALSE, leaked |-> 0,
              verified |-> "unknown", collided |-> FALSE, aborted |-> "no",
              finalKey |-> NoKey]
  /\ bob = [detections |-> <<>>, siftingStarted |-> FALSE, siftingComplete |-> FALSE,
            slots |-> <<>>, bits |-> <<>>, sample |-> <<>>, errors |-> 0,
            qberComplete |-> FALSE, cascade |-> NoController, verified |-> "unknown",
            aborted |-> "no", finalKey |-> NoKey, privacyComplete |-> FALSE,
            unreadable |-> FALSE]
  /\ toAlice = <<>> /\ toBob = <<>> /\ lost = 0 /\ raised = FALSE
-----------------------------------------------------------------------------
(* round() of a quotient: a half goes to the even neighbour                *)
RoundHalfEven(a, b) ==
  LET q == a \div b  r == 2 * (a % b)
  IN  IF r < b \/ (r = b /\ q % 2 = 0) THEN q ELSE q + 1

ExpectedArrival(slot) == SlotZero + (slot - 1) * Period

AssignSlot(time) ==
  LET slot == RoundHalfEven(time - SlotZero, Period) + 1
      off  == time - ExpectedArrival(slot)
  IN  IF slot \in 1..NumSlots /\ off \in -AssignmentWindow..AssignmentWindow
      THEN slot ELSE NoSlot
-----------------------------------------------------------------------------
(* Alice *)

AliceStart == {Outcome(alice, <<>>, {"quantum.done"})}

SendQuantumDone == {Outcome(alice, <<[type |-> "quantum.done"]>>, {})}

(* sift.accepted is on its way when the sample is chosen.                  *)
StartQberEstimation(a, accepted) ==
  LET n == Len(a.bits)
  IN  IF n < MinSample + MinRemaining
      THEN {Outcome([a EXCEPT !.aborted = "not enough bits"],
                    <<accepted, [type |-> "abort"]>>, {})}
      ELSE IF ~rt.bound THEN Raise(a)
      ELSE {Outcome([a EXCEPT !.sample = positions],
                    <<accepted, [type |-> "estimate.sample", positions |-> positions,
                                 bits |-> [i \in DOMAIN positions |-> a.bits[positions[i]]]]>>,
                    {}) : positions \in SampleChoices(n, SampleSize(n))}

(* A slot is kept if Alice emitted in it and the bases agree.              *)
OnBobBases(m) ==
  LET announced == [i \in DOMAIN m.detections |-> m.detections[i].slot]
      kept      == InOrder({i \in DOMAIN m.detections :
                              LET d == m.detections[i]
                              IN  /\ alice.prepared[d.slot] # NoEmission
                                  /\ alice.prepared[d.slot].basis = d.basis})
      slots     == [i \in DOMAIN kept |-> announced[kept[i]]]
  IN  IF ~IsInjective(announced) THEN Raise(alice)
      ELSE StartQberEstimation(
             [alice EXCEPT !.slots = slots,
                           !.bits = [i \in DOMAIN slots |-> alice.prepared[slots[i]].bit]],
             [type |-> "sift.accepted", slots |-> slots])

OnEstimateResult(m) ==
  IF m.positions # alice.sample \/ ~ValidPositions(m.positions, Len(alice.bits))
  THEN Raise(alice)
  ELSE {Outcome([alice EXCEPT !.bits = RemovePositions(@, alice.sample),
                              !.slots = RemovePositions(@, alice.sample),
                              !.qberComplete = TRUE,
                              !.aborted = IF m.accept THEN @ ELSE "qber"], <<>>, {})}

OnParityRequest(m) ==
  IF ~alice.qberComplete \/ ~ValidPositions(m.indices, Len(alice.bits)) THEN Raise(alice)
  ELSE {Outcome([alice EXCEPT !.leaked = @ + 1],
                <<[type |-> "cascade.parity_response", id |-> m.id,
                   parity |-> Parity(alice.bits, m.indices)]>>, {})}

(* A mistake: the tag is not compared.                                     *)
OnVerifyTagUnchecked(m) ==
  {Outcome([alice EXCEPT !.verified = "yes"],
           <<[type |-> "verify.result", verified |-> TRUE]>>, {})}

OnVerifyTag(m) ==
  IF ~alice.qberComplete THEN Raise(alice)
  ELSE {Outcome([alice EXCEPT !.verified = IF same THEN "yes" ELSE "no",
                              !.collided = same /\ m.bits # alice.bits,
                              !.aborted = IF same THEN @ ELSE "verification"],
                <<[type |-> "verify.result", verified |-> same]>>, {}) :
        same \in IF Len(m.bits) = Len(alice.bits) THEN TagsAgree(alice.bits, m.bits)
                 ELSE {FALSE}}

OnPrivacySeed(m) ==
  IF alice.verified # "yes" \/ m.inputLen # Len(alice.bits) THEN Raise(alice)
  ELSE IF m.len < MinFinalKey THEN {Outcome([alice EXCEPT !.aborted = "short key"], <<>>, {})}
  ELSE {Outcome([alice EXCEPT !.finalKey = [bits |-> alice.bits, len |-> m.len]],
                <<[type |-> "privacy.done", len |-> m.len]>>, {})}

AliceOnMessage(m) ==
  CASE m.type = "sift.bob_bases"         -> OnBobBases(m)
    [] m.type = "estimate.result"        -> OnEstimateResult(m)
    [] m.type = "cascade.parity_request" -> OnParityRequest(m)
    [] m.type = "verify.tag"             -> OnVerifyTag(m)
    [] m.type = "privacy.seed"           -> OnPrivacySeed(m)
-----------------------------------------------------------------------------
(* Bob *)

(* A successful report without an outcome raises: a click of a detector of *)
(* the other basis (FalseOutcomesAreDark of Readout).                      *)
Unreadable(r) == r.success /\ r.bit = NoBit

(* Failed reports, reports near no slot and the second of a slot are set   *)
(* aside.                                                                  *)
RecordDetection(r) ==
  LET slot == AssignSlot(r.time)
  IN  IF Unreadable(r) THEN [bob EXCEPT !.unreadable = TRUE]
      ELSE IF \/ ~r.success \/ slot = NoSlot
              \/ \E i \in DOMAIN bob.detections : bob.detections[i].slot = slot
      THEN bob
      ELSE [bob EXCEPT !.detections = Append(@, [slot |-> slot, basis |-> r.basis, bit |-> r.bit])]

OnQuantumDone == {Outcome(bob, <<>>, {"sifting.start"})}

StartSifting ==
  IF bob.siftingStarted \/ bob.siftingComplete THEN {Outcome(bob, <<>>, {})}
  ELSE {Outcome([bob EXCEPT !.siftingStarted = TRUE],
                <<[type |-> "sift.bob_bases", detections |-> bob.detections]>>, {})}

DetectionOf(slot) ==
  bob.detections[CHOOSE i \in DOMAIN bob.detections : bob.detections[i].slot = slot]

OnSiftAccepted(m) ==
  IF ~(ToSet(m.slots) \subseteq {bob.detections[i].slot : i \in DOMAIN bob.detections})
  THEN Raise(bob)
  ELSE {Outcome([bob EXCEPT !.slots = m.slots, !.siftingComplete = TRUE,
                            !.bits = [i \in DOMAIN m.slots |-> DetectionOf(m.slots[i]).bit]],
                <<>>, {})}

StartCascade(b, sent) ==
  IF Len(b.bits) = 0 \/ ~rt.bound THEN Raise(b)
  ELSE {Outcome([b EXCEPT !.cascade =
                   NewController(b.bits,
                                 FirstBlockSize(b.errors, Len(b.sample), Len(b.bits)),
                                 shuffled)],
                sent, {"cascade.next_request"}) : shuffled \in Shuffles(Len(b.bits))}

(* The result leaves before Cascade starts.  (The union over one element    *)
(* makes TLC evaluate the shortened key once.)                             *)
OnEstimateSample(m) ==
  LET wrong    == {i \in DOMAIN m.positions : bob.bits[m.positions[i]] # m.bits[i]}
      errors   == Cardinality(wrong)
      accept   == 100 * errors <= AbortPercent * Len(m.positions)
      removed  == [bob EXCEPT !.bits = RemovePositions(@, m.positions),
                              !.slots = RemovePositions(@, m.positions),
                              !.sample = m.positions, !.errors = errors,
                              !.qberComplete = TRUE]
      sent     == <<[type |-> "estimate.result", accept |-> accept,
                     positions |-> m.positions]>>
  IN  IF \/ ~bob.siftingComplete \/ m.positions = <<>>
         \/ ~ValidPositions(m.positions, Len(bob.bits)) THEN Raise(bob)
      ELSE IF accept THEN UNION {StartCascade(b, sent) : b \in {removed}}
      ELSE {Outcome([removed EXCEPT !.aborted = "qber"], sent, {})}

StartVerification(b) ==
  {Outcome(b, <<[type |-> "verify.tag", bits |-> b.cascade.bits]>>, {})}

AskForParity(c) ==
  LET asking == NextBlock(c)
  IN  {Outcome([bob EXCEPT !.cascade = asking],
               <<[type |-> "cascade.parity_request", id |-> asking.asked,
                  indices |-> QueryIndices(asking.outstanding)]>>, {})}

(* A mistake: the controller is not polled again after a pass has begun.   *)
BeginPassOnce(c) ==
  {Outcome([bob EXCEPT !.cascade = NextPass(c, shuffled)], <<>>, {}) :
     shuffled \in Shuffles(Len(c.bits))}

BeginPass(c) ==
  {Outcome([bob EXCEPT !.cascade = NextPass(c, shuffled)], <<>>, {"cascade.next_request"}) :
     shuffled \in Shuffles(Len(c.bits))}

(* Without a request, and short of the end, Bob polls the controller again. *)
CascadeNextRequest ==
  LET c == bob.cascade
  IN  IF c = NoController THEN Raise(bob)
      ELSE IF c.complete THEN StartVerification(bob)
      ELSE IF c.outstanding # NoBlock THEN {Outcome(bob, <<>>, {"cascade.next_request"})}
      ELSE IF c.pending # <<>> THEN AskForParity(c)
      ELSE IF LastPass(c) THEN StartVerification([bob EXCEPT !.cascade = NextPass(c, <<>>)])
      ELSE BeginPass(c)

OnParityResponse(m) ==
  IF bob.cascade.outstanding = NoBlock \/ m.id # bob.cascade.asked THEN Raise(bob)
  ELSE {Outcome([bob EXCEPT !.cascade = ApplyParityResponse(@, m.parity)], <<>>,
                {"cascade.next_request"})}

(* A mistake: what Cascade has disclosed is left out.                      *)
RevealedBitsSampleOnly == Len(bob.sample) + TagLen

RevealedBits == Len(bob.sample) + bob.cascade.leaked + TagLen

FinalKeyLength ==
  LET n == Len(bob.cascade.bits)
  IN  Greatest(0, n - PhaseErrorCost(bob.errors, Len(bob.sample), n)
                    - RevealedBits - SecurityMargin)

StartPrivacyAmplification(b) ==
  IF ~rt.bound THEN Raise(b)
  ELSE IF FinalKeyLength < MinFinalKey
  THEN {Outcome([b EXCEPT !.aborted = "short key"], <<>>, {})}
  ELSE {Outcome([b EXCEPT !.finalKey = [bits |-> b.cascade.bits, len |-> FinalKeyLength]],
                <<[type |-> "privacy.seed", inputLen |-> Len(b.cascade.bits),
                   len |-> FinalKeyLength]>>, {})}

OnVerifyResult(m) ==
  IF m.verified THEN StartPrivacyAmplification([bob EXCEPT !.verified = "yes"])
  ELSE {Outcome([bob EXCEPT !.verified = "no", !.aborted = "verification"], <<>>, {})}

OnPrivacyDone(m) ==
  {Outcome(IF m.len # bob.finalKey.len THEN [bob EXCEPT !.aborted = "length mismatch"]
           ELSE [bob EXCEPT !.privacyComplete = TRUE], <<>>, {})}

BobOnMessage(m) ==
  CASE m.type = "quantum.done"            -> OnQuantumDone
    [] m.type = "sift.accepted"           -> OnSiftAccepted(m)
    [] m.type = "estimate.sample"         -> OnEstimateSample(m)
    [] m.type = "cascade.parity_response" -> OnParityResponse(m)
    [] m.type = "abort"  -> {Outcome([bob EXCEPT !.aborted = "peer"], <<>>, {})}
    [] m.type = "verify.result"           -> OnVerifyResult(m)
    [] m.type = "privacy.done"            -> OnPrivacyDone(m)
-----------------------------------------------------------------------------
(* The channels and the runtime. *)

(* _transmit_now: each message is forwarded, after those sent before it,   *)
(* or dropped.                                                             *)
Transmitted(queue, sent) ==
  {[queue |-> queue \o RemovePositions(sent, drops), lost |-> lost + Len(drops)] :
     drops \in {d \in {<<>>, <<1>>, <<2>>, <<1, 2>>} :
                  ToSet(d) \subseteq DOMAIN sent /\ lost + Len(d) <= MaxLost}}

(* One outcome of a handler takes place, after the events left.            *)
AliceDoes(out, left) ==
  /\ alice' = out.self /\ raised' = out.raised /\ local' = left \cup out.local
  /\ \E t \in Transmitted(toBob, out.sent) : toBob' = t.queue /\ lost' = t.lost
  /\ UNCHANGED <<rt, bob, frame>>

BobDoes(out, left) ==
  /\ bob' = out.self /\ raised' = out.raised /\ local' = left \cup out.local
  /\ \E t \in Transmitted(toAlice, out.sent) : toAlice' = t.queue /\ lost' = t.lost
  /\ UNCHANGED <<rt, alice, emitted, frame>>

Running == rt.running /\ ~raised

AliceReceives ==
  /\ Running /\ toAlice # <<>>
  /\ \E out \in AliceOnMessage(Head(toAlice)) : AliceDoes(out, local)
  /\ toAlice' = Tail(toAlice) /\ UNCHANGED emitted

BobReceives ==
  /\ Running /\ toBob # <<>>
  /\ \E out \in BobOnMessage(Head(toBob)) : BobDoes(out, local)
  /\ toBob' = Tail(toBob)

AliceEvent(event, outcomes) ==
  /\ Running /\ event \in local
  /\ \E out \in outcomes : AliceDoes(out, local \ {event})
  /\ UNCHANGED <<toAlice, emitted>>

BobEvent(event, outcomes) ==
  /\ Running /\ event \in local
  /\ \E out \in outcomes : BobDoes(out, local \ {event})
  /\ UNCHANGED toBob

AliceStarts == AliceEvent("alice.start", AliceStart)
BobStarts   == BobEvent("bob.start", {Outcome(bob, <<>>, {})})
QuantumDone == emitted = NumSlots /\ AliceEvent("quantum.done", SendQuantumDone)
SiftingStarts       == BobEvent("sifting.start", StartSifting)
CascadeRequestIsDue == BobEvent("cascade.next_request", CascadeNextRequest)

(* The source passes a slot and reports what it prepared, if anything; it  *)
(* is started with Alice.                                                  *)
PreparationReport ==
  /\ Running /\ "quantum.done" \in local /\ emitted < NumSlots
  /\ emitted' = emitted + 1
  /\ alice' = [alice EXCEPT !.prepared[emitted + 1] = Prepared[emitted + 1]]
  /\ UNCHANGED <<rt, local, frame, bob, toAlice, toBob, lost, raised>>

DetectorReport ==
  /\ Running /\ frame # <<>> /\ Head(frame).from <= emitted
  /\ frame' = Tail(frame)
  /\ bob' = RecordDetection(Head(frame)) /\ raised' = Unreadable(Head(frame))
  /\ UNCHANGED <<rt, local, emitted, alice, toAlice, toBob, lost>>

(* Nothing is left on the timeline.                                        *)
Drained == /\ local = {} /\ toAlice = <<>> /\ toBob = <<>>
           /\ (frame = <<>> \/ emitted < NumSlots)

(* The calls of whoever drives the runtime                                 *)
Starts == {"alice.start", "bob.start"}

BindAll == /\ ~rt.running /\ ~raised
           /\ rt' = [rt EXCEPT !.bound = TRUE]
           /\ UNCHANGED <<local, emitted, frame, alice, bob, toAlice, toBob, lost, raised>>

(* A mistake: starts are scheduled before the agents are bound.            *)
MayScheduleUnbound == ~rt.running /\ ~raised /\ ~rt.scheduled

(* In every other case the call raises, and nothing changes.               *)
MaySchedule == ~rt.running /\ ~raised /\ rt.bound /\ ~rt.scheduled

ScheduleAgentStarts ==
  /\ MaySchedule
  /\ rt' = [rt EXCEPT !.scheduled = TRUE] /\ local' = local \cup Starts
  /\ UNCHANGED <<emitted, frame, alice, bob, toAlice, toBob, lost, raised>>

RunUntilEmpty ==
  /\ ~rt.running /\ ~raised /\ ~Drained
  /\ rt' = [rt EXCEPT !.running = TRUE]
  /\ UNCHANGED <<local, emitted, frame, alice, bob, toAlice, toBob, lost, raised>>

Run ==
  /\ ~rt.running /\ ~raised /\ ~rt.scheduled
  /\ rt' = [bound |-> TRUE, scheduled |-> TRUE, running |-> TRUE]
  /\ local' = local \cup Starts
  /\ UNCHANGED <<emitted, frame, alice, bob, toAlice, toBob, lost, raised>>

Return ==
  /\ Running /\ Drained
  /\ rt' = [rt EXCEPT !.running = FALSE]
  /\ UNCHANGED <<local, emitted, frame, alice, bob, toAlice, toBob, lost, raised>>

TimelineStep ==
  \/ AliceStarts \/ BobStarts \/ PreparationReport \/ DetectorReport \/ QuantumDone
  \/ SiftingStarts \/ AliceReceives \/ BobReceives \/ CascadeRequestIsDue \/ Return

Next == BindAll \/ ScheduleAgentStarts \/ RunUntilEmpty \/ Run \/ TimelineStep

(* A run drains the timeline before it returns.                            *)
Spec == Init /\ [][Next]_vars /\ WF_vars(TimelineStep)
-----------------------------------------------------------------------------
(* Once Bob has sifted, both agents hold the same slots in the same order, *)
(* before and after the sample is removed, and in each of them Bob's       *)
(* detection is in the basis Alice prepared, whatever reports arrive late. *)
SlotsAligned ==
  /\ bob.siftingComplete /\ alice.qberComplete = bob.qberComplete => alice.slots = bob.slots
  /\ \A i \in DOMAIN bob.slots :
       DetectionOf(bob.slots[i]).basis = alice.prepared[bob.slots[i]].basis

(* When Cascade completes, every block of its first pass has Alice's       *)
(* parity, whatever later passes have corrected in it.                     *)
FirstPassMatches ==
  bob.cascade.complete =>
    \A k \in DOMAIN bob.cascade.previous[1] :
      LET block == bob.cascade.previous[1][k]
      IN  Parity(bob.cascade.bits, block) = Parity(alice.bits, block)

(* Alice holds a final key only if Bob holds the same one, unless the      *)
(* hashes of two different keys were equal; and Bob only completes then.   *)
KeysAgree ==
  /\ alice.finalKey # NoKey /\ ~alice.collided => bob.finalKey = alice.finalKey
  /\ bob.privacyComplete => alice.finalKey.len = bob.finalKey.len

(* The final key is shorter than the reconciled one by every bit that was  *)
(* disclosed about it: the parities Alice has answered and the tag.        *)
DisclosureSubtracted ==
  bob.finalKey # NoKey =>
    bob.finalKey.len <= Len(bob.cascade.bits) - alice.leaked - TagLen - SecurityMargin

(* While no message is lost and every successful report has an outcome, no *)
(* handler meets a message it does not expect and no agent runs unbound.   *)
RaisesOnlyAfterLoss == raised => lost > 0 \/ bob.unreadable

(* Such a run ends with Bob's session decided, and Alice's too unless Bob  *)
(* gave up for want of key, which he tells nobody.                         *)
SessionEnds ==
  rt.running ~> \/ lost > 0 \/ bob.unreadable
                \/ /\ bob.aborted # "no" \/ bob.privacyComplete
                   /\ bob.aborted = "short key" \/ alice.aborted # "no"
                        \/ alice.finalKey # NoKey
=============================================================================

------------------------ MODULE PostprocessingSession ------------------------
(***************************************************************************)
(* The post-processing of examples/postprocessing/bb84_event: two agents   *)
(* that already hold bases and bits, as its demo makes them, and turn them *)
(* into a key by messages and by events of their own.  Unlike the agents   *)
(* of examples/bb84 they tell each other of an abort, and what comes after *)
(* the end is dropped.  Messages may be lost, and events of different      *)
(* kinds run in any order; an exception ends the run.  Positions count     *)
(* from 1.                                                                 *)
(***************************************************************************)
EXTENDS KeyProcessing

CONSTANTS RawBits,
          ErrorPositions,           \* the error_sift_positions tried
          MissCounts,               \* the missed_detection_counts tried
          MaxFinalKey,
          PhaseErrorCost(_, _, _),  \* errors, sample size, key length -> bits
          MaxLost                   \* bound: messages a run loses

VARIABLES local,           \* the start of Alice and local events
          alice, bob,      \* the agents
          toAlice, toBob,  \* the messages in flight
          lost, raised

vars == <<local, alice, bob, toAlice, toBob, lost, raised>>

Missed == 2    \* a bit that is None
-----------------------------------------------------------------------------
(* make_demo_inputs: half of the bases match, and of those positions some  *)
(* are wrong, and others have no bit.                                      *)
AliceBases == [i \in 1..RawBits |-> IF i % 2 = 1 THEN "Z" ELSE "X"]
AliceBits  == [i \in 1..RawBits |-> (7 * (i - 1) + (i - 1) \div 5) % 2]
BobBases   == [i \in 1..RawBits |-> IF (i - 1) % 4 < 2 THEN AliceBases[i]
                                    ELSE IF i % 2 = 1 THEN "X" ELSE "Z"]

Positions == [i \in 1..RawBits |-> i]

BobBits(errors, misses) ==
  LET matching == SelectSeq(Positions, LAMBDA i : AliceBases[i] = BobBases[i])
      n        == Len(matching)
      step     == Greatest(1, n \div 20)
      wrong    == {matching[k] : k \in errors \cap 1..n}
      missed   == {matching[Greatest(1, n - m * step)] : m \in 0..(Smallest(misses, n) - 1)}
  IN  [i \in 1..RawBits |-> IF i \in wrong THEN 1 - AliceBits[i]
                            ELSE IF i \in missed THEN Missed ELSE AliceBits[i]]

(* build_demo ends with run(): the agents are bound, and Alice starts.     *)
Init ==
  /\ local = {"alice.start"}
  /\ alice = [sift |-> <<>>, bits |-> <<>>, sample |-> <<>>, answered |-> 0,
              collided |-> FALSE, aborted |-> "no", complete |-> FALSE, finalKey |-> NoKey]
  /\ \E errors \in ErrorPositions, misses \in MissCounts :
       bob = [measured |-> BobBits(errors, misses), sift |-> <<>>, bits |-> <<>>,
              sample |-> <<>>, errors |-> 0, cascade |-> NoController,
              aborted |-> "no", complete |-> FALSE, finalKey |-> NoKey]
  /\ toAlice = <<>> /\ toBob = <<>> /\ lost = 0 /\ raised = FALSE
-----------------------------------------------------------------------------
(* Both agents *)

Over(agent) == agent.aborted # "no" \/ agent.complete

(* The first reason stays.                                                 *)
RecordAbort(agent, reason) ==
  IF agent.aborted = "no" THEN [agent EXCEPT !.aborted = reason] ELSE agent

Abort(agent, reason) ==
  {Outcome(RecordAbort(agent, reason), <<[type |-> "abort", reason |-> reason]>>, {})}

(* Aborts are recorded in every case; nothing else counts after the end.   *)
OnMessage(agent, m, outcomes) ==
  IF m.type = "abort" THEN {Outcome(RecordAbort(agent, m.reason), <<>>, {})}
  ELSE IF Over(agent) THEN {Outcome(agent, <<>>, {})}
  ELSE outcomes

OnEvent(agent, outcomes) == IF Over(agent) THEN {Outcome(agent, <<>>, {})} ELSE outcomes
-----------------------------------------------------------------------------
(* Alice *)

SendBases == {Outcome(alice, <<[type |-> "sift.bases", bases |-> AliceBases]>>, {})}

OnSiftIndices(m) ==
  IF ~ValidPositions(m.indices, RawBits) THEN Raise(alice)
  ELSE {Outcome([alice EXCEPT !.sift = m.indices,
                              !.bits = [k \in DOMAIN m.indices |-> AliceBits[m.indices[k]]]],
                <<>>, {"estimate.choose_sample"})}

ChooseEstimateSample ==
  LET n == Len(alice.bits)
  IN  IF n < MinSample + MinRemaining THEN Abort(alice, "not enough bits")
      ELSE {Outcome([alice EXCEPT !.sample = positions],
                    <<[type |-> "estimate.sample", positions |-> positions,
                       bits |-> [k \in DOMAIN positions |-> alice.bits[positions[k]]]]>>, {}) :
            positions \in SampleChoices(n, SampleSize(n))}

(* 0.73 over the estimated error rate, or over one error in the whole key  *)
FirstBlock(errors, size, n) ==
  LET fromKey == CeilDiv(73 * n, 100)
  IN  Smallest(n, Greatest(2, IF errors = 0 THEN fromKey
                              ELSE Smallest(fromKey, CeilDiv(73 * size, 100 * errors))))

OnEstimateResult(m) ==
  IF ~ValidPositions(m.positions, Len(alice.bits)) THEN Raise(alice)
  ELSE IF ~m.accept THEN Abort([alice EXCEPT !.sample = m.positions], "qber")
  ELSE {Outcome([alice EXCEPT !.sample = m.positions, !.bits = kept],
                <<[type |-> "cascade.start",
                   first |-> FirstBlock(m.errors, Len(m.positions), Len(kept))]>>, {}) :
        kept \in {RemovePositions(alice.bits, m.positions)}}

OnParityRequest(m) ==
  IF ~ValidPositions(m.indices, Len(alice.bits)) THEN Raise(alice)
  ELSE {Outcome([alice EXCEPT !.answered = @ + 1],
                <<[type |-> "cascade.parity_response", id |-> m.id,
                   parity |-> Parity(alice.bits, m.indices)]>>, {})}

(* Bob is told by the result, and Alice sends no abort of her own.         *)
OnVerifyTag(m) ==
  IF Len(m.bits) # Len(alice.bits) THEN Raise(alice)
  ELSE {Outcome([alice EXCEPT !.collided = same /\ m.bits # alice.bits,
                              !.aborted = IF same THEN @ ELSE "verification"],
                <<[type |-> "verify.result", verified |-> same]>>, {}) :
        same \in TagsAgree(alice.bits, m.bits)}

OnPrivacySeed(m) ==
  IF m.inputLen # Len(alice.bits) THEN Raise(alice)
  ELSE {Outcome([alice EXCEPT !.finalKey = [bits |-> alice.bits, len |-> m.len],
                              !.complete = TRUE],
                <<[type |-> "finished"]>>, {})}

AliceOnMessage(m) ==
  OnMessage(alice, m,
    CASE m.type = "sift.indices"           -> OnSiftIndices(m)
      [] m.type = "estimate.result"        -> OnEstimateResult(m)
      [] m.type = "cascade.parity_request" -> OnParityRequest(m)
      [] m.type = "verify.tag"             -> OnVerifyTag(m)
      [] m.type = "privacy.seed"           -> OnPrivacySeed(m))
-----------------------------------------------------------------------------
(* Bob *)

(* A mistake: a position that Bob has missed is kept.                      *)
SiftsMissed(i, bases) == bases[i] = BobBases[i]

Sifts(i, bases) == bases[i] = BobBases[i] /\ bob.measured[i] # Missed

OnSiftBases(m) ==
  IF Len(m.bases) # RawBits THEN Raise(bob)
  ELSE {Outcome([bob EXCEPT !.sift = kept,
                            !.bits = [k \in DOMAIN kept |-> bob.measured[kept[k]]]],
                <<[type |-> "sift.indices", indices |-> kept]>>, {}) :
        kept \in {InOrder({i \in 1..RawBits : Sifts(i, m.bases)})}}

OnEstimateSample(m) ==
  LET wrong  == {k \in DOMAIN m.positions : bob.bits[m.positions[k]] # m.bits[k]}
      errors == Cardinality(wrong)
      accept == 100 * errors <= AbortPercent * Len(m.positions)
  IN  IF m.positions = <<>> \/ ~ValidPositions(m.positions, Len(bob.bits)) THEN Raise(bob)
      ELSE {Outcome([bob EXCEPT !.sample = m.positions, !.errors = errors,
                                !.bits = RemovePositions(@, m.positions),
                                !.aborted = IF accept THEN @ ELSE "qber"],
                    <<[type |-> "estimate.result", accept |-> accept, errors |-> errors,
                       positions |-> m.positions]>>, {})}

(* The controller corrects Bob's own list of bits.                         *)
OnCascadeStart(m) ==
  IF bob.bits = <<>> THEN Raise(bob)
  ELSE {Outcome([bob EXCEPT !.cascade = NewController(bob.bits, m.first, shuffled)],
                <<>>, {"cascade.next_request"}) : shuffled \in Shuffles(Len(bob.bits))}

AskForParity(c) ==
  LET asking == NextBlock(c)
  IN  {Outcome([bob EXCEPT !.cascade = asking],
               <<[type |-> "cascade.parity_request", id |-> asking.asked,
                  indices |-> QueryIndices(asking.outstanding)]>>, {})}

(* Without a request, and short of the end, Bob polls the controller again. *)
CascadeNextRequest ==
  LET c == bob.cascade
      polled(after, event) == Outcome([bob EXCEPT !.cascade = after], <<>>, {event})
  IN  IF c = NoController THEN Raise(bob)
      ELSE IF c.complete THEN {polled(c, "cascade.completed")}
      ELSE IF c.outstanding # NoBlock THEN {polled(c, "cascade.next_request")}
      ELSE IF c.pending # <<>> THEN AskForParity(c)
      ELSE IF LastPass(c) THEN {polled(NextPass(c, <<>>), "cascade.completed")}
      ELSE {polled(NextPass(c, shuffled), "cascade.next_request") :
              shuffled \in Shuffles(Len(c.bits))}

OnParityResponse(m) ==
  IF bob.cascade.outstanding = NoBlock \/ m.id # bob.cascade.asked THEN Raise(bob)
  ELSE {Outcome([bob EXCEPT !.cascade = ApplyParityResponse(@, m.parity)], <<>>,
                {"cascade.next_request"})}

SendVerificationTag ==
  IF bob.cascade = NoController THEN Raise(bob)
  ELSE {Outcome(bob, <<[type |-> "verify.tag", bits |-> bob.cascade.bits]>>, {})}

OnVerifyResult(m) ==
  IF m.verified THEN {Outcome(bob, <<>>, {"privacy.prepare"})}
  ELSE Abort(bob, "verification")

(* demo_entropy_budget *)
EntropyBudget ==
  LET n == Len(bob.cascade.bits)
  IN  n - PhaseErrorCost(bob.errors, Len(bob.sample), n)
        - bob.cascade.leaked - TagLen - SecurityMargin

PreparePrivacy ==
  LET n   == Len(bob.cascade.bits)
      len == Smallest(MaxFinalKey, Greatest(0, EntropyBudget))
  IN  IF len < MinFinalKey THEN Abort(bob, "short key")
      ELSE {Outcome([bob EXCEPT !.finalKey = [bits |-> bob.cascade.bits, len |-> len]],
                    <<[type |-> "privacy.seed", inputLen |-> n, len |-> len]>>, {})}

BobOnMessage(m) ==
  OnMessage(bob, m,
    CASE m.type = "sift.bases"              -> OnSiftBases(m)
      [] m.type = "estimate.sample"         -> OnEstimateSample(m)
      [] m.type = "cascade.start"           -> OnCascadeStart(m)
      [] m.type = "cascade.parity_response" -> OnParityResponse(m)
      [] m.type = "verify.result"           -> OnVerifyResult(m)
      [] m.type = "finished"                -> {Outcome([bob EXCEPT !.complete = TRUE], <<>>, {})})
-----------------------------------------------------------------------------
(* Each message is forwarded after those sent before it, or dropped.       *)
Transmitted(queue, sent) ==
  {[queue |-> queue \o sent, lost |-> lost]} \cup
  (IF sent # <<>> /\ lost < MaxLost THEN {[queue |-> queue, lost |-> lost + 1]} ELSE {})

AliceDoes(out, left) ==
  /\ alice' = out.self /\ raised' = out.raised /\ local' = left \cup out.local
  /\ \E t \in Transmitted(toBob, out.sent) : toBob' = t.queue /\ lost' = t.lost
  /\ UNCHANGED bob

BobDoes(out, left) ==
  /\ bob' = out.self /\ raised' = out.raised /\ local' = left \cup out.local
  /\ \E t \in Transmitted(toAlice, out.sent) : toAlice' = t.queue /\ lost' = t.lost
  /\ UNCHANGED alice

AliceReceives ==
  /\ ~raised /\ toAlice # <<>>
  /\ \E out \in AliceOnMessage(Head(toAlice)) : AliceDoes(out, local)
  /\ toAlice' = Tail(toAlice)

BobReceives ==
  /\ ~raised /\ toBob # <<>>
  /\ \E out \in BobOnMessage(Head(toBob)) : BobDoes(out, local)
  /\ toBob' = Tail(toBob)

AliceEvent(event, outcomes) ==
  /\ ~raised /\ event \in local
  /\ \E out \in OnEvent(alice, outcomes) : AliceDoes(out, local \ {event})
  /\ UNCHANGED toAlice

BobEvent(event, outcomes) ==
  /\ ~raised /\ event \in local
  /\ \E out \in OnEvent(bob, outcomes) : BobDoes(out, local \ {event})
  /\ UNCHANGED toBob

Next ==
  \/ AliceReceives \/ BobReceives
  \/ AliceEvent("alice.start", SendBases)
  \/ AliceEvent("estimate.choose_sample", ChooseEstimateSample)
  \/ BobEvent("cascade.next_request", CascadeNextRequest)
  \/ BobEvent("cascade.completed", SendVerificationTag)
  \/ BobEvent("privacy.prepare", PreparePrivacy)

Spec == Init /\ [][Next]_vars /\ WF_vars(Next)
-----------------------------------------------------------------------------
(* Both agents keep the same positions in the same order, none of them one *)
(* that Bob missed, and cut the same sample out of them before a parity of *)
(* the rest is asked for (_on_sift_bases, _on_estimate_sample).            *)
PositionsMatch ==
  /\ alice.sift # <<>> => alice.sift = bob.sift
  /\ \A k \in DOMAIN bob.sift : bob.measured[bob.sift[k]] # Missed
  /\ bob.cascade # NoController => /\ alice.sample = bob.sample
                                   /\ Len(alice.bits) = Len(bob.bits)

(* When Cascade completes, every block of its first pass has Alice's       *)
(* parity, whatever later passes have corrected in it.                     *)
FirstPassMatches ==
  bob.cascade.complete =>
    \A k \in DOMAIN bob.cascade.previous[1] :
      LET block == bob.cascade.previous[1][k]
      IN  Parity(bob.cascade.bits, block) = Parity(alice.bits, block)

(* The keys of two agents that have one are the same, unless two tags were *)
(* by chance; neither is complete while the other has no key or has given  *)
(* up, whatever messages are lost.                                         *)
KeysAgree ==
  /\ alice.complete /\ ~alice.collided => alice.finalKey = bob.finalKey
  /\ alice.complete => bob.finalKey # NoKey /\ bob.aborted = "no"
  /\ bob.complete => alice.complete /\ alice.aborted = "no"

(* The final key is shorter than the reconciled one by every parity that   *)
(* Alice has answered and by the tag.                                      *)
DisclosureSubtracted ==
  bob.finalKey # NoKey =>
    bob.finalKey.len <= Len(bob.cascade.bits) - alice.answered - TagLen - SecurityMargin

(* No handler meets a message or an event it does not expect, also when    *)
(* messages are lost: then the session stops.                              *)
NeverRaises == ~raised

(* Unless a message is lost both agents complete or both abort.            *)
SessionEnds ==
  <>(\/ lost > 0
     \/ alice.complete /\ bob.complete
     \/ alice.aborted # "no" /\ bob.aborted # "no")
=============================================================================

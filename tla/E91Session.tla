----------------------------- MODULE E91Session -----------------------------
(***************************************************************************)
(* The E91 session of tutorials/four_node_qkd: C's agent starts a source   *)
(* of pairs and says when it is done, B's and D's agents collect what      *)
(* their detectors report, and D leads B from the sifting of pairs to the  *)
(* final key.  Reports may come at any moment of the session, early or     *)
(* late: the waits between the steps are delays, and the model leaves them *)
(* open.  The channels of C, B and D keep the order of their messages and  *)
(* may lose one.  An exception ends the run.                               *)
(***************************************************************************)
EXTENDS KeyProcessing

CONSTANTS Pairs,        \* indices of the pairs of the source
          Frames,       \* the [b, d] sequences of detector reports tried
          MinPerCategory, MarginPercent,   \* of the Bell test
          EveBits(_, _),         \* key length, value of S -> bits
          ErrorBits(_, _, _),    \* key length, errors, sample size -> bits
          MaxLost       \* bound: messages a run loses

ASSUME E91Assumption ==
  Pairs \subseteq Nat \ {0} /\ IsFiniteSet(Pairs) /\ MinPerCategory \in Nat \ {0}

VARIABLES local,   \* the local events scheduled
          frame,   \* the detector reports still to come
          b, d,    \* the agents
          fromC,   \* who C's announcement is on its way to
          toB, toD,   \* the messages in flight between B and D
          revealed,   \* history: pairs of which an outcome or a bit was sent
          lost, raised

vars == <<local, frame, b, d, fromC, toB, toD, revealed, lost, raised>>

\* settings of B and D that are compared in the Bell test, and those of a key
Categories  == {<<"B0", "D0">>, <<"B0", "D2">>, <<"B2", "D0">>, <<"B2", "D2">>}
KeySettings == {<<"B1", "D0">>, <<"B2", "D1">>}
NotDetected == [basis |-> "none", outcome |-> 0]

Init ==
  /\ local = {"start"} /\ frame \in Frames
  /\ b = [seen |-> [p \in Pairs |-> NotDetected], peer |-> [p \in {} |-> "none"],
          keyPairs |-> <<>>, kept |-> <<>>, accepted |-> FALSE,
          leaked |-> 0, verified |-> FALSE, collided |-> FALSE, finalKey |-> NoKey,
          aborted |-> "no"]
  /\ d = [seen |-> [p \in Pairs |-> NotDetected], ready |-> FALSE, bReady |-> FALSE,
          started |-> FALSE, keyPairs |-> <<>>, bellPairs |-> [p \in {} |-> "none"], s |-> 0,
          sample |-> <<>>, errors |-> 0, kept |-> <<>>, cascade |-> NoController,
          finalKey |-> NoKey, complete |-> FALSE, aborted |-> "no"]
  /\ fromC = {} /\ toB = <<>> /\ toD = <<>> /\ revealed = {}
  /\ lost = 0 /\ raised = FALSE
-----------------------------------------------------------------------------
(* E91ReceiverBase *)

(* The first successful report of a pair counts.                           *)
RecordReport(agent, r) ==
  IF ~r.success \/ agent.seen[r.pair] # NotDetected THEN agent
  ELSE [agent EXCEPT !.seen[r.pair] = [basis |-> r.basis, outcome |-> r.outcome]]

Detected(agent) == {p \in Pairs : agent.seen[p] # NotDetected}
BitsOfB(pairs)  == [i \in DOMAIN pairs |-> b.seen[pairs[i]].outcome]
\* the two outcomes of a singlet differ
BitsOfD(pairs)  == [i \in DOMAIN pairs |-> 1 - d.seen[pairs[i]].outcome]
-----------------------------------------------------------------------------
(* B *)

BReady == {Outcome(b, <<[type |-> "receiver_ready"]>>, {})}

(* B answers with those of D's pairs it has seen.                          *)
OnDManifest(m) ==
  LET common == DOMAIN m.bases \cap Detected(b)
  IN  {Outcome([b EXCEPT !.peer = m.bases],
               <<[type |-> "b_manifest", bases |-> [p \in common |-> b.seen[p].basis]]>>, {})}

SettingsAtB(p) == <<b.seen[p].basis, b.peer[p]>>

OnSiftAccepted(m) ==
  IF \/ ToSet(m.keyPairs) \cap DOMAIN m.bellPairs # {}
     \/ ~(ToSet(m.keyPairs) \cup DOMAIN m.bellPairs \subseteq DOMAIN b.peer \cap Detected(b))
     \/ \E p \in ToSet(m.keyPairs) : SettingsAtB(p) \notin KeySettings
     \/ \E p \in DOMAIN m.bellPairs : SettingsAtB(p) # m.bellPairs[p]
  THEN Raise(b)
  ELSE {Outcome([b EXCEPT !.keyPairs = m.keyPairs],
                <<[type |-> "bell.sample",
                   outcomes |-> [p \in DOMAIN m.bellPairs |-> b.seen[p].outcome]]>>, {})}

OnBellResult(m) ==
  {Outcome([b EXCEPT !.aborted = IF m.accept THEN @ ELSE "bell"], <<>>, {})}

(* A mistake: B keeps the sample D has revealed.                           *)
OnEstimateSampleKeeping(m) ==
  {Outcome([b EXCEPT !.kept = b.keyPairs, !.accepted = TRUE],
           <<[type |-> "estimate.result", positions |-> m.positions, errors |-> 0,
              accept |-> TRUE]>>, {})}

OnEstimateSample(m) ==
  LET mine   == BitsOfB(b.keyPairs)
      errors == Cardinality({i \in DOMAIN m.positions : mine[m.positions[i]] # m.bits[i]})
      accept == 100 * errors <= AbortPercent * Len(m.positions)
  IN  IF ~ValidPositions(m.positions, Len(mine)) \/ m.positions = <<>> THEN Raise(b)
      ELSE {Outcome([b EXCEPT !.kept = RemovePositions(b.keyPairs, m.positions),
                              !.accepted = accept,
                              !.aborted = IF accept THEN @ ELSE "qber"],
                    <<[type |-> "estimate.result", positions |-> m.positions,
                       errors |-> errors, accept |-> accept]>>, {})}

OnCascadeRequest(m) ==
  IF ~b.accepted \/ ~ValidPositions(m.indices, Len(b.kept)) THEN Raise(b)
  ELSE {Outcome([b EXCEPT !.leaked = @ + 1],
                <<[type |-> "parity_response", id |-> m.id,
                   parity |-> Parity(BitsOfB(b.kept), m.indices)]>>, {})}

(* A mistake: B does not look at the tag.                                  *)
OnVerifyTagUnchecked(m) ==
  {Outcome([b EXCEPT !.verified = TRUE], <<[type |-> "verify.result", verified |-> TRUE]>>, {})}

OnVerifyTag(m) ==
  {Outcome([b EXCEPT !.verified = same, !.collided = same /\ m.bits # BitsOfB(b.kept),
                     !.aborted = IF same THEN @ ELSE "verification"],
           <<[type |-> "verify.result", verified |-> same]>>, {}) :
     same \in IF Len(m.bits) = Len(b.kept) THEN TagsAgree(BitsOfB(b.kept), m.bits)
              ELSE {FALSE}}

OnPrivacySeed(m) ==
  IF ~b.verified \/ m.inputLen # Len(b.kept) \/ m.len < MinFinalKey THEN Raise(b)
  ELSE {Outcome([b EXCEPT !.finalKey = [bits |-> BitsOfB(b.kept), len |-> m.len]],
                <<[type |-> "privacy.done", len |-> m.len]>>, {})}

(* Both agents take the peer's reason for their own.                       *)
OnPeerAbort(agent) == {Outcome([agent EXCEPT !.aborted = "peer"], <<>>, {})}

BOnMessage(m) ==
  CASE m.type = "d_manifest"      -> OnDManifest(m)
    [] m.type = "sift.accepted"   -> OnSiftAccepted(m)
    [] m.type = "bell.result"     -> OnBellResult(m)
    [] m.type = "estimate.sample" -> OnEstimateSample(m)
    [] m.type = "parity_request"  -> OnCascadeRequest(m)
    [] m.type = "verify.tag"      -> OnVerifyTag(m)
    [] m.type = "privacy.seed"    -> OnPrivacySeed(m)
    [] m.type = "abort"           -> OnPeerAbort(b)
-----------------------------------------------------------------------------
(* D *)

(* _abort: the first reason stands, and only that one is sent.             *)
Abort(agent, sent, reason) ==
  IF agent.aborted # "no" THEN {Outcome(agent, sent, {})}
  ELSE {Outcome([agent EXCEPT !.aborted = reason], Append(sent, [type |-> "abort"]), {})}

(* Sifting starts when both sides are ready, and once.                     *)
MaybeStartSifting(agent) ==
  IF ~agent.ready \/ ~agent.bReady \/ agent.started THEN {Outcome(agent, <<>>, {})}
  ELSE {Outcome([agent EXCEPT !.started = TRUE],
                <<[type |-> "d_manifest",
                   bases |-> [p \in Detected(agent) |-> agent.seen[p].basis]]>>, {})}

DReady == MaybeStartSifting([d EXCEPT !.ready = TRUE])

OnReceiverReady == MaybeStartSifting([d EXCEPT !.bReady = TRUE])

OnBManifest(m) ==
  LET settings(p) == <<m.bases[p], d.seen[p].basis>>
      known       == DOMAIN m.bases \subseteq Detected(d)
      keyPairs    == InOrder({p \in DOMAIN m.bases : settings(p) \in KeySettings})
      bellPairs   == [p \in {q \in DOMAIN m.bases : settings(q) \in Categories} |-> settings(p)]
  IN  IF ~known THEN Raise(d)
      ELSE {Outcome([d EXCEPT !.keyPairs = keyPairs, !.bellPairs = bellPairs],
                    <<[type |-> "sift.accepted", keyPairs |-> keyPairs,
                       bellPairs |-> bellPairs]>>, {})}

(* Correlations and the value of S, in hundredths                          *)
InCategory(c) == {p \in DOMAIN d.bellPairs : d.bellPairs[p] = c}

Correlation(outcomes, c) ==
  LET all  == InCategory(c)
      same == {p \in all : outcomes[p] = d.seen[p].outcome}
  IN  IF all = {} THEN 0
      ELSE (100 * (2 * Cardinality(same) - Cardinality(all))) \div Cardinality(all)

SValue(outcomes) ==
  LET E(bBasis, dBasis) == Correlation(outcomes, <<bBasis, dBasis>>)
  IN  E("B0", "D0") - E("B0", "D2") + E("B2", "D0") + E("B2", "D2")

(* |S| less the margin is capped at the quantum bound, which exceeds 2.    *)
BellAccepted(outcomes) ==
  /\ \A c \in Categories : Cardinality(InCategory(c)) >= MinPerCategory
  /\ SValue(outcomes) \notin -(200 + MarginPercent)..(200 + MarginPercent)

StartQberEstimation(agent, sent) ==
  LET n == Len(agent.keyPairs)
  IN  IF n < MinSample + MinRemaining THEN Abort(agent, sent, "not enough bits")
      ELSE {Outcome([agent EXCEPT !.sample = positions],
                    Append(sent, [type |-> "estimate.sample", positions |-> positions,
                                  bits |-> [i \in DOMAIN positions |->
                                              BitsOfD(agent.keyPairs)[positions[i]]]]), {}) :
              positions \in SampleChoices(n, SampleSize(n))}

OnBellSample(m) ==
  LET accept == BellAccepted(m.outcomes)
      sent   == <<[type |-> "bell.result", accept |-> accept]>>
  IN  IF DOMAIN m.outcomes # DOMAIN d.bellPairs THEN Raise(d)
      ELSE IF accept THEN StartQberEstimation([d EXCEPT !.s = SValue(m.outcomes)], sent)
      ELSE {Outcome([d EXCEPT !.s = SValue(m.outcomes), !.aborted = "bell"], sent, {})}

StartCascade(agent) ==
  IF agent.kept = <<>> THEN Abort(agent, <<>>, "empty")
  ELSE {Outcome([agent EXCEPT !.cascade =
                   NewController(BitsOfD(agent.kept),
                                 FirstBlockSize(agent.errors, Len(agent.sample), Len(agent.kept)),
                                 shuffled)],
                <<>>, {"cascade.next_request"}) : shuffled \in Shuffles(Len(agent.kept))}

(* (The union over one element makes TLC evaluate the shortened key once.) *)
OnEstimateResult(m) ==
  LET removed == [d EXCEPT !.kept = RemovePositions(d.keyPairs, m.positions),
                           !.errors = m.errors]
  IN  IF m.positions # d.sample THEN Raise(d)
      ELSE IF m.accept THEN UNION {StartCascade(agent) : agent \in {removed}}
      ELSE {Outcome([removed EXCEPT !.aborted = "qber"], <<>>, {})}

StartVerification(agent) ==
  {Outcome(agent, <<[type |-> "verify.tag", bits |-> agent.cascade.bits]>>, {})}

AskForParity(c) ==
  LET asking == NextBlock(c)
  IN  {Outcome([d EXCEPT !.cascade = asking],
               <<[type |-> "parity_request", id |-> asking.asked,
                  indices |-> QueryIndices(asking.outstanding)]>>, {})}

BeginPass(c) ==
  {Outcome([d EXCEPT !.cascade = NextPass(c, shuffled)], <<>>, {"cascade.next_request"}) :
     shuffled \in Shuffles(Len(c.bits))}

CascadeNextRequest ==
  LET c == d.cascade
  IN  IF c.complete THEN StartVerification(d)
      ELSE IF c.outstanding # NoBlock THEN {Outcome(d, <<>>, {"cascade.next_request"})}
      ELSE IF c.pending # <<>> THEN AskForParity(c)
      ELSE IF LastPass(c) THEN StartVerification([d EXCEPT !.cascade = NextPass(c, <<>>)])
      ELSE BeginPass(c)

OnParityResponse(m) ==
  IF d.cascade.outstanding = NoBlock \/ m.id # d.cascade.asked THEN Raise(d)
  ELSE {Outcome([d EXCEPT !.cascade = ApplyParityResponse(@, m.parity)], <<>>,
                {"cascade.next_request"})}

(* e91_privacy_budget: what the Bell test leaves open, the larger of what  *)
(* Cascade disclosed and what the error rate implies, the tag, the margin. *)
FinalKeyLength ==
  LET n    == Len(d.cascade.bits)
      leak == Greatest(d.cascade.leaked, ErrorBits(n, d.errors, Len(d.sample)))
  IN  Greatest(0, n - EveBits(n, d.s) - leak - TagLen - SecurityMargin)

(* A mistake: D gives up without a word.                                   *)
StartPrivacyAmplificationSilent ==
  IF FinalKeyLength < MinFinalKey THEN {Outcome([d EXCEPT !.aborted = "short key"], <<>>, {})}
  ELSE {Outcome([d EXCEPT !.finalKey = [bits |-> d.cascade.bits, len |-> FinalKeyLength]],
                <<[type |-> "privacy.seed", inputLen |-> Len(d.cascade.bits),
                   len |-> FinalKeyLength]>>, {})}

StartPrivacyAmplification ==
  IF FinalKeyLength < MinFinalKey THEN Abort(d, <<>>, "short key")
  ELSE {Outcome([d EXCEPT !.finalKey = [bits |-> d.cascade.bits, len |-> FinalKeyLength]],
                <<[type |-> "privacy.seed", inputLen |-> Len(d.cascade.bits),
                   len |-> FinalKeyLength]>>, {})}

OnVerifyResult(m) ==
  IF m.verified THEN StartPrivacyAmplification
  ELSE {Outcome([d EXCEPT !.aborted = "verification"], <<>>, {})}

OnPrivacyDone(m) ==
  {Outcome(IF m.len # d.finalKey.len THEN [d EXCEPT !.aborted = "length mismatch"]
           ELSE [d EXCEPT !.complete = TRUE], <<>>, {})}

DOnMessage(m) ==
  CASE m.type = "receiver_ready"  -> OnReceiverReady
    [] m.type = "b_manifest"      -> OnBManifest(m)
    [] m.type = "bell.sample"     -> OnBellSample(m)
    [] m.type = "estimate.result" -> OnEstimateResult(m)
    [] m.type = "parity_response" -> OnParityResponse(m)
    [] m.type = "verify.result"   -> OnVerifyResult(m)
    [] m.type = "privacy.done"    -> OnPrivacyDone(m)
-----------------------------------------------------------------------------
(* The channels and the timeline *)

(* Each message is forwarded, after those sent before it, or dropped.      *)
Transmitted(queue, sent) ==
  {[queue |-> queue \o RemovePositions(sent, drops), lost |-> lost + Len(drops)] :
     drops \in {x \in {<<>>, <<1>>, <<2>>, <<1, 2>>} :
                  ToSet(x) \subseteq DOMAIN sent /\ lost + Len(x) <= MaxLost}}

PairsIn(m) == CASE m.type = "bell.sample"     -> DOMAIN m.outcomes
                [] m.type = "estimate.sample" -> {d.keyPairs[i] : i \in ToSet(m.positions)}
                [] OTHER                      -> {}

Effects(out, left) ==
  /\ raised' = out.raised /\ local' = left \cup out.local
  /\ revealed' = revealed \cup UNION {PairsIn(m) : m \in ToSet(out.sent)}
  /\ UNCHANGED frame

BDoes(out, left) ==
  /\ b' = out.self /\ Effects(out, left) /\ UNCHANGED d
  /\ \E t \in Transmitted(toD, out.sent) : toD' = t.queue /\ lost' = t.lost

DDoes(out, left) ==
  /\ d' = out.self /\ Effects(out, left) /\ UNCHANGED b
  /\ \E t \in Transmitted(toB, out.sent) : toB' = t.queue /\ lost' = t.lost

(* C starts the source, and tells B and D when it is done.                 *)
CStarts ==
  /\ "start" \in local /\ local' = {"frame.done"}
  /\ UNCHANGED <<frame, b, d, fromC, toB, toD, revealed, lost, raised>>

FrameDone ==
  /\ "frame.done" \in local /\ local' = local \ {"frame.done"}
  /\ \E heard \in SUBSET {"b.ready", "d.ready"} :
       /\ fromC' = heard /\ lost' = lost + 2 - Cardinality(heard) /\ lost' <= MaxLost
  /\ UNCHANGED <<frame, b, d, toB, toD, revealed, raised>>

(* The announcement makes B, or D, wait once more before it is ready.      *)
QuantumDone(event) ==
  /\ ~raised /\ event \in fromC /\ fromC' = fromC \ {event} /\ local' = local \cup {event}
  /\ UNCHANGED <<frame, b, d, toB, toD, revealed, lost, raised>>

BReport ==
  /\ ~raised /\ "start" \notin local /\ frame.b # <<>>
  /\ b' = RecordReport(b, Head(frame.b)) /\ frame' = [frame EXCEPT !.b = Tail(@)]
  /\ UNCHANGED <<local, d, fromC, toB, toD, revealed, lost, raised>>

DReport ==
  /\ ~raised /\ "start" \notin local /\ frame.d # <<>>
  /\ d' = RecordReport(d, Head(frame.d)) /\ frame' = [frame EXCEPT !.d = Tail(@)]
  /\ UNCHANGED <<local, b, fromC, toB, toD, revealed, lost, raised>>

BReceives ==
  /\ ~raised /\ toB # <<>> /\ toB' = Tail(toB) /\ UNCHANGED fromC
  /\ \E out \in BOnMessage(Head(toB)) : BDoes(out, local)

DReceives ==
  /\ ~raised /\ toD # <<>> /\ toD' = Tail(toD) /\ UNCHANGED fromC
  /\ \E out \in DOnMessage(Head(toD)) : DDoes(out, local)

BIsReady == /\ ~raised /\ "b.ready" \in local /\ UNCHANGED <<fromC, toB>>
            /\ \E out \in BReady : BDoes(out, local \ {"b.ready"})

DEvent(event, outcomes) == /\ ~raised /\ event \in local /\ UNCHANGED <<fromC, toD>>
                           /\ \E out \in outcomes : DDoes(out, local \ {event})

Next == \/ CStarts \/ FrameDone \/ QuantumDone("b.ready") \/ QuantumDone("d.ready")
        \/ BReport \/ DReport \/ BReceives \/ DReceives \/ BIsReady
        \/ DEvent("d.ready", DReady)
        \/ DEvent("cascade.next_request", CascadeNextRequest)

(* The timeline is drained.                                                *)
Spec == Init /\ [][Next]_vars /\ WF_vars(Next)
-----------------------------------------------------------------------------
(* No pair whose outcome was sent in the clear, for the Bell test or as a  *)
(* sample, is left in a key, and both agents keep the same pairs.          *)
KeptNeverRevealed ==
  /\ ToSet(b.kept) \cap revealed = {} /\ ToSet(d.kept) \cap revealed = {}
  /\ d.kept # <<>> => d.kept = b.kept

(* B holds a final key only if D holds the same one, unless the hashes of  *)
(* two different keys were equal; and D only completes then.               *)
KeysAgree ==
  /\ b.finalKey # NoKey /\ ~b.collided => b.finalKey = d.finalKey
  /\ d.complete => b.finalKey.len = d.finalKey.len

(* A session that loses nothing ends with both agents in agreement: both   *)
(* have the key or both have given up, whichever of them noticed.          *)
BothDecided ==
  \/ lost > 0
  \/ b.aborted # "no" /\ d.aborted # "no"
  \/ b.finalKey # NoKey /\ d.complete
=============================================================================

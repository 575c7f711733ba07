--------------------------- MODULE ProtocolProofs ---------------------------
(***************************************************************************)
(* Proofs about the protocol sessions of module MCProtocols.               *)
(***************************************************************************)
EXTENDS MCProtocols, KeyProofs, NaturalsInduction, WellFoundedInduction

-----------------------------------------------------------------------------
(* E91: whose turn it is.  From the start of sifting on there is at most   *)
(* one message, or one event of D's, that the session waits for; all other *)
(* messages only set a flag.                                               *)

NoTurnTypes == {"receiver_ready", "bell.result", "abort"}
BTypes == {"d_manifest", "sift.accepted", "bell.result", "estimate.sample", "parity_request",
           "verify.tag", "privacy.seed", "abort"}
DTypes == {"receiver_ready", "b_manifest", "bell.sample", "estimate.result", "parity_response",
           "verify.result", "privacy.done"}

Turns(box) == {i \in DOMAIN box : box[i].type \notin NoTurnTypes}
TurnEvent    == "cascade.next_request" \in local

OneTurn ==
  /\ \A i, j \in Turns(toB) : i = j
  /\ \A i, j \in Turns(toD) : i = j
  /\ Turns(toB) # {} => Turns(toD) = {} /\ ~TurnEvent
  /\ Turns(toD) # {} => ~TurnEvent

QueuesInv ==
  /\ IsSequence(toB) /\ \A i \in DOMAIN toB : toB[i].type \in BTypes
  /\ IsSequence(toD) /\ \A i \in DOMAIN toD : toD[i].type \in DTypes
  /\ OneTurn

(* What the agents are made of, and that B only uses what it has seen.     *)
AgentsInv ==
  /\ DOMAIN b = {"seen", "peer", "keyPairs", "kept", "accepted", "leaked", "verified",
                 "collided", "finalKey", "aborted"}
  /\ DOMAIN d = {"seen", "ready", "bReady", "started", "keyPairs", "bellPairs", "s", "sample",
                 "errors", "kept", "cascade", "finalKey", "complete", "aborted"}
  /\ b.seen = [p \in Pairs |-> b.seen[p]] /\ d.seen = [p \in Pairs |-> d.seen[p]]
  /\ ToSet(b.keyPairs) \subseteq Detected(b) /\ ToSet(b.kept) \subseteq Detected(b)

(* How far the session is *)
Open   == b.finalKey = NoKey /\ d.finalKey = NoKey /\ ~d.complete
Early  == Open /\ b.kept = <<>> /\ d.kept = <<>>
Shared == Open /\ d.kept = b.kept

(* The key pairs of both are the same, and none of them twice.             *)
Sifted ==
  /\ b.keyPairs = d.keyPairs /\ IsSequence(d.keyPairs)
  /\ \A i, j \in DOMAIN d.keyPairs : d.keyPairs[i] = d.keyPairs[j] => i = j

SameBits == b.collided \/ BitsOfB(b.kept) = d.cascade.bits

(* What is so while a message that has the turn is on its way.             *)
Holds(m) ==
  /\ m.type \in {"d_manifest", "b_manifest"} => Early /\ revealed = {}
  /\ m.type = "sift.accepted" =>
       /\ Early /\ revealed = {} /\ m.keyPairs = d.keyPairs /\ IsSequence(d.keyPairs)
       /\ \A i, j \in DOMAIN d.keyPairs : d.keyPairs[i] = d.keyPairs[j] => i = j
  /\ m.type = "bell.sample" => Early /\ Sifted /\ revealed \cap ToSet(d.keyPairs) = {}
  /\ m.type = "estimate.sample" =>
       /\ Early /\ Sifted
       /\ revealed \cap ToSet(d.keyPairs) \subseteq {d.keyPairs[i] : i \in ToSet(m.positions)}
  /\ m.type = "estimate.result" =>
       /\ Open /\ d.kept = <<>> /\ b.kept = RemovePositions(d.keyPairs, m.positions)
  /\ m.type \in {"parity_request", "parity_response"} => Shared
  /\ m.type = "verify.tag" => Shared /\ m.bits = d.cascade.bits
  /\ m.type = "verify.result" => Shared /\ (m.verified => SameBits)
  /\ m.type = "privacy.seed" =>
       /\ b.finalKey = NoKey /\ ~d.complete /\ d.kept = b.kept /\ SameBits
       /\ d.finalKey = [bits |-> d.cascade.bits, len |-> m.len]
  /\ m.type = "privacy.done" => m.len = b.finalKey.len

TurnInv ==
  /\ \A i \in Turns(toB) : Holds(toB[i])
  /\ \A i \in Turns(toD) : Holds(toD[i])
  /\ TurnEvent => Shared
  /\ ~d.started => /\ Turns(toB) = {} /\ Turns(toD) = {} /\ ~TurnEvent
                   /\ Early /\ revealed = {}

IInv == AgentsInv /\ QueuesInv /\ TurnInv /\ KeptNeverRevealed /\ KeysAgree

LEMMA InvInit == Init => IInv
<1>. SUFFICES ASSUME Init PROVE IInv
  OBVIOUS
<1>. USE DEF Init
<1>1. AgentsInv
  BY DEF AgentsInv, Detected, ToSet, NotDetected
<1>2. QueuesInv /\ Turns(toB) = {} /\ Turns(toD) = {} /\ ~TurnEvent
  BY DEF QueuesInv, OneTurn, Turns, TurnEvent, IsSequence, ToSet
<1>3. Early /\ revealed = {} /\ ~d.started
  BY DEF Early, Open
<1>4. TurnInv
  BY <1>2, <1>3 DEF TurnInv
<1>5. KeptNeverRevealed /\ KeysAgree
  BY <1>3 DEF KeptNeverRevealed, KeysAgree, Early, Open
<1>. QED
  BY <1>1, <1>2, <1>4, <1>5 DEF IInv

(* A queue that has been added to, or taken from: what it holds now was in *)
(* it before, or has been sent.                                            *)
Follows(new, old, types) ==
  /\ IsSequence(new) /\ \A i \in DOMAIN new : new[i].type \in types
  /\ \A i, j \in Turns(new) : i = j
  /\ \A i \in Turns(new) : \E k \in Turns(old) : new[i] = old[k]

LEMMA TailFacts ==
  ASSUME NEW box, NEW types, Follows(box, box, types), box # <<>>
  PROVE  /\ Follows(Tail(box), box, types) /\ Head(box).type \in types
         /\ Head(box).type \notin NoTurnTypes =>
              Turns(Tail(box)) = {} /\ \E i \in Turns(box) : box[i] = Head(box)
<1>1. IsSequence(box) /\ box \in Seq(ToSet(box)) /\ Len(box) \in Nat /\ DOMAIN box = 1..Len(box)
  BY SequenceFacts DEF Follows, IsSequence
<1>2. /\ Tail(box) \in Seq(ToSet(box)) /\ Len(Tail(box)) = Len(box) - 1 /\ Len(box) # 0
      /\ \A i \in 1..Len(Tail(box)) : Tail(box)[i] = box[i + 1]
      /\ Head(box) = box[1]
  BY <1>1
<1>3. IsSequence(Tail(box)) /\ DOMAIN Tail(box) = 1..(Len(box) - 1)
  BY <1>2, SequenceFacts
<1>4. \A i \in Turns(Tail(box)) : i + 1 \in Turns(box) /\ Tail(box)[i] = box[i + 1] /\ i \in 1..(Len(box) - 1)
  BY <1>1, <1>2, <1>3 DEF Turns
<1>5. \A i \in DOMAIN Tail(box) : Tail(box)[i].type \in types
  BY <1>1, <1>2, <1>3 DEF Follows
<1>6. \A i, j \in Turns(Tail(box)) : i = j
  BY <1>4 DEF Follows
<1>7. Follows(Tail(box), box, types)
  BY <1>3, <1>4, <1>5, <1>6 DEF Follows
<1>8. Head(box).type \in types
  BY <1>1, <1>2 DEF Follows
<1>9. ASSUME Head(box).type \notin NoTurnTypes
      PROVE  Turns(Tail(box)) = {} /\ \E i \in Turns(box) : box[i] = Head(box)
  <2>1. 1 \in Turns(box)
    BY <1>1, <1>2, <1>9 DEF Turns
  <2>2. ASSUME NEW i \in Turns(Tail(box)) PROVE FALSE
    <3>1. i + 1 = 1
      BY <1>4, <2>1 DEF Follows
    <3>. QED
      BY <1>1, <1>2, <1>4, <3>1
  <2>. QED
    BY <1>2, <2>1, <2>2
<1>. QED
  BY <1>7, <1>8, <1>9

LEMMA SendFacts ==
  ASSUME NEW box, NEW types, Follows(box, box, types),
         NEW sent, IsSequence(sent), \A k \in DOMAIN sent : sent[k].type \in types,
         NEW t \in Transmitted(box, sent)
  PROVE  /\ Turns(sent) = {} => Follows(t.queue, box, types)
         /\ Turns(box) = {} /\ (\A i, j \in Turns(sent) : i = j) => Follows(t.queue, sent, types)
<1>1. PICK drops : t = [queue |-> box \o RemovePositions(sent, drops), lost |-> lost + Len(drops)]
  BY DEF Transmitted
<1>. DEFINE rest == RemovePositions(sent, drops)
            n == Len(box)
<1>2. IsSequence(box) /\ n \in Nat /\ DOMAIN box = 1..n /\ box \in Seq(ToSet(box))
  BY SequenceFacts DEF Follows, IsSequence
<1>3. PICK at \in [DOMAIN rest -> DOMAIN sent \ ToSet(drops)] :
        /\ \A i \in DOMAIN rest : rest[i] = sent[at[i]]
        /\ \A i, j \in DOMAIN rest : at[i] = at[j] => i = j
  BY RemoveFacts
<1>4. IsSequence(rest)
  BY RemoveFacts
<1>5. t.queue = box \o rest
  BY <1>1
<1>. HIDE DEF rest
<1>6. Len(rest) \in Nat /\ DOMAIN rest = 1..Len(rest) /\ rest \in Seq(ToSet(rest))
  BY <1>4, SequenceFacts DEF IsSequence
<1>. DEFINE new == box \o rest
<1>7. /\ Len(new) = n + Len(rest) /\ DOMAIN new = 1..(n + Len(rest))
      /\ new \in Seq(ToSet(box) \cup ToSet(rest))
      /\ \A i \in 1..n : new[i] = box[i]
      /\ \A i \in (n + 1)..(n + Len(rest)) : i - n \in DOMAIN rest /\ new[i] = rest[i - n]
  <2>1. box \in Seq(ToSet(box) \cup ToSet(rest)) /\ rest \in Seq(ToSet(box) \cup ToSet(rest))
    BY <1>2, <1>6
  <2>. QED
    BY <1>2, <1>6, <2>1
<1>8. IsSequence(new)
  BY <1>7, SequenceFacts
<1>. HIDE DEF new, n
<1>9. \A i \in DOMAIN new : \/ i \in 1..n /\ new[i] = box[i]
                            \/ i - n \in DOMAIN rest /\ i \in Int /\ new[i] = sent[at[i - n]]
                                 /\ at[i - n] \in DOMAIN sent
  BY <1>2, <1>3, <1>6, <1>7
<1>10. \A i \in DOMAIN new : new[i].type \in types
  BY <1>2, <1>9 DEF Follows
<1>11. \A i \in Turns(new) : \/ i \in Turns(box) /\ new[i] = box[i]
                             \/ i - n \in DOMAIN rest /\ i \in Int /\ at[i - n] \in Turns(sent)
                                 /\ new[i] = sent[at[i - n]]
  BY <1>2, <1>9 DEF Turns
<1>12. Turns(sent) = {} => Follows(new, box, types)
  BY <1>8, <1>10, <1>11 DEF Follows
<1>13. ASSUME Turns(box) = {}, \A i, j \in Turns(sent) : i = j
       PROVE  Follows(new, sent, types)
  <2>1. ASSUME NEW i \in Turns(new), NEW j \in Turns(new) PROVE i = j
    <3>1. i - n \in DOMAIN rest /\ j - n \in DOMAIN rest /\ at[i - n] = at[j - n] /\ i \in Int /\ j \in Int
      BY <1>11, <1>13
    <3>2. i - n = j - n
      BY <1>3, <3>1
    <3>. QED
      BY <1>2, <3>1, <3>2
  <2>. QED
    BY <1>8, <1>10, <1>11, <1>13, <2>1 DEF Follows
<1>. QED
  BY <1>5, <1>12, <1>13 DEF new

(* What the keys are made of, at B and at D *)
KeyOfB == <<b.keyPairs, b.kept, b.collided, b.finalKey, BitsOfB(b.kept)>>
KeyOfD == <<d.keyPairs, d.kept, d.cascade, d.finalKey, d.complete, d.started>>

LEMMA QueuesFollow ==
  QueuesInv <=> /\ Follows(toB, toB, BTypes) /\ Follows(toD, toD, DTypes)
                /\ Turns(toB) # {} => Turns(toD) = {} /\ ~TurnEvent
                /\ Turns(toD) # {} => ~TurnEvent
BY DEF QueuesInv, OneTurn, Follows

(* A step that neither takes the turn nor touches a key                    *)
LEMMA QuietStep ==
  ASSUME IInv, AgentsInv', KeyOfB' = KeyOfB, KeyOfD' = KeyOfD, revealed' = revealed,
         Follows(toB', toB, BTypes), Follows(toD', toD, DTypes), TurnEvent' => TurnEvent
  PROVE  IInv'
<1>1. QueuesInv'
  BY QueuesFollow DEF IInv, QueuesInv, OneTurn, Follows
<1>2. ASSUME NEW m, Holds(m) PROVE Holds(m)'
  BY <1>2 DEF Holds, Early, Open, Shared, Sifted, SameBits, KeyOfB, KeyOfD
<1>3. ASSUME NEW m, NEW n, m = n, Holds(m)' PROVE Holds(n)'
  BY <1>3
<1>4. ASSUME NEW i \in Turns(toB)' PROVE Holds(toB[i])'
  <2>1. PICK k \in Turns(toB) : toB'[i] = toB[k]
    BY <1>4 DEF Follows
  <2>2. PICK m : m = toB[k]
    OBVIOUS
  <2>3. Holds(m)'
    BY <1>2, <2>2 DEF IInv, TurnInv
  <2>. QED
    BY <2>1, <2>2, <2>3
<1>5. ASSUME NEW i \in Turns(toD)' PROVE Holds(toD[i])'
  <2>1. PICK k \in Turns(toD) : toD'[i] = toD[k]
    BY <1>5 DEF Follows
  <2>2. PICK m : m = toD[k]
    OBVIOUS
  <2>3. Holds(m)'
    BY <1>2, <2>2 DEF IInv, TurnInv
  <2>. QED
    BY <2>1, <2>2, <2>3
<1>6. TurnEvent' => Shared'
  BY DEF IInv, TurnInv, Shared, Open, KeyOfB, KeyOfD
<1>7. ~d'.started => /\ Turns(toB)' = {} /\ Turns(toD)' = {} /\ ~TurnEvent'
                     /\ Early' /\ revealed' = {}
  <2>1. Turns(toB) = {} => Turns(toB)' = {}
    BY DEF Follows, Turns
  <2>2. Turns(toD) = {} => Turns(toD)' = {}
    BY DEF Follows, Turns
  <2>. QED
    BY <2>1, <2>2 DEF IInv, TurnInv, Early, Open, KeyOfB, KeyOfD
<1>8. TurnInv'
  BY <1>4, <1>5, <1>6, <1>7 DEF TurnInv
<1>9. KeptNeverRevealed' /\ KeysAgree'
  BY DEF IInv, KeptNeverRevealed, KeysAgree, KeyOfB, KeyOfD
<1>. QED
  BY <1>1, <1>8, <1>9 DEF IInv

(* B takes the turn, and passes it on to D or not.                         *)
LEMMA TurnAtB ==
  ASSUME IInv, d.started, Turns(toD) = {}, NEW out, NEW left, BDoes(out, left),
         Follows(toB', toB', BTypes), Turns(toB)' = {}, "cascade.next_request" \notin left,
         out.local = {}, IsSequence(out.sent),
         \A i, j \in Turns(out.sent) : i = j,
         \A k \in DOMAIN out.sent : out.sent[k].type \in DTypes,
         \A k \in Turns(out.sent) : Holds(out.sent[k])',
         AgentsInv', KeptNeverRevealed', KeysAgree'
  PROVE  IInv'
<1>1. Follows(toD', out.sent, DTypes)
  <2>1. PICK t \in Transmitted(toD, out.sent) : toD' = t.queue
    BY DEF BDoes
  <2>2. Follows(toD, toD, DTypes)
    BY QueuesFollow DEF IInv
  <2>. QED
    BY <2>1, <2>2, SendFacts
<1>2. ~TurnEvent' /\ d'.started
  BY DEF BDoes, Effects, TurnEvent
<1>3. QueuesInv'
  BY <1>1, <1>2 DEF QueuesInv, OneTurn, Follows, Turns
<1>4. ASSUME NEW i \in Turns(toD)' PROVE Holds(toD[i])'
  <2>1. PICK k \in Turns(out.sent) : toD'[i] = out.sent[k]
    BY <1>1, <1>4 DEF Follows
  <2>. QED
    BY <2>1
<1>5. TurnInv'
  BY <1>2, <1>4 DEF TurnInv
<1>. QED
  BY <1>3, <1>5 DEF IInv

(* D takes the turn, and passes it on to B, to an event of its own, or not *)
LEMMA TurnAtD ==
  ASSUME IInv, Turns(toB) = {}, NEW out, NEW left, DDoes(out, left), d'.started,
         Follows(toD', toD', DTypes), Turns(toD)' = {}, "cascade.next_request" \notin left,
         "cascade.next_request" \in out.local => Turns(out.sent) = {} /\ Shared',
         IsSequence(out.sent), \A i, j \in Turns(out.sent) : i = j,
         \A k \in DOMAIN out.sent : out.sent[k].type \in BTypes,
         \A k \in Turns(out.sent) : Holds(out.sent[k])',
         AgentsInv', KeptNeverRevealed', KeysAgree'
  PROVE  IInv'
<1>1. Follows(toB', out.sent, BTypes)
  <2>1. PICK t \in Transmitted(toB, out.sent) : toB' = t.queue
    BY DEF DDoes
  <2>2. Follows(toB, toB, BTypes)
    BY QueuesFollow DEF IInv
  <2>. QED
    BY <2>1, <2>2, SendFacts
<1>2. TurnEvent' => Turns(toB)' = {} /\ Shared'
  <2>1. TurnEvent' => "cascade.next_request" \in out.local
    BY DEF DDoes, Effects, TurnEvent
  <2>. QED
    BY <1>1, <2>1 DEF Follows, Turns
<1>3. QueuesInv'
  BY <1>1, <1>2 DEF QueuesInv, OneTurn, Follows, Turns
<1>4. ASSUME NEW i \in Turns(toB)' PROVE Holds(toB[i])'
  <2>1. PICK k \in Turns(out.sent) : toB'[i] = out.sent[k]
    BY <1>1, <1>4 DEF Follows
  <2>. QED
    BY <2>1
<1>5. TurnInv'
  BY <1>2, <1>4 DEF TurnInv
<1>. QED
  BY <1>3, <1>5 DEF IInv

LEMMA OneSent ==
  ASSUME NEW x
  PROVE  /\ IsSequence(<<x>>) /\ DOMAIN <<x>> = {1} /\ <<x>>[1] = x /\ ToSet(<<x>>) = {x}
         /\ IsSequence(<<>>) /\ Turns(<<>>) = {} /\ ToSet(<<>>) = {} /\ DOMAIN <<>> = {}
<1>1. <<x>> \in Seq({x}) /\ <<>> \in Seq({})
  OBVIOUS
<1>2. IsSequence(<<x>>) /\ IsSequence(<<>>)
  BY <1>1, SequenceFacts
<1>3. DOMAIN <<x>> = {1} /\ <<x>>[1] = x /\ DOMAIN <<>> = {}
  OBVIOUS
<1>4. ToSet(<<x>>) = {x} /\ ToSet(<<>>) = {} /\ Turns(<<>>) = {}
  BY <1>3 DEF ToSet, Turns
<1>. QED
  BY <1>2, <1>3, <1>4

(* B has received a message that has the turn.                             *)
TakenAtB(m) ==
  /\ IInv /\ d.started /\ Turns(toD) = {} /\ ~TurnEvent /\ Holds(m)
  /\ Follows(toB', toB', BTypes) /\ Turns(toB') = {}

LEMMA TakesAtB ==
  ASSUME IInv, toB # <<>>, toB' = Tail(toB)
  PROVE  /\ Follows(toB', toB, BTypes) /\ Head(toB).type \in BTypes
         /\ Head(toB).type \notin NoTurnTypes => TakenAtB(Head(toB))
<1>1. Follows(toB, toB, BTypes)
  BY QueuesFollow DEF IInv
<1>2. Follows(toB', toB, BTypes) /\ Head(toB).type \in BTypes
  BY <1>1, TailFacts
<1>3. ASSUME Head(toB).type \notin NoTurnTypes PROVE TakenAtB(Head(toB))
  <2>1. Turns(Tail(toB)) = {} /\ \E i \in Turns(toB) : toB[i] = Head(toB)
    BY <1>1, <1>3, TailFacts
  <2>2. Turns(toB) # {} /\ Holds(Head(toB))
    <3>1. PICK i \in Turns(toB) : toB[i] = Head(toB)
      BY <2>1
    <3>2. Holds(toB[i])
      BY DEF IInv, TurnInv
    <3>. QED
      BY <3>1, <3>2
  <2>. QED
    BY <1>2, <2>1, <2>2 DEF TakenAtB, IInv, QueuesInv, OneTurn, TurnInv, Follows
<1>. QED
  BY <1>2, <1>3

LEMMA BSends ==
  ASSUME NEW self, NEW x, BDoes(Outcome(self, <<x>>, {}), local)
  PROVE  b' = self /\ d' = d /\ revealed' = revealed \cup PairsIn(x)
BY OneSent DEF BDoes, Effects, Outcome

LEMMA BAnswers ==
  ASSUME NEW m, TakenAtB(m), NEW self, NEW x, BDoes(Outcome(self, <<x>>, {}), local),
         x.type \in DTypes, Holds(x)', AgentsInv', KeptNeverRevealed', KeysAgree'
  PROVE  IInv'
<1>. DEFINE out == Outcome(self, <<x>>, {})
<1>1. out.local = {} /\ out.sent = <<x>>
  BY DEF Outcome
<1>2. IsSequence(out.sent) /\ \A k \in DOMAIN out.sent : k = 1 /\ out.sent[k] = x
  BY <1>1, OneSent
<1>3. \A k \in Turns(out.sent) : k = 1 /\ out.sent[k] = x
  BY <1>2 DEF Turns
<1>4. \A k \in Turns(out.sent) : Holds(out.sent[k])'
  BY <1>3
<1>5. /\ IInv /\ d.started /\ Turns(toD) = {} /\ Follows(toB', toB', BTypes) /\ Turns(toB)' = {}
      /\ "cascade.next_request" \notin local
  BY DEF TakenAtB, TurnEvent
<1>6. BDoes(out, local)
  OBVIOUS
<1>. HIDE DEF out
<1>. QED
  BY <1>1, <1>2, <1>3, <1>4, <1>5, <1>6, TurnAtB

LEMMA BStops ==
  ASSUME NEW m, TakenAtB(m), NEW out, BDoes(out, local), out.sent = <<>>, out.local = {},
         AgentsInv', KeptNeverRevealed', KeysAgree'
  PROVE  IInv'
<1>1. IsSequence(out.sent) /\ DOMAIN out.sent = {} /\ Turns(out.sent) = {}
  BY OneSent
<1>2. /\ IInv /\ d.started /\ Turns(toD) = {} /\ Follows(toB', toB', BTypes) /\ Turns(toB)' = {}
      /\ "cascade.next_request" \notin local
  BY DEF TakenAtB, TurnEvent
<1>. QED
  BY <1>1, <1>2, TurnAtB

LEMMA BRaises ==
  ASSUME NEW m, TakenAtB(m), NEW out \in Raise(b), BDoes(out, local)
  PROVE  IInv'
<1>1. out.sent = <<>> /\ out.local = {} /\ b' = b /\ d' = d
  BY DEF Raise, BDoes
<1>2. revealed' = revealed
  BY <1>1, OneSent DEF BDoes, Effects
<1>3. AgentsInv' /\ KeptNeverRevealed' /\ KeysAgree'
  BY <1>1, <1>2 DEF TakenAtB, IInv, AgentsInv, KeptNeverRevealed, KeysAgree, Detected
<1>. QED
  BY <1>1, <1>3, BStops

(* B's handlers *)
LEMMA BOnDManifest ==
  ASSUME NEW m, TakenAtB(m), m.type = "d_manifest", NEW out \in OnDManifest(m), BDoes(out, local)
  PROVE  IInv'
<1>1. PICK bases : out = Outcome([b EXCEPT !.peer = m.bases],
                                 <<[type |-> "b_manifest", bases |-> bases]>>, {})
  BY DEF OnDManifest
<1>. DEFINE x == [type |-> "b_manifest", bases |-> bases]
<1>2. b' = [b EXCEPT !.peer = m.bases] /\ d' = d /\ revealed' = revealed \cup PairsIn(x)
  BY <1>1, BSends
<1>3. PairsIn(x) = {} /\ x.type \in DTypes
  BY DEF PairsIn, DTypes
<1>4. AgentsInv' /\ Early' /\ revealed' = {}
  BY <1>2, <1>3 DEF TakenAtB, IInv, AgentsInv, Holds, Early, Open, Detected
<1>5. Holds(x)'
  BY <1>4 DEF Holds
<1>6. KeptNeverRevealed' /\ KeysAgree'
  BY <1>4 DEF KeptNeverRevealed, KeysAgree, Early, Open
<1>. QED
  BY <1>1, <1>3, <1>4, <1>5, <1>6, BAnswers

LEMMA BOnSiftAccepted ==
  ASSUME NEW m, TakenAtB(m), m.type = "sift.accepted", NEW out \in OnSiftAccepted(m),
         BDoes(out, local)
  PROVE  IInv'
<1>1. CASE out \in Raise(b)
  BY <1>1, BRaises
<1>2. CASE out \notin Raise(b)
  <2>0. PICK x : x = [type |-> "bell.sample",
                      outcomes |-> [p \in DOMAIN m.bellPairs |-> b.seen[p].outcome]]
    OBVIOUS
  <2>1. /\ out = Outcome([b EXCEPT !.keyPairs = m.keyPairs], <<x>>, {})
        /\ ToSet(m.keyPairs) \cap DOMAIN m.bellPairs = {}
        /\ ToSet(m.keyPairs) \subseteq Detected(b)
    BY <1>2, <2>0 DEF OnSiftAccepted
  <2>2. /\ b' = [b EXCEPT !.keyPairs = m.keyPairs] /\ d' = d
        /\ revealed' = revealed \cup PairsIn(x)
    BY <2>1, BSends
  <2>3. PairsIn(x) = DOMAIN m.bellPairs /\ x.type \in DTypes /\ x.type = "bell.sample"
    BY <2>0 DEF PairsIn, DTypes
  <2>4. AgentsInv' /\ Early' /\ revealed' = DOMAIN m.bellPairs
    BY <2>1, <2>2, <2>3 DEF TakenAtB, IInv, AgentsInv, Holds, Early, Open, Detected
  <2>5. b'.keyPairs = d.keyPairs
    BY <2>2 DEF TakenAtB, IInv, AgentsInv, Holds
  <2>6. Holds(x)'
    BY <2>1, <2>2, <2>3, <2>4, <2>5 DEF Holds, Sifted, TakenAtB
  <2>7. KeptNeverRevealed' /\ KeysAgree'
    BY <2>4, OneSent DEF KeptNeverRevealed, KeysAgree, Early, Open
  <2>. QED
    BY <2>1, <2>3, <2>4, <2>6, <2>7, BAnswers
<1>. QED
  BY <1>1, <1>2

LEMMA BOnEstimateSample ==
  ASSUME NEW m, TakenAtB(m), m.type = "estimate.sample", NEW out \in OnEstimateSample(m),
         BDoes(out, local)
  PROVE  IInv'
<1>1. CASE out \in Raise(b)
  BY <1>1, BRaises
<1>2. CASE out \notin Raise(b)
  <2>. DEFINE rest == RemovePositions(b.keyPairs, m.positions)
  <2>1. PICK errors, accept, aborted :
          /\ out = Outcome([b EXCEPT !.kept = rest, !.accepted = accept, !.aborted = aborted],
                           <<[type |-> "estimate.result", positions |-> m.positions,
                              errors |-> errors, accept |-> accept]>>, {})
          /\ ValidPositions(m.positions, Len(BitsOfB(b.keyPairs)))
    BY <1>2 DEF OnEstimateSample
  <2>. DEFINE x == [type |-> "estimate.result", positions |-> m.positions,
                    errors |-> errors, accept |-> accept]
              self == [b EXCEPT !.kept = rest, !.accepted = accept, !.aborted = aborted]
  <2>2. b' = self /\ d' = d /\ revealed' = revealed \cup PairsIn(x)
    BY <2>1, BSends
  <2>3. PairsIn(x) = {} /\ x.type \in DTypes
    BY DEF PairsIn, DTypes
  <2>4. /\ Early /\ Sifted
        /\ revealed \cap ToSet(d.keyPairs) \subseteq {d.keyPairs[i] : i \in ToSet(m.positions)}
    BY DEF TakenAtB, Holds
  <2>5. ToSet(m.positions) \subseteq DOMAIN d.keyPairs
    <3>1. Len(d.keyPairs) \in Nat /\ DOMAIN d.keyPairs = 1..Len(d.keyPairs)
      BY <2>4, SequenceFacts DEF Sifted
    <3>2. BitsOfB(b.keyPairs) = [i \in 1..Len(d.keyPairs) |-> b.seen[d.keyPairs[i]].outcome]
      BY <2>4, <3>1 DEF Sifted, BitsOfB
    <3>3. Len(BitsOfB(b.keyPairs)) = Len(d.keyPairs)
      BY <3>1, <3>2
    <3>. QED
      BY <2>1, <3>1, <3>3 DEF ValidPositions
  <2>6. ToSet(rest) \subseteq ToSet(d.keyPairs) /\ ToSet(rest) \cap revealed = {}
    <3>1. IsSequence(d.keyPairs) /\ rest = RemovePositions(d.keyPairs, m.positions)
      BY <2>4 DEF Sifted
    <3>. HIDE DEF rest
    <3>2. PICK at \in [DOMAIN rest -> DOMAIN d.keyPairs \ ToSet(m.positions)] :
            \A i \in DOMAIN rest : rest[i] = d.keyPairs[at[i]]
      BY <3>1, RemoveFacts
    <3>3. ASSUME NEW i \in DOMAIN rest
          PROVE  rest[i] \in ToSet(d.keyPairs) /\ rest[i] \notin revealed
      <4>1. at[i] \in DOMAIN d.keyPairs /\ at[i] \notin ToSet(m.positions)
        BY <3>2
      <4>2. rest[i] \in ToSet(d.keyPairs)
        BY <3>2, <4>1 DEF ToSet
      <4>3. ASSUME rest[i] \in revealed PROVE FALSE
        <5>1. PICK k \in ToSet(m.positions) : rest[i] = d.keyPairs[k]
          BY <2>4, <4>2, <4>3
        <5>. QED
          BY <2>4, <2>5, <3>2, <4>1, <5>1 DEF Sifted
      <4>. QED
        BY <4>2, <4>3
    <3>. QED
      BY <3>3 DEF ToSet
  <2>. HIDE DEF rest
  <2>7. /\ b'.kept = rest /\ b'.seen = b.seen /\ b'.finalKey = b.finalKey
        /\ b'.keyPairs = b.keyPairs /\ DOMAIN b' = DOMAIN b
    BY <2>2 DEF TakenAtB, IInv, AgentsInv
  <2>8. AgentsInv'
    BY <2>2, <2>4, <2>6, <2>7 DEF TakenAtB, IInv, AgentsInv, Detected, Sifted
  <2>9. revealed' = revealed /\ Open'
    BY <2>2, <2>3, <2>4, <2>7 DEF Early, Open
  <2>10. Holds(x)'
    BY <2>2, <2>4, <2>7, <2>9 DEF Holds, Early, Sifted, rest
  <2>11. KeptNeverRevealed' /\ KeysAgree'
    BY <2>2, <2>4, <2>6, <2>7, <2>9, OneSent DEF KeptNeverRevealed, KeysAgree, Early, Open
  <2>. QED
    BY <2>1, <2>3, <2>8, <2>10, <2>11, BAnswers
<1>. QED
  BY <1>1, <1>2

LEMMA BOnCascadeRequest ==
  ASSUME NEW m, TakenAtB(m), m.type = "parity_request", NEW out \in OnCascadeRequest(m),
         BDoes(out, local)
  PROVE  IInv'
<1>1. CASE out \in Raise(b)
  BY <1>1, BRaises
<1>2. CASE out \notin Raise(b)
  <2>0. PICK x : x = [type |-> "parity_response", id |-> m.id,
                      parity |-> Parity(BitsOfB(b.kept), m.indices)]
    OBVIOUS
  <2>1. out = Outcome([b EXCEPT !.leaked = @ + 1], <<x>>, {})
    BY <1>2, <2>0 DEF OnCascadeRequest
  <2>2. b' = [b EXCEPT !.leaked = @ + 1] /\ d' = d /\ revealed' = revealed \cup PairsIn(x)
    BY <2>1, BSends
  <2>3. PairsIn(x) = {} /\ x.type \in DTypes /\ x.type = "parity_response"
    BY <2>0 DEF PairsIn, DTypes
  <2>4. AgentsInv' /\ Shared' /\ KeptNeverRevealed' /\ KeysAgree'
    BY <2>2, <2>3 DEF TakenAtB, IInv, AgentsInv, Holds, Shared, Open, Detected,
                      KeptNeverRevealed, KeysAgree
  <2>5. Holds(x)'
    BY <2>3, <2>4 DEF Holds
  <2>. QED
    BY <2>1, <2>3, <2>4, <2>5, BAnswers
<1>. QED
  BY <1>1, <1>2

LEMMA BOnVerifyTag ==
  ASSUME NEW m, TakenAtB(m), m.type = "verify.tag", NEW out \in OnVerifyTag(m), BDoes(out, local)
  PROVE  IInv'
<1>1. PICK same, aborted :
        /\ out = Outcome([b EXCEPT !.verified = same,
                                   !.collided = same /\ m.bits # BitsOfB(b.kept),
                                   !.aborted = aborted],
                         <<[type |-> "verify.result", verified |-> same]>>, {})
        /\ same \in BOOLEAN
  <2>1. PICK same \in IF Len(m.bits) = Len(b.kept) THEN TagsAgree(BitsOfB(b.kept), m.bits)
                      ELSE {FALSE} :
          out = Outcome([b EXCEPT !.verified = same,
                                  !.collided = same /\ m.bits # BitsOfB(b.kept),
                                  !.aborted = IF same THEN @ ELSE "verification"],
                        <<[type |-> "verify.result", verified |-> same]>>, {})
    BY DEF OnVerifyTag
  <2>2. same \in BOOLEAN
    BY DEF TagsAgree
  <2>. QED
    BY <2>1, <2>2
<1>. DEFINE x == [type |-> "verify.result", verified |-> same]
            other == same /\ m.bits # BitsOfB(b.kept)
            self == [b EXCEPT !.verified = same, !.collided = other, !.aborted = aborted]
<1>2. b' = self /\ d' = d /\ revealed' = revealed \cup PairsIn(x)
  BY <1>1, BSends
<1>3. PairsIn(x) = {} /\ x.type \in DTypes
  BY DEF PairsIn, DTypes
<1>4. Shared /\ m.bits = d.cascade.bits
  BY DEF TakenAtB, Holds
<1>5. /\ b'.collided = other /\ b'.kept = b.kept /\ b'.seen = b.seen
      /\ b'.keyPairs = b.keyPairs /\ b'.finalKey = b.finalKey /\ DOMAIN b' = DOMAIN b
  <2>. HIDE DEF other
  <2>. QED
    BY <1>2 DEF TakenAtB, IInv, AgentsInv
<1>6. AgentsInv'
  BY <1>2, <1>5 DEF TakenAtB, IInv, AgentsInv, Detected
<1>7. revealed' = revealed /\ Shared'
  BY <1>2, <1>3, <1>4, <1>5 DEF Shared, Open
<1>8. same => SameBits'
  BY <1>2, <1>4, <1>5 DEF SameBits, BitsOfB
<1>9. Holds(x)'
  BY <1>7, <1>8 DEF Holds
<1>10. KeptNeverRevealed' /\ KeysAgree'
  BY <1>2, <1>5, <1>7 DEF TakenAtB, IInv, KeptNeverRevealed, KeysAgree, Shared, Open
<1>. QED
  BY <1>1, <1>3, <1>6, <1>9, <1>10, BAnswers

LEMMA BOnPrivacySeed ==
  ASSUME NEW m, TakenAtB(m), m.type = "privacy.seed", NEW out \in OnPrivacySeed(m),
         BDoes(out, local)
  PROVE  IInv'
<1>1. CASE out \in Raise(b)
  BY <1>1, BRaises
<1>2. CASE out \notin Raise(b)
  <2>. DEFINE x == [type |-> "privacy.done", len |-> m.len]
              self == [b EXCEPT !.finalKey = [bits |-> BitsOfB(b.kept), len |-> m.len]]
  <2>1. out = Outcome(self, <<x>>, {})
    BY <1>2 DEF OnPrivacySeed
  <2>2. b' = self /\ d' = d /\ revealed' = revealed \cup PairsIn(x)
    BY <2>1, BSends
  <2>3. PairsIn(x) = {} /\ x.type \in DTypes
    BY DEF PairsIn, DTypes
  <2>4. /\ ~d.complete /\ SameBits /\ d.finalKey = [bits |-> d.cascade.bits, len |-> m.len]
    BY DEF TakenAtB, Holds
  <2>5. /\ b'.finalKey = [bits |-> BitsOfB(b.kept), len |-> m.len]
        /\ b'.kept = b.kept /\ b'.seen = b.seen /\ b'.collided = b.collided
        /\ b'.keyPairs = b.keyPairs /\ DOMAIN b' = DOMAIN b
    BY <2>2 DEF TakenAtB, IInv, AgentsInv
  <2>6. AgentsInv'
    BY <2>2, <2>5 DEF TakenAtB, IInv, AgentsInv, Detected
  <2>7. KeysAgree'
    BY <2>2, <2>4, <2>5 DEF KeysAgree, SameBits
  <2>8. KeptNeverRevealed'
    BY <2>2, <2>3, <2>5 DEF TakenAtB, IInv, KeptNeverRevealed
  <2>9. Holds(x)'
    BY <2>5 DEF Holds
  <2>. QED
    BY <2>1, <2>3, <2>6, <2>7, <2>8, <2>9, BAnswers
<1>. QED
  BY <1>1, <1>2

(* B's steps *)
LEMMA BQuiet ==
  ASSUME IInv, NEW out, NEW left, BDoes(out, left), Follows(toB', toB, BTypes),
         left \subseteq local, out.local = {}, IsSequence(out.sent), Turns(out.sent) = {},
         \A k \in DOMAIN out.sent : out.sent[k].type \in DTypes,
         \A x \in ToSet(out.sent) : PairsIn(x) = {},
         AgentsInv', KeyOfB' = KeyOfB
  PROVE  IInv'
<1>1. Follows(toD', toD, DTypes)
  <2>1. PICK t \in Transmitted(toD, out.sent) : toD' = t.queue
    BY DEF BDoes
  <2>2. Follows(toD, toD, DTypes)
    BY QueuesFollow DEF IInv
  <2>. QED
    BY <2>1, <2>2, SendFacts
<1>2. revealed' = revealed /\ d' = d /\ (TurnEvent' => TurnEvent)
  BY DEF BDoes, Effects, TurnEvent
<1>3. KeyOfD' = KeyOfD
  BY <1>2 DEF KeyOfD
<1>. QED
  BY <1>1, <1>2, <1>3, QuietStep

LEMMA BHears ==
  ASSUME IInv, NEW m, m.type \in {"bell.result", "abort"}, Follows(toB', toB, BTypes),
         NEW out \in BOnMessage(m), BDoes(out, local)
  PROVE  IInv'
<1>1. PICK aborted : out = Outcome([b EXCEPT !.aborted = aborted], <<>>, {})
  BY DEF BOnMessage, OnBellResult, OnPeerAbort
<1>2. b' = [b EXCEPT !.aborted = aborted] /\ d' = d /\ out.sent = <<>> /\ out.local = {}
  BY <1>1 DEF BDoes, Outcome
<1>3. AgentsInv' /\ KeyOfB' = KeyOfB
  BY <1>2 DEF IInv, AgentsInv, Detected, KeyOfB, BitsOfB
<1>. QED
  BY <1>2, <1>3, OneSent, BQuiet

LEMMA BReceivesKeeps == IInv /\ BReceives => IInv'
<1>. SUFFICES ASSUME IInv, BReceives PROVE IInv'
  OBVIOUS
<1>1. PICK m : m = Head(toB)
  OBVIOUS
<1>2. PICK out \in BOnMessage(m) : BDoes(out, local)
  BY <1>1 DEF BReceives
<1>3. /\ Follows(toB', toB, BTypes) /\ m.type \in BTypes
      /\ m.type \notin NoTurnTypes => TakenAtB(m)
  BY <1>1, TakesAtB DEF BReceives
<1>4. CASE m.type = "d_manifest"
  <2>1. TakenAtB(m)
    BY <1>3, <1>4 DEF NoTurnTypes
  <2>2. out \in OnDManifest(m)
    BY <1>2, <1>4 DEF BOnMessage
  <2>. QED
    BY <1>2, <1>4, <2>1, <2>2, BOnDManifest
<1>5. CASE m.type = "sift.accepted"
  <2>1. TakenAtB(m)
    BY <1>3, <1>5 DEF NoTurnTypes
  <2>2. out \in OnSiftAccepted(m)
    BY <1>2, <1>5 DEF BOnMessage
  <2>. QED
    BY <1>2, <1>5, <2>1, <2>2, BOnSiftAccepted
<1>6. CASE m.type = "estimate.sample"
  <2>1. TakenAtB(m)
    BY <1>3, <1>6 DEF NoTurnTypes
  <2>2. out \in OnEstimateSample(m)
    BY <1>2, <1>6 DEF BOnMessage
  <2>. QED
    BY <1>2, <1>6, <2>1, <2>2, BOnEstimateSample
<1>7. CASE m.type = "parity_request"
  <2>1. TakenAtB(m)
    BY <1>3, <1>7 DEF NoTurnTypes
  <2>2. out \in OnCascadeRequest(m)
    BY <1>2, <1>7 DEF BOnMessage
  <2>. QED
    BY <1>2, <1>7, <2>1, <2>2, BOnCascadeRequest
<1>8. CASE m.type = "verify.tag"
  <2>1. TakenAtB(m)
    BY <1>3, <1>8 DEF NoTurnTypes
  <2>2. out \in OnVerifyTag(m)
    BY <1>2, <1>8 DEF BOnMessage
  <2>. QED
    BY <1>2, <1>8, <2>1, <2>2, BOnVerifyTag
<1>9. CASE m.type = "privacy.seed"
  <2>1. TakenAtB(m)
    BY <1>3, <1>9 DEF NoTurnTypes
  <2>2. out \in OnPrivacySeed(m)
    BY <1>2, <1>9 DEF BOnMessage
  <2>. QED
    BY <1>2, <1>9, <2>1, <2>2, BOnPrivacySeed
<1>10. CASE m.type \in {"bell.result", "abort"}
  BY <1>2, <1>3, <1>10, BHears
<1>. QED
  BY <1>3, <1>4, <1>5, <1>6, <1>7, <1>8, <1>9, <1>10 DEF BTypes

LEMMA BIsReadyKeeps == IInv /\ BIsReady => IInv'
<1>. SUFFICES ASSUME IInv, BIsReady PROVE IInv'
  OBVIOUS
<1>. DEFINE x == [type |-> "receiver_ready"]
<1>1. BDoes(Outcome(b, <<x>>, {}), local \ {"b.ready"})
  BY DEF BIsReady, BReady
<1>. DEFINE out == Outcome(b, <<x>>, {})
<1>2. out.sent = <<x>> /\ out.local = {} /\ b' = b /\ d' = d
  BY <1>1 DEF BDoes, Outcome
<1>3. Turns(out.sent) = {} /\ PairsIn(x) = {} /\ x.type \in DTypes
  BY <1>2, OneSent DEF Turns, NoTurnTypes, PairsIn, DTypes
<1>4. AgentsInv' /\ KeyOfB' = KeyOfB
  BY <1>2 DEF IInv, AgentsInv, Detected, KeyOfB, BitsOfB
<1>5. Follows(toB', toB, BTypes)
  BY QueuesFollow DEF IInv, BIsReady
<1>6. \A k \in DOMAIN out.sent : out.sent[k].type \in DTypes
  BY <1>2, <1>3, OneSent
<1>7. \A y \in ToSet(out.sent) : PairsIn(y) = {}
  BY <1>2, <1>3, OneSent
<1>8. IsSequence(out.sent)
  BY <1>2, OneSent
<1>. HIDE DEF out, x
<1>. QED
  BY <1>1, <1>2, <1>3, <1>4, <1>5, <1>6, <1>7, <1>8, BQuiet DEF out

(* The steps of nobody's message *)
LEMMA ReportKeeps ==
  ASSUME NEW actor, NEW r, DOMAIN actor.seen = Pairs, actor.seen = [p \in Pairs |-> actor.seen[p]],
         "seen" \in DOMAIN actor
  PROVE  LET new == RecordReport(actor, r)
         IN  /\ DOMAIN new = DOMAIN actor /\ new.seen = [p \in Pairs |-> new.seen[p]]
             /\ \A p \in Detected(actor) : new.seen[p] = actor.seen[p]
             /\ \A f \in DOMAIN actor \ {"seen"} : new[f] = actor[f]
<1>. DEFINE new == RecordReport(actor, r)
<1>1. CASE new = actor
  BY <1>1
<1>2. CASE new # actor
  <2>1. /\ new = [actor EXCEPT !.seen[r.pair] = [basis |-> r.basis, outcome |-> r.outcome]]
        /\ actor.seen[r.pair] = NotDetected
    BY <1>2 DEF RecordReport
  <2>2. /\ DOMAIN new = DOMAIN actor
        /\ new.seen = [actor.seen EXCEPT ![r.pair] = [basis |-> r.basis, outcome |-> r.outcome]]
        /\ \A f \in DOMAIN actor \ {"seen"} : new[f] = actor[f]
    BY <2>1
  <2>. HIDE DEF new
  <2>3. new.seen = [p \in Pairs |-> new.seen[p]]
    BY <2>2
  <2>4. \A p \in Detected(actor) : new.seen[p] = actor.seen[p]
    BY <2>1, <2>2 DEF Detected
  <2>. QED
    BY <2>2, <2>3, <2>4 DEF new
<1>. QED
  BY <1>1, <1>2

LEMMA BReportKeeps == IInv /\ BReport => IInv'
<1>. SUFFICES ASSUME IInv, BReport PROVE IInv'
  OBVIOUS
<1>1. b' = RecordReport(b, Head(frame.b)) /\ d' = d /\ revealed' = revealed
      /\ local' = local /\ toB' = toB /\ toD' = toD
  BY DEF BReport
<1>2. /\ DOMAIN b' = DOMAIN b /\ b'.seen = [p \in Pairs |-> b'.seen[p]]
      /\ \A p \in Detected(b) : b'.seen[p] = b.seen[p]
      /\ \A f \in DOMAIN b \ {"seen"} : b'[f] = b[f]
  BY <1>1, ReportKeeps DEF IInv, AgentsInv
<1>3. Detected(b) \subseteq Detected(b')
  BY <1>2 DEF Detected
<1>4. AgentsInv'
  BY <1>1, <1>2, <1>3 DEF IInv, AgentsInv, Detected
<1>5. BitsOfB(b.kept)' = BitsOfB(b.kept)
  BY <1>2 DEF BitsOfB, IInv, AgentsInv, ToSet
<1>6. KeyOfB' = KeyOfB /\ KeyOfD' = KeyOfD
  BY <1>1, <1>2, <1>5 DEF KeyOfB, KeyOfD, IInv, AgentsInv
<1>7. Follows(toB', toB, BTypes) /\ Follows(toD', toD, DTypes) /\ (TurnEvent' => TurnEvent)
  BY <1>1, QueuesFollow DEF IInv, TurnEvent
<1>. QED
  BY <1>1, <1>4, <1>6, <1>7, QuietStep

LEMMA DReportKeeps == IInv /\ DReport => IInv'
<1>. SUFFICES ASSUME IInv, DReport PROVE IInv'
  OBVIOUS
<1>1. d' = RecordReport(d, Head(frame.d)) /\ b' = b /\ revealed' = revealed
      /\ local' = local /\ toB' = toB /\ toD' = toD
  BY DEF DReport
<1>2. /\ DOMAIN d' = DOMAIN d /\ d'.seen = [p \in Pairs |-> d'.seen[p]]
      /\ \A f \in DOMAIN d \ {"seen"} : d'[f] = d[f]
  BY <1>1, ReportKeeps DEF IInv, AgentsInv
<1>3. AgentsInv'
  BY <1>1, <1>2 DEF IInv, AgentsInv, Detected
<1>4. KeyOfB' = KeyOfB /\ KeyOfD' = KeyOfD
  BY <1>1, <1>2 DEF KeyOfB, KeyOfD, BitsOfB, IInv, AgentsInv
<1>5. Follows(toB', toB, BTypes) /\ Follows(toD', toD, DTypes) /\ (TurnEvent' => TurnEvent)
  BY <1>1, QueuesFollow DEF IInv, TurnEvent
<1>. QED
  BY <1>1, <1>3, <1>4, <1>5, QuietStep

LEMMA SourceKeeps ==
  IInv /\ (CStarts \/ FrameDone \/ QuantumDone("b.ready") \/ QuantumDone("d.ready")) => IInv'
<1>. SUFFICES ASSUME IInv,
                     CStarts \/ FrameDone \/ QuantumDone("b.ready") \/ QuantumDone("d.ready")
              PROVE  IInv'
  OBVIOUS
<1>1. /\ b' = b /\ d' = d /\ toB' = toB /\ toD' = toD /\ revealed' = revealed
      /\ TurnEvent' => TurnEvent
  BY DEF CStarts, FrameDone, QuantumDone, TurnEvent
<1>2. AgentsInv' /\ KeyOfB' = KeyOfB /\ KeyOfD' = KeyOfD
  BY <1>1 DEF IInv, AgentsInv, Detected, KeyOfB, KeyOfD, BitsOfB
<1>3. Follows(toB', toB, BTypes) /\ Follows(toD', toD, DTypes)
  BY <1>1, QueuesFollow DEF IInv
<1>. QED
  BY <1>1, <1>2, <1>3, QuietStep

(* What D sends: at most the result of the Bell test, and then a message   *)
Prelude(q) == q = <<>> \/ \E r : r.type = "bell.result" /\ q = <<r>>

PairsOf(sent) == UNION {PairsIn(m) : m \in ToSet(sent)}

LEMMA PreludeFacts ==
  ASSUME NEW q, Prelude(q)
  PROVE  /\ IsSequence(q) /\ Turns(q) = {} /\ PairsOf(q) = {}
         /\ \A k \in DOMAIN q : q[k].type \in BTypes
<1>1. CASE q = <<>>
  BY <1>1, OneSent DEF PairsOf
<1>2. CASE q # <<>>
  <2>1. PICK r : r.type = "bell.result" /\ q = <<r>>
    BY <1>2 DEF Prelude
  <2>2. PairsIn(r) = {} /\ r.type \in BTypes /\ r.type \in NoTurnTypes
    BY <2>1 DEF PairsIn, BTypes, NoTurnTypes
  <2>. QED
    BY <2>1, <2>2, OneSent DEF PairsOf, Turns
<1>. QED
  BY <1>1, <1>2

LEMMA AppendFacts ==
  ASSUME NEW q, Prelude(q), NEW x, x.type \in BTypes
  PROVE  LET sent == Append(q, x)
         IN  /\ IsSequence(sent) /\ \A k \in DOMAIN sent : sent[k].type \in BTypes
             /\ \A i, j \in Turns(sent) : i = j
             /\ \A k \in Turns(sent) : sent[k] = x
             /\ x.type \in NoTurnTypes => Turns(sent) = {}
             /\ PairsOf(sent) = PairsIn(x)
<1>. DEFINE sent == Append(q, x)
<1>1. /\ IsSequence(q) /\ Turns(q) = {} /\ PairsOf(q) = {}
      /\ \A k \in DOMAIN q : q[k].type \in BTypes
  BY PreludeFacts
<1>2. Len(q) \in Nat /\ DOMAIN q = 1..Len(q) /\ q \in Seq(ToSet(q) \cup {x})
  BY <1>1, SequenceFacts DEF IsSequence
<1>3. /\ sent \in Seq(ToSet(q) \cup {x}) /\ DOMAIN sent = 1..(Len(q) + 1)
      /\ sent[Len(q) + 1] = x /\ \A k \in 1..Len(q) : sent[k] = q[k]
  BY <1>2
<1>4. IsSequence(sent)
  BY <1>3, SequenceFacts
<1>5. ToSet(sent) = ToSet(q) \cup {x}
  <2>. HIDE DEF sent
  <2>1. \A k \in DOMAIN sent : k = Len(q) + 1 \/ k \in 1..Len(q)
    BY <1>2, <1>3
  <2>2. 1..Len(q) \subseteq DOMAIN sent /\ Len(q) + 1 \in DOMAIN sent
    BY <1>2, <1>3
  <2>. QED
    BY <1>2, <1>3, <2>1, <2>2 DEF ToSet
<1>. HIDE DEF sent
<1>6. PairsOf(sent) = PairsIn(x)
  BY <1>1, <1>5 DEF PairsOf
<1>7. \A k \in DOMAIN sent : sent[k].type \in BTypes
  BY <1>1, <1>2, <1>3
<1>8. \A k \in Turns(sent) : k = Len(q) + 1 /\ sent[k] = x
  BY <1>1, <1>2, <1>3 DEF Turns
<1>9. x.type \in NoTurnTypes => Turns(sent) = {}
  BY <1>8 DEF Turns
<1>. QED
  BY <1>4, <1>6, <1>7, <1>8, <1>9 DEF sent

(* D has the turn.                                                         *)
TurnOfD(left) ==
  /\ IInv /\ Turns(toB) = {} /\ "cascade.next_request" \notin left
  /\ Follows(toD', toD', DTypes) /\ Turns(toD') = {}

LEMMA TakesAtD ==
  ASSUME IInv, toD # <<>>, toD' = Tail(toD)
  PROVE  /\ Follows(toD', toD, DTypes) /\ Head(toD).type \in DTypes
         /\ Head(toD).type \notin NoTurnTypes => TurnOfD(local) /\ d.started /\ Holds(Head(toD))
<1>1. Follows(toD, toD, DTypes)
  BY QueuesFollow DEF IInv
<1>2. Follows(toD', toD, DTypes) /\ Head(toD).type \in DTypes
  BY <1>1, TailFacts
<1>3. ASSUME Head(toD).type \notin NoTurnTypes
      PROVE  TurnOfD(local) /\ d.started /\ Holds(Head(toD))
  <2>1. Turns(Tail(toD)) = {} /\ \E i \in Turns(toD) : toD[i] = Head(toD)
    BY <1>1, <1>3, TailFacts
  <2>2. Turns(toD) # {} /\ Holds(Head(toD))
    <3>1. PICK i \in Turns(toD) : toD[i] = Head(toD)
      BY <2>1
    <3>2. Holds(toD[i])
      BY DEF IInv, TurnInv
    <3>. QED
      BY <3>1, <3>2
  <2>3. Turns(toB) = {} /\ ~TurnEvent
    BY <2>2 DEF IInv, QueuesInv, OneTurn
  <2>4. Follows(toD', toD', DTypes)
    BY <1>2 DEF Follows
  <2>. QED
    BY <1>2, <2>1, <2>2, <2>3, <2>4 DEF TurnOfD, IInv, TurnInv, TurnEvent
<1>. QED
  BY <1>2, <1>3

LEMMA DSends ==
  ASSUME NEW out, NEW left, DDoes(out, left)
  PROVE  d' = out.self /\ b' = b /\ revealed' = revealed \cup PairsOf(out.sent)
BY DEF DDoes, Effects, PairsOf

LEMMA DSaysNothing ==
  ASSUME NEW out, NEW left, DDoes(out, left), out.sent = <<>>
  PROVE  d' = out.self /\ b' = b /\ revealed' = revealed
<1>1. PairsOf(<<>>) = {}
  BY OneSent DEF PairsOf
<1>. QED
  BY <1>1, DSends

LEMMA DSays ==
  ASSUME NEW out, NEW left, DDoes(out, left), NEW q, Prelude(q), NEW x, x.type \in BTypes,
         out.sent = Append(q, x)
  PROVE  d' = out.self /\ b' = b /\ revealed' = revealed \cup PairsIn(x)
<1>1. PICK sent : sent = Append(q, x)
  OBVIOUS
<1>2. PairsOf(sent) = PairsIn(x)
  BY <1>1, AppendFacts
<1>. QED
  BY <1>1, <1>2, DSends

(* D answers, after the result of the Bell test or at once.                *)
LEMMA DAnswers ==
  ASSUME NEW left, TurnOfD(left), NEW out, DDoes(out, left), NEW q, Prelude(q), NEW x,
         x.type \in BTypes, out.sent = Append(q, x), out.local = {}, Holds(x)',
         d'.started, AgentsInv', KeptNeverRevealed', KeysAgree'
  PROVE  IInv'
<1>0. PICK sent : sent = Append(q, x)
  OBVIOUS
<1>1. /\ IsSequence(sent) /\ \A k \in DOMAIN sent : sent[k].type \in BTypes
      /\ \A i, j \in Turns(sent) : i = j
      /\ \A k \in Turns(sent) : sent[k] = x
  BY <1>0, AppendFacts
<1>2. out.sent = sent /\ \A k \in Turns(sent) : Holds(sent[k])'
  BY <1>0, <1>1
<1>3. IInv /\ Turns(toB) = {} /\ "cascade.next_request" \notin left
      /\ Follows(toD', toD', DTypes) /\ Turns(toD)' = {}
  BY DEF TurnOfD
<1>. QED
  BY <1>1, <1>2, <1>3, TurnAtD

(* D passes the turn on to an event of its own, or to nobody.              *)
LEMMA DStops ==
  ASSUME NEW left, TurnOfD(left), NEW out, DDoes(out, left),
         IsSequence(out.sent), Turns(out.sent) = {},
         \A k \in DOMAIN out.sent : out.sent[k].type \in BTypes,
         "cascade.next_request" \in out.local => Shared',
         d'.started, AgentsInv', KeptNeverRevealed', KeysAgree'
  PROVE  IInv'
<1>1. IInv /\ Turns(toB) = {} /\ "cascade.next_request" \notin left
      /\ Follows(toD', toD', DTypes) /\ Turns(toD)' = {}
  BY DEF TurnOfD
<1>. QED
  BY <1>1, TurnAtD

LEMMA DRaises ==
  ASSUME NEW left, TurnOfD(left), d.started, NEW out \in Raise(d), DDoes(out, left)
  PROVE  IInv'
<1>1. out.sent = <<>> /\ out.local = {} /\ b' = b /\ d' = d
  BY DEF Raise, DDoes
<1>2. revealed' = revealed
  BY <1>1, DSaysNothing
<1>3. AgentsInv' /\ KeptNeverRevealed' /\ KeysAgree'
  BY <1>1, <1>2 DEF TurnOfD, IInv, AgentsInv, KeptNeverRevealed, KeysAgree, Detected
<1>. QED
  BY <1>1, <1>3, OneSent, DStops

(* Giving up, or nothing more to say: the keys stay as they are.           *)
LEMMA AbortFacts ==
  ASSUME NEW actor, NEW q, Prelude(q), NEW reason, NEW out \in Abort(actor, q, reason)
  PROVE  /\ IsSequence(out.sent) /\ Turns(out.sent) = {} /\ PairsOf(out.sent) = {}
         /\ \A k \in DOMAIN out.sent : out.sent[k].type \in BTypes
         /\ out.local = {} /\ DOMAIN out.self = DOMAIN actor
         /\ \A f \in DOMAIN actor \ {"aborted"} : out.self[f] = actor[f]
<1>1. CASE actor.aborted # "no"
  <2>1. out = Outcome(actor, q, {})
    BY <1>1 DEF Abort
  <2>. QED
    BY <2>1, PreludeFacts DEF Outcome
<1>2. CASE actor.aborted = "no"
  <2>. DEFINE x == [type |-> "abort"]
  <2>1. out = Outcome([actor EXCEPT !.aborted = reason], Append(q, x), {})
    BY <1>2 DEF Abort
  <2>2. x.type \in BTypes /\ x.type \in NoTurnTypes /\ PairsIn(x) = {}
    BY DEF BTypes, NoTurnTypes, PairsIn
  <2>. HIDE DEF x
  <2>. QED
    BY <2>1, <2>2, AppendFacts DEF Outcome
<1>. QED
  BY <1>1, <1>2

LEMMA DUntouched ==
  ASSUME IInv, b' = b, revealed' = revealed, DOMAIN d' = DOMAIN d, d'.seen = d.seen,
         d'.kept = d.kept, d'.finalKey = d.finalKey, d'.complete = d.complete
  PROVE  /\ AgentsInv' /\ KeptNeverRevealed' /\ KeysAgree'
         /\ Shared => Shared'
         /\ Early => Early'
         /\ Open => Open'
BY DEF IInv, AgentsInv, Detected, KeptNeverRevealed, KeysAgree, Shared, Early, Open

LEMMA DAborts ==
  ASSUME NEW left, TurnOfD(left), d.started, NEW actor, DOMAIN actor = DOMAIN d,
         \A f \in DOMAIN d \ {"s"} : actor[f] = d[f],
         NEW q, Prelude(q), NEW reason, NEW out \in Abort(actor, q, reason), DDoes(out, left)
  PROVE  IInv'
<1>1. /\ IsSequence(out.sent) /\ Turns(out.sent) = {} /\ PairsOf(out.sent) = {}
      /\ \A k \in DOMAIN out.sent : out.sent[k].type \in BTypes
      /\ out.local = {} /\ DOMAIN out.self = DOMAIN actor
      /\ \A f \in DOMAIN actor \ {"aborted"} : out.self[f] = actor[f]
  BY AbortFacts
<1>2. d' = out.self /\ b' = b /\ revealed' = revealed
  BY <1>1, DSends
<1>3. /\ DOMAIN d' = DOMAIN d /\ d'.seen = d.seen /\ d'.kept = d.kept
      /\ d'.finalKey = d.finalKey /\ d'.complete = d.complete /\ d'.started
  BY <1>1, <1>2 DEF TurnOfD, IInv, AgentsInv
<1>4. AgentsInv' /\ KeptNeverRevealed' /\ KeysAgree'
  BY <1>2, <1>3, DUntouched DEF TurnOfD
<1>. QED
  BY <1>1, <1>3, <1>4, DStops

(* D's handlers *)
LEMMA DSiftingKeeps ==
  ASSUME IInv, NEW actor, DOMAIN actor = DOMAIN d,
         \A f \in DOMAIN d \ {"ready", "bReady"} : actor[f] = d[f],
         NEW out \in MaybeStartSifting(actor), NEW left, DDoes(out, left), left \subseteq local,
         Follows(toD', toD, DTypes)
  PROVE  IInv'
<1>1. CASE ~actor.ready \/ ~actor.bReady \/ actor.started
  <2>1. out = Outcome(actor, <<>>, {})
    BY <1>1 DEF MaybeStartSifting
  <2>2. d' = actor /\ b' = b /\ out.sent = <<>> /\ out.local = {} /\ revealed' = revealed
    BY <2>1, DSaysNothing DEF Outcome
  <2>3. KeyOfD' = KeyOfD /\ DOMAIN d' = DOMAIN d /\ d'.seen = d.seen
    BY <2>2 DEF IInv, AgentsInv, KeyOfD
  <2>4. AgentsInv' /\ KeyOfB' = KeyOfB
    BY <2>2, <2>3 DEF IInv, AgentsInv, Detected, KeyOfB, BitsOfB
  <2>5. Follows(toB', toB, BTypes)
    <3>1. PICK t \in Transmitted(toB, out.sent) : toB' = t.queue
      BY DEF DDoes
    <3>2. Follows(toB, toB, BTypes)
      BY QueuesFollow DEF IInv
    <3>. QED
      BY <2>2, <3>1, <3>2, OneSent, SendFacts
  <2>6. TurnEvent' => TurnEvent
    BY <2>2 DEF TurnEvent, DDoes, Effects
  <2>. QED
    BY <2>2, <2>3, <2>4, <2>5, <2>6, QuietStep
<1>2. CASE actor.ready /\ actor.bReady /\ ~actor.started
  <2>0. PICK x : x = [type |-> "d_manifest",
                      bases |-> [p \in Detected(actor) |-> actor.seen[p].basis]]
    OBVIOUS
  <2>1. out = Outcome([actor EXCEPT !.started = TRUE], <<x>>, {})
    BY <1>2, <2>0 DEF MaybeStartSifting
  <2>2. ~d.started
    BY <1>2 DEF IInv, AgentsInv
  <2>3. /\ Turns(toB) = {} /\ Turns(toD) = {} /\ ~TurnEvent /\ Early /\ revealed = {}
    BY <2>2 DEF IInv, TurnInv
  <2>4. TurnOfD(left)
    BY <2>3 DEF TurnOfD, Follows, TurnEvent, Turns
  <2>5. x.type \in BTypes /\ x.type = "d_manifest" /\ PairsIn(x) = {} /\ Prelude(<<>>)
    BY <2>0 DEF BTypes, PairsIn, Prelude
  <2>6. out.sent = Append(<<>>, x) /\ out.local = {} /\ out.self = [actor EXCEPT !.started = TRUE]
    BY <2>1 DEF Outcome
  <2>7. /\ d' = [actor EXCEPT !.started = TRUE] /\ b' = b /\ revealed' = revealed
    <3>1. PICK q : q = <<>>
      OBVIOUS
    <3>2. Prelude(q) /\ out.sent = Append(q, x)
      BY <2>5, <2>6, <3>1
    <3>3. d' = out.self /\ b' = b /\ revealed' = revealed \cup PairsIn(x)
      BY <2>5, <3>2, DSays
    <3>. QED
      BY <2>5, <2>6, <3>3
  <2>8. /\ DOMAIN d' = DOMAIN d /\ d'.seen = d.seen /\ d'.kept = d.kept
        /\ d'.finalKey = d.finalKey /\ d'.complete = d.complete /\ d'.started
    BY <2>7 DEF IInv, AgentsInv
  <2>9. AgentsInv' /\ KeptNeverRevealed' /\ KeysAgree' /\ Early'
    BY <2>3, <2>7, <2>8, DUntouched
  <2>10. Holds(x)'
    BY <2>3, <2>5, <2>7, <2>9 DEF Holds
  <2>. QED
    BY <2>4, <2>5, <2>6, <2>8, <2>9, <2>10, DAnswers
<1>. QED
  BY <1>1, <1>2

LEMMA DOnBManifest ==
  ASSUME E91Assumption, NEW m, TurnOfD(local), d.started, Holds(m), m.type = "b_manifest",
         NEW out \in OnBManifest(m), DDoes(out, local)
  PROVE  IInv'
<1>1. CASE out \in Raise(d)
  BY <1>1, DRaises
<1>2. CASE out \notin Raise(d)
  <2>. DEFINE settings(p) == <<m.bases[p], d.seen[p].basis>>
              chosen == {p \in DOMAIN m.bases : settings(p) \in KeySettings}
              keyPairs == InOrder(chosen)
              bellPairs == [p \in {q \in DOMAIN m.bases : settings(q) \in Categories} |-> settings(p)]
              self == [d EXCEPT !.keyPairs = keyPairs, !.bellPairs = bellPairs]
  <2>0. PICK x : x = [type |-> "sift.accepted", keyPairs |-> keyPairs, bellPairs |-> bellPairs]
    OBVIOUS
  <2>1. out = Outcome(self, <<x>>, {}) /\ DOMAIN m.bases \subseteq Detected(d)
    BY <1>2, <2>0 DEF OnBManifest
  <2>2. chosen \in SUBSET Int /\ IsFiniteSet(chosen)
    <3>1. chosen \in SUBSET Pairs
      BY <2>1 DEF Detected
    <3>2. Pairs \subseteq Int /\ IsFiniteSet(Pairs)
      BY DEF E91Assumption
    <3>. HIDE DEF chosen
    <3>3. IsFiniteSet(chosen)
      BY <3>1, <3>2, FS_Subset
    <3>. QED
      BY <3>1, <3>2, <3>3
  <2>3. /\ IsSequence(keyPairs)
        /\ \A i, j \in DOMAIN keyPairs : keyPairs[i] = keyPairs[j] => i = j
    <3>. HIDE DEF chosen
    <3>. QED
      BY <2>2, InOrderFacts, SequenceFacts
  <2>. HIDE DEF chosen, keyPairs, bellPairs
  <2>4. out.sent = Append(<<>>, x) /\ out.local = {} /\ out.self = self
    BY <2>1 DEF Outcome
  <2>5. x.type \in BTypes /\ x.type = "sift.accepted" /\ x.keyPairs = keyPairs
        /\ PairsIn(x) = {} /\ Prelude(<<>>)
    BY <2>0 DEF BTypes, PairsIn, Prelude
  <2>6. d' = self /\ b' = b /\ revealed' = revealed
    <3>1. PICK q : q = <<>>
      OBVIOUS
    <3>2. Prelude(q) /\ out.sent = Append(q, x)
      BY <2>4, <2>5, <3>1
    <3>3. d' = out.self /\ b' = b /\ revealed' = revealed \cup PairsIn(x)
      BY <2>5, <3>2, DSays
    <3>. QED
      BY <2>4, <2>5, <3>3
  <2>7. /\ DOMAIN d' = DOMAIN d /\ d'.seen = d.seen /\ d'.kept = d.kept
        /\ d'.finalKey = d.finalKey /\ d'.complete = d.complete /\ d'.started
        /\ d'.keyPairs = keyPairs
    BY <2>6 DEF TurnOfD, IInv, AgentsInv
  <2>8. Early /\ revealed = {}
    BY DEF Holds
  <2>9. AgentsInv' /\ KeptNeverRevealed' /\ KeysAgree' /\ Early'
    BY <2>6, <2>7, <2>8, DUntouched DEF TurnOfD
  <2>10. Holds(x)'
    BY <2>3, <2>5, <2>6, <2>7, <2>8, <2>9 DEF Holds
  <2>. HIDE DEF self
  <2>. QED
    BY <2>4, <2>5, <2>7, <2>9, <2>10, DAnswers
<1>. QED
  BY <1>1, <1>2

LEMMA DOnBellSample ==
  ASSUME NEW m, TurnOfD(local), d.started, Holds(m), m.type = "bell.sample",
         NEW out \in OnBellSample(m), DDoes(out, local)
  PROVE  IInv'
<1>. DEFINE accept == BellAccepted(m.outcomes)
            r == [type |-> "bell.result", accept |-> accept]
            actor == [d EXCEPT !.s = SValue(m.outcomes)]
<1>0. Prelude(<<r>>)
  BY DEF Prelude
<1>. HIDE DEF r
<1>1. /\ DOMAIN actor = DOMAIN d
      /\ \A f \in DOMAIN d \ {"s"} : actor[f] = d[f]
  OBVIOUS
<1>. HIDE DEF accept
<1>2. Early /\ Sifted /\ revealed \cap ToSet(d.keyPairs) = {}
  BY DEF Holds
<1>3. CASE out \in Raise(d)
  BY <1>3, DRaises
<1>4. CASE out \in StartQberEstimation(actor, <<r>>)
  <2>. HIDE DEF actor
  <2>1. ASSUME NEW reason, out \in Abort(actor, <<r>>, reason) PROVE IInv'
    <3>1. PICK q, other : q = <<r>> /\ other = actor
      OBVIOUS
    <3>2. Prelude(q) /\ out \in Abort(other, q, reason)
      BY <1>0, <2>1, <3>1
    <3>. QED
      BY <1>1, <3>1, <3>2, DAborts
  <2>2. CASE Len(actor.keyPairs) < MinSample + MinRemaining
    BY <1>4, <2>1, <2>2 DEF StartQberEstimation
  <2>3. CASE ~(Len(actor.keyPairs) < MinSample + MinRemaining)
    <3>1. PICK positions :
            out = Outcome([actor EXCEPT !.sample = positions],
                    Append(<<r>>, [type |-> "estimate.sample", positions |-> positions,
                                   bits |-> [i \in DOMAIN positions |->
                                               BitsOfD(actor.keyPairs)[positions[i]]]]), {})
      BY <1>4, <2>3 DEF StartQberEstimation
    <3>. DEFINE self == [actor EXCEPT !.sample = positions]
                shown == {d.keyPairs[i] : i \in ToSet(positions)}
    <3>0. PICK x : x = [type |-> "estimate.sample", positions |-> positions,
                        bits |-> [i \in DOMAIN positions |->
                                    BitsOfD(actor.keyPairs)[positions[i]]]]
      OBVIOUS
    <3>2. out.sent = Append(<<r>>, x) /\ out.local = {} /\ out.self = self
      BY <3>0, <3>1 DEF Outcome
    <3>3. x.type \in BTypes /\ PairsIn(x) = shown /\ x.type = "estimate.sample"
          /\ x.positions = positions
      BY <3>0 DEF BTypes, PairsIn
    <3>4. d' = self /\ b' = b /\ revealed' = revealed \cup shown
      <4>1. PICK q : q = <<r>>
        OBVIOUS
      <4>2. Prelude(q) /\ out.sent = Append(q, x)
        BY <1>0, <3>2, <4>1
      <4>3. d' = out.self /\ b' = b /\ revealed' = revealed \cup PairsIn(x)
        BY <3>3, <4>2, DSays
      <4>. QED
        BY <3>2, <3>3, <4>3
    <3>5. /\ DOMAIN d' = DOMAIN d /\ d'.seen = d.seen /\ d'.kept = d.kept
          /\ d'.finalKey = d.finalKey /\ d'.complete = d.complete /\ d'.started
          /\ d'.keyPairs = d.keyPairs
      BY <1>1, <3>4 DEF TurnOfD, IInv, AgentsInv
    <3>6. Early' /\ Sifted'
      BY <1>2, <3>4, <3>5 DEF Early, Open, Sifted
    <3>7. AgentsInv'
      BY <3>4, <3>5 DEF TurnOfD, IInv, AgentsInv, Detected
    <3>8. KeptNeverRevealed' /\ KeysAgree'
      BY <3>6, OneSent DEF KeptNeverRevealed, KeysAgree, Early, Open
    <3>9. revealed' \cap ToSet(d'.keyPairs) \subseteq {d'.keyPairs[i] : i \in ToSet(x.positions)}
      BY <1>2, <3>3, <3>4, <3>5
    <3>10. Holds(x)'
      BY <3>3, <3>6, <3>9 DEF Holds
    <3>. HIDE DEF self
    <3>11. PICK q : q = <<r>>
      OBVIOUS
    <3>12. Prelude(q) /\ out.sent = Append(q, x)
      BY <1>0, <3>2, <3>11
    <3>. QED
      BY <3>2, <3>3, <3>5, <3>7, <3>8, <3>10, <3>12, DAnswers
  <2>. QED
    BY <2>2, <2>3
<1>5. CASE out = Outcome([d EXCEPT !.s = SValue(m.outcomes), !.aborted = "bell"], <<r>>, {})
  <2>1. out.sent = <<r>> /\ out.local = {}
        /\ out.self = [d EXCEPT !.s = SValue(m.outcomes), !.aborted = "bell"]
    BY <1>5 DEF Outcome
  <2>2. /\ IsSequence(out.sent) /\ Turns(out.sent) = {} /\ PairsOf(out.sent) = {}
        /\ \A k \in DOMAIN out.sent : out.sent[k].type \in BTypes
    BY <1>0, <2>1, PreludeFacts
  <2>3. d' = out.self /\ b' = b /\ revealed' = revealed
    BY <2>2, DSends
  <2>4. /\ DOMAIN d' = DOMAIN d /\ d'.seen = d.seen /\ d'.kept = d.kept
        /\ d'.finalKey = d.finalKey /\ d'.complete = d.complete /\ d'.started
    BY <2>1, <2>3 DEF TurnOfD, IInv, AgentsInv
  <2>5. AgentsInv' /\ KeptNeverRevealed' /\ KeysAgree'
    BY <2>3, <2>4, DUntouched DEF TurnOfD
  <2>. QED
    BY <2>1, <2>2, <2>4, <2>5, DStops
<1>. QED
  BY <1>3, <1>4, <1>5 DEF OnBellSample, accept, r

LEMMA DOnEstimateResult ==
  ASSUME NEW m, TurnOfD(local), d.started, Holds(m), m.type = "estimate.result",
         NEW out \in OnEstimateResult(m), DDoes(out, local)
  PROVE  IInv'
<1>. DEFINE rest == RemovePositions(d.keyPairs, m.positions)
            actor == [d EXCEPT !.kept = rest, !.errors = m.errors]
<1>1. Open /\ d.kept = <<>> /\ b.kept = rest
  BY DEF Holds
<1>. HIDE DEF rest
<1>2. /\ DOMAIN actor = DOMAIN d /\ actor.kept = rest
      /\ \A f \in DOMAIN d \ {"kept", "errors"} : actor[f] = d[f]
  BY DEF TurnOfD, IInv, AgentsInv
<1>3. CASE out \in Raise(d)
  BY <1>3, DRaises
<1>4. ASSUME Turns(out.sent) = {}, PairsOf(out.sent) = {}, IsSequence(out.sent),
             \A k \in DOMAIN out.sent : out.sent[k].type \in BTypes,
             DOMAIN out.self = DOMAIN d,
             \A f \in DOMAIN d \ {"aborted", "cascade"} : out.self[f] = actor[f]
      PROVE  IInv'
  <2>. HIDE DEF actor
  <2>1. d' = out.self /\ b' = b /\ revealed' = revealed
    BY <1>4, DSends
  <2>2. /\ DOMAIN d' = DOMAIN d /\ d'.seen = d.seen /\ d'.kept = rest
        /\ d'.finalKey = d.finalKey /\ d'.complete = d.complete /\ d'.started
    BY <1>2, <1>4, <2>1 DEF TurnOfD, IInv, AgentsInv
  <2>3. Shared'
    BY <1>1, <2>1, <2>2 DEF Shared, Open
  <2>4. AgentsInv'
    BY <2>1, <2>2 DEF TurnOfD, IInv, AgentsInv, Detected
  <2>5. KeptNeverRevealed' /\ KeysAgree'
    BY <1>1, <2>1, <2>2, <2>3 DEF TurnOfD, IInv, KeptNeverRevealed, KeysAgree, Shared, Open
  <2>. QED
    BY <1>4, <2>2, <2>3, <2>4, <2>5, DStops
<1>5. CASE out \in StartCascade(actor)
  <2>1. CASE actor.kept = <<>>
    <3>. HIDE DEF actor
    <3>1. out \in Abort(actor, <<>>, "empty") /\ Prelude(<<>>)
      BY <1>5, <2>1 DEF StartCascade, Prelude
    <3>2. /\ IsSequence(out.sent) /\ Turns(out.sent) = {} /\ PairsOf(out.sent) = {}
          /\ \A k \in DOMAIN out.sent : out.sent[k].type \in BTypes
          /\ DOMAIN out.self = DOMAIN actor
          /\ \A f \in DOMAIN actor \ {"aborted"} : out.self[f] = actor[f]
      <4>1. PICK self, q, reason : self = actor /\ q = <<>> /\ reason = "empty"
        OBVIOUS
      <4>2. Prelude(q) /\ out \in Abort(self, q, reason)
        BY <3>1, <4>1
      <4>3. /\ IsSequence(out.sent) /\ Turns(out.sent) = {} /\ PairsOf(out.sent) = {}
            /\ \A k \in DOMAIN out.sent : out.sent[k].type \in BTypes
            /\ DOMAIN out.self = DOMAIN self
            /\ \A f \in DOMAIN self \ {"aborted"} : out.self[f] = self[f]
        BY ONLY <4>2, AbortFacts
      <4>. QED
        BY <4>1, <4>3
    <3>3. /\ DOMAIN out.self = DOMAIN d
          /\ \A f \in DOMAIN d \ {"aborted", "cascade"} : out.self[f] = actor[f]
      BY <1>2, <3>2
    <3>. QED
      BY <1>4, <3>2, <3>3
  <2>2. CASE actor.kept # <<>>
    <3>. HIDE DEF actor
    <3>1. PICK cascade : out = Outcome([actor EXCEPT !.cascade = cascade], <<>>,
                                       {"cascade.next_request"})
      BY <1>5, <2>2 DEF StartCascade
    <3>2. out.sent = <<>> /\ out.self = [actor EXCEPT !.cascade = cascade]
      BY <3>1 DEF Outcome
    <3>3. /\ IsSequence(out.sent) /\ Turns(out.sent) = {} /\ PairsOf(out.sent) = {}
          /\ \A k \in DOMAIN out.sent : out.sent[k].type \in BTypes
      BY <3>2, PreludeFacts DEF Prelude
    <3>4. /\ DOMAIN out.self = DOMAIN d
          /\ \A f \in DOMAIN d \ {"aborted", "cascade"} : out.self[f] = actor[f]
      BY <1>2, <3>2
    <3>. QED
      BY <1>4, <3>3, <3>4
  <2>. QED
    BY <2>1, <2>2
<1>6. CASE out = Outcome([actor EXCEPT !.aborted = "qber"], <<>>, {})
  <2>. HIDE DEF actor
  <2>1. out.sent = <<>> /\ out.self = [actor EXCEPT !.aborted = "qber"]
    BY <1>6 DEF Outcome
  <2>2. /\ IsSequence(out.sent) /\ Turns(out.sent) = {} /\ PairsOf(out.sent) = {}
        /\ \A k \in DOMAIN out.sent : out.sent[k].type \in BTypes
    BY <2>1, PreludeFacts DEF Prelude
  <2>3. /\ DOMAIN out.self = DOMAIN d
        /\ \A f \in DOMAIN d \ {"aborted", "cascade"} : out.self[f] = actor[f]
    BY <1>2, <2>1
  <2>. QED
    BY <1>4, <2>2, <2>3
<1>. QED
  BY <1>3, <1>5, <1>6 DEF OnEstimateResult, rest

(* Cascade: neither the pairs kept nor the final keys change.              *)
LEMMA DCascadeKeeps ==
  ASSUME NEW left, TurnOfD(left), d.started, Shared, NEW out, DDoes(out, left),
         out.sent = <<>>, DOMAIN out.self = DOMAIN d,
         \A f \in DOMAIN d \ {"cascade", "aborted"} : out.self[f] = d[f]
  PROVE  IInv'
<1>1. d' = out.self /\ b' = b /\ revealed' = revealed
  BY DSaysNothing
<1>2. /\ DOMAIN d' = DOMAIN d /\ d'.seen = d.seen /\ d'.kept = d.kept
      /\ d'.finalKey = d.finalKey /\ d'.complete = d.complete /\ d'.started
  BY <1>1 DEF TurnOfD, IInv, AgentsInv
<1>3. AgentsInv' /\ KeptNeverRevealed' /\ KeysAgree' /\ Shared'
  BY <1>1, <1>2, DUntouched DEF TurnOfD
<1>. QED
  BY <1>2, <1>3, OneSent, DStops

(* A question, or the tag of the key, goes to B.                           *)
LEMMA DCascadeAsks ==
  ASSUME NEW left, TurnOfD(left), d.started, Shared, NEW out, DDoes(out, left), NEW x,
         x.type \in {"parity_request", "verify.tag"}, out.sent = <<x>>, out.local = {},
         DOMAIN out.self = DOMAIN d,
         \A f \in DOMAIN d \ {"cascade"} : out.self[f] = d[f],
         x.type = "verify.tag" => x.bits = out.self.cascade.bits
  PROVE  IInv'
<1>1. PICK q : q = <<>>
  OBVIOUS
<1>2. Prelude(q) /\ out.sent = Append(q, x) /\ x.type \in BTypes /\ PairsIn(x) = {}
  BY <1>1 DEF Prelude, BTypes, PairsIn
<1>3. d' = out.self /\ b' = b /\ revealed' = revealed
  BY <1>2, DSays
<1>4. /\ DOMAIN d' = DOMAIN d /\ d'.seen = d.seen /\ d'.kept = d.kept
      /\ d'.finalKey = d.finalKey /\ d'.complete = d.complete /\ d'.started
  BY <1>3 DEF TurnOfD, IInv, AgentsInv
<1>5. AgentsInv' /\ KeptNeverRevealed' /\ KeysAgree' /\ Shared'
  BY <1>3, <1>4, DUntouched DEF TurnOfD
<1>6. Holds(x)'
  BY <1>3, <1>5 DEF Holds
<1>. QED
  BY <1>2, <1>4, <1>5, <1>6, DAnswers

LEMMA DVerifies ==
  ASSUME NEW left, TurnOfD(left), d.started, Shared, NEW actor, DOMAIN actor = DOMAIN d,
         \A f \in DOMAIN d \ {"cascade"} : actor[f] = d[f],
         NEW out \in StartVerification(actor), DDoes(out, left)
  PROVE  IInv'
<1>1. PICK x : x = [type |-> "verify.tag", bits |-> actor.cascade.bits]
  OBVIOUS
<1>2. out.sent = <<x>> /\ out.local = {} /\ out.self = actor
  BY <1>1 DEF StartVerification, Outcome
<1>. QED
  BY <1>1, <1>2, DCascadeAsks

LEMMA DCascadeNextRequest ==
  ASSUME NEW left, TurnOfD(left), d.started, Shared, NEW out \in CascadeNextRequest,
         DDoes(out, left)
  PROVE  IInv'
<1>1. CASE out \in StartVerification(d)
  <2>1. PICK actor : actor = d
    OBVIOUS
  <2>. QED
    BY <1>1, <2>1, DVerifies
<1>2. CASE out = Outcome(d, <<>>, {"cascade.next_request"})
  <2>1. out.sent = <<>> /\ out.self = d
    BY <1>2 DEF Outcome
  <2>. QED
    BY <2>1, DCascadeKeeps
<1>3. CASE out \in AskForParity(d.cascade)
  <2>1. PICK asking : asking = NextBlock(d.cascade)
    OBVIOUS
  <2>2. PICK x : x = [type |-> "parity_request", id |-> asking.asked,
                      indices |-> QueryIndices(asking.outstanding)]
    OBVIOUS
  <2>3. out.sent = <<x>> /\ out.local = {} /\ out.self = [d EXCEPT !.cascade = asking]
    BY <1>3, <2>1, <2>2 DEF AskForParity, Outcome
  <2>4. /\ DOMAIN out.self = DOMAIN d
        /\ \A f \in DOMAIN d \ {"cascade"} : out.self[f] = d[f]
    BY <2>3
  <2>5. x.type = "parity_request"
    BY <2>2
  <2>. QED
    BY <2>3, <2>4, <2>5, DCascadeAsks
<1>4. CASE out \in StartVerification([d EXCEPT !.cascade = NextPass(d.cascade, <<>>)])
  <2>1. PICK actor : actor = [d EXCEPT !.cascade = NextPass(d.cascade, <<>>)]
    OBVIOUS
  <2>2. /\ DOMAIN actor = DOMAIN d
        /\ \A f \in DOMAIN d \ {"cascade"} : actor[f] = d[f]
    BY <2>1
  <2>. QED
    BY <1>4, <2>1, <2>2, DVerifies
<1>5. CASE out \in BeginPass(d.cascade)
  <2>1. PICK cascade : out = Outcome([d EXCEPT !.cascade = cascade], <<>>,
                                     {"cascade.next_request"})
    BY <1>5 DEF BeginPass
  <2>2. out.sent = <<>> /\ out.self = [d EXCEPT !.cascade = cascade]
    BY <2>1 DEF Outcome
  <2>3. /\ DOMAIN out.self = DOMAIN d
        /\ \A f \in DOMAIN d \ {"cascade", "aborted"} : out.self[f] = d[f]
    BY <2>2
  <2>. QED
    BY <2>2, <2>3, DCascadeKeeps
<1>. QED
  BY <1>1, <1>2, <1>3, <1>4, <1>5 DEF CascadeNextRequest

LEMMA DOnParityResponse ==
  ASSUME NEW m, TurnOfD(local), d.started, Holds(m), m.type = "parity_response",
         NEW out \in OnParityResponse(m), DDoes(out, local)
  PROVE  IInv'
<1>1. CASE out \in Raise(d)
  BY <1>1, DRaises
<1>2. CASE out \notin Raise(d)
  <2>1. PICK cascade : out = Outcome([d EXCEPT !.cascade = cascade], <<>>,
                                     {"cascade.next_request"})
    BY <1>2 DEF OnParityResponse
  <2>2. out.sent = <<>> /\ out.self = [d EXCEPT !.cascade = cascade]
    BY <2>1 DEF Outcome
  <2>3. /\ DOMAIN out.self = DOMAIN d
        /\ \A f \in DOMAIN d \ {"cascade", "aborted"} : out.self[f] = d[f]
    BY <2>2
  <2>4. Shared
    BY DEF Holds
  <2>. QED
    BY <2>2, <2>3, <2>4, DCascadeKeeps
<1>. QED
  BY <1>1, <1>2

LEMMA DOnVerifyResult ==
  ASSUME NEW m, TurnOfD(local), d.started, Holds(m), m.type = "verify.result",
         NEW out \in OnVerifyResult(m), DDoes(out, local)
  PROVE  IInv'
<1>1. Shared /\ (m.verified => SameBits)
  BY DEF Holds
<1>2. CASE out = Outcome([d EXCEPT !.aborted = "verification"], <<>>, {})
  <2>1. out.sent = <<>> /\ out.self = [d EXCEPT !.aborted = "verification"]
    BY <1>2 DEF Outcome
  <2>2. /\ DOMAIN out.self = DOMAIN d
        /\ \A f \in DOMAIN d \ {"cascade", "aborted"} : out.self[f] = d[f]
    BY <2>1
  <2>. QED
    BY <1>1, <2>1, <2>2, DCascadeKeeps
<1>3. CASE out \in Abort(d, <<>>, "short key")
  <2>1. PICK actor, q, reason : actor = d /\ q = <<>> /\ reason = "short key"
    OBVIOUS
  <2>2. Prelude(q) /\ out \in Abort(actor, q, reason)
    BY <1>3, <2>1 DEF Prelude
  <2>. QED
    BY <2>1, <2>2, DAborts
<1>4. CASE m.verified /\ out \notin Abort(d, <<>>, "short key")
  <2>1. PICK len : len = FinalKeyLength
    OBVIOUS
  <2>2. PICK key, x : /\ key = [bits |-> d.cascade.bits, len |-> len]
                      /\ x = [type |-> "privacy.seed", inputLen |-> Len(d.cascade.bits),
                              len |-> len]
    OBVIOUS
  <2>3. out = Outcome([d EXCEPT !.finalKey = key], <<x>>, {})
    BY <1>4, <2>1, <2>2 DEF OnVerifyResult, StartPrivacyAmplification
  <2>4. PICK q : q = <<>>
    OBVIOUS
  <2>5. /\ Prelude(q) /\ out.sent = Append(q, x) /\ out.local = {}
        /\ out.self = [d EXCEPT !.finalKey = key]
    BY <2>3, <2>4 DEF Prelude, Outcome
  <2>6. x.type \in BTypes /\ x.type = "privacy.seed" /\ x.len = len /\ PairsIn(x) = {}
    BY <2>2 DEF BTypes, PairsIn
  <2>7. d' = [d EXCEPT !.finalKey = key] /\ b' = b /\ revealed' = revealed
    BY <2>5, <2>6, DSays
  <2>8. /\ DOMAIN d' = DOMAIN d /\ d'.seen = d.seen /\ d'.kept = d.kept
        /\ d'.finalKey = key /\ d'.complete = d.complete /\ d'.started
        /\ d'.cascade = d.cascade
    BY <2>7 DEF TurnOfD, IInv, AgentsInv
  <2>9. AgentsInv' /\ KeptNeverRevealed' /\ KeysAgree'
    BY <1>1, <2>7, <2>8 DEF TurnOfD, IInv, AgentsInv, Detected, KeptNeverRevealed, KeysAgree,
                            Shared, Open
  <2>10. SameBits'
    BY <1>1, <1>4, <2>7, <2>8 DEF SameBits, BitsOfB
  <2>11. Holds(x)'
    BY <1>1, <2>2, <2>6, <2>7, <2>8, <2>10 DEF Holds, Shared, Open
  <2>. QED
    BY <2>5, <2>6, <2>8, <2>9, <2>11, DAnswers
<1>. QED
  BY <1>2, <1>3, <1>4 DEF OnVerifyResult, StartPrivacyAmplification

LEMMA DOnPrivacyDone ==
  ASSUME NEW m, TurnOfD(local), d.started, Holds(m), m.type = "privacy.done",
         NEW out \in OnPrivacyDone(m), DDoes(out, local)
  PROVE  IInv'
<1>1. /\ out.sent = <<>> /\ out.local = {}
      /\ DOMAIN out.self = DOMAIN d
      /\ \A f \in DOMAIN d \ {"aborted", "complete"} : out.self[f] = d[f]
      /\ out.self["complete"] = d["complete"] \/ m.len = d.finalKey.len
  <2>1. CASE m.len # d.finalKey.len
    <3>1. out = Outcome([d EXCEPT !.aborted = "length mismatch"], <<>>, {})
      BY <2>1 DEF OnPrivacyDone
    <3>2. {"aborted", "complete"} \subseteq DOMAIN d
      BY DEF TurnOfD, IInv, AgentsInv
    <3>. QED
      BY <3>1, <3>2 DEF Outcome
  <2>2. CASE m.len = d.finalKey.len
    <3>1. out = Outcome([d EXCEPT !.complete = TRUE], <<>>, {})
      BY <2>2 DEF OnPrivacyDone
    <3>. QED
      BY <2>2, <3>1 DEF Outcome
  <2>. QED
    BY <2>1, <2>2
<1>2. d' = out.self /\ b' = b /\ revealed' = revealed
  BY <1>1, DSaysNothing
<1>3. /\ DOMAIN d' = DOMAIN d /\ d'.seen = d.seen /\ d'.kept = d.kept
      /\ d'.finalKey = d.finalKey /\ d'.started
      /\ d'.complete = d.complete \/ m.len = d.finalKey.len
  BY <1>1, <1>2 DEF TurnOfD, IInv, AgentsInv
<1>4. m.len = b.finalKey.len
  BY DEF Holds
<1>5. AgentsInv' /\ KeptNeverRevealed' /\ KeysAgree'
  BY <1>2, <1>3, <1>4 DEF TurnOfD, IInv, AgentsInv, Detected, KeptNeverRevealed, KeysAgree
<1>. QED
  BY <1>1, <1>3, <1>5, OneSent, DStops

LEMMA DHears ==
  ASSUME IInv, Follows(toD', toD, DTypes), NEW out \in OnReceiverReady, DDoes(out, local)
  PROVE  IInv'
<1>1. PICK actor : actor = [d EXCEPT !.bReady = TRUE]
  OBVIOUS
<1>2. DOMAIN actor = DOMAIN d /\ \A f \in DOMAIN d \ {"ready", "bReady"} : actor[f] = d[f]
  BY <1>1
<1>3. out \in MaybeStartSifting(actor)
  BY <1>1 DEF OnReceiverReady
<1>. QED
  BY <1>2, <1>3, DSiftingKeeps

LEMMA DReceivesKeeps == E91Assumption /\ IInv /\ DReceives => IInv'
<1>. SUFFICES ASSUME E91Assumption, IInv, DReceives PROVE IInv'
  OBVIOUS
<1>1. PICK m : m = Head(toD)
  OBVIOUS
<1>2. PICK out \in DOnMessage(m) : DDoes(out, local)
  BY <1>1 DEF DReceives
<1>3. /\ Follows(toD', toD, DTypes) /\ m.type \in DTypes
      /\ m.type \notin NoTurnTypes => TurnOfD(local) /\ d.started /\ Holds(m)
  BY <1>1, TakesAtD DEF DReceives
<1>4. CASE m.type = "receiver_ready"
  <2>1. out \in OnReceiverReady
    BY <1>2, <1>4 DEF DOnMessage
  <2>. QED
    BY <1>2, <1>3, <2>1, DHears
<1>5. CASE m.type = "b_manifest"
  <2>1. TurnOfD(local) /\ d.started /\ Holds(m)
    BY <1>3, <1>5 DEF NoTurnTypes
  <2>2. out \in OnBManifest(m)
    BY <1>2, <1>5 DEF DOnMessage
  <2>. QED
    BY <1>2, <1>5, <2>1, <2>2, DOnBManifest
<1>6. CASE m.type = "bell.sample"
  <2>1. TurnOfD(local) /\ d.started /\ Holds(m)
    BY <1>3, <1>6 DEF NoTurnTypes
  <2>2. out \in OnBellSample(m)
    BY <1>2, <1>6 DEF DOnMessage
  <2>. QED
    BY <1>2, <1>6, <2>1, <2>2, DOnBellSample
<1>7. CASE m.type = "estimate.result"
  <2>1. TurnOfD(local) /\ d.started /\ Holds(m)
    BY <1>3, <1>7 DEF NoTurnTypes
  <2>2. out \in OnEstimateResult(m)
    BY <1>2, <1>7 DEF DOnMessage
  <2>. QED
    BY <1>2, <1>7, <2>1, <2>2, DOnEstimateResult
<1>8. CASE m.type = "parity_response"
  <2>1. TurnOfD(local) /\ d.started /\ Holds(m)
    BY <1>3, <1>8 DEF NoTurnTypes
  <2>2. out \in OnParityResponse(m)
    BY <1>2, <1>8 DEF DOnMessage
  <2>. QED
    BY <1>2, <1>8, <2>1, <2>2, DOnParityResponse
<1>9. CASE m.type = "verify.result"
  <2>1. TurnOfD(local) /\ d.started /\ Holds(m)
    BY <1>3, <1>9 DEF NoTurnTypes
  <2>2. out \in OnVerifyResult(m)
    BY <1>2, <1>9 DEF DOnMessage
  <2>. QED
    BY <1>2, <1>9, <2>1, <2>2, DOnVerifyResult
<1>10. CASE m.type = "privacy.done"
  <2>1. TurnOfD(local) /\ d.started /\ Holds(m)
    BY <1>3, <1>10 DEF NoTurnTypes
  <2>2. out \in OnPrivacyDone(m)
    BY <1>2, <1>10 DEF DOnMessage
  <2>. QED
    BY <1>2, <1>10, <2>1, <2>2, DOnPrivacyDone
<1>. QED
  BY <1>3, <1>4, <1>5, <1>6, <1>7, <1>8, <1>9, <1>10 DEF DTypes

LEMMA DIsReadyKeeps == IInv /\ DEvent("d.ready", DReady) => IInv'
<1>. SUFFICES ASSUME IInv, DEvent("d.ready", DReady) PROVE IInv'
  OBVIOUS
<1>1. PICK left : left = local \ {"d.ready"}
  OBVIOUS
<1>2. PICK out \in DReady : DDoes(out, left)
  BY <1>1 DEF DEvent
<1>3. PICK actor : actor = [d EXCEPT !.ready = TRUE]
  OBVIOUS
<1>4. DOMAIN actor = DOMAIN d /\ \A f \in DOMAIN d \ {"ready", "bReady"} : actor[f] = d[f]
  BY <1>3
<1>5. out \in MaybeStartSifting(actor) /\ left \subseteq local
  BY <1>1, <1>2, <1>3 DEF DReady
<1>6. Follows(toD', toD, DTypes)
  BY QueuesFollow DEF IInv, DEvent
<1>. QED
  BY <1>2, <1>4, <1>5, <1>6, DSiftingKeeps

LEMMA DCascadeEventKeeps ==
  IInv /\ DEvent("cascade.next_request", CascadeNextRequest) => IInv'
<1>. SUFFICES ASSUME IInv, DEvent("cascade.next_request", CascadeNextRequest) PROVE IInv'
  OBVIOUS
<1>1. PICK left : left = local \ {"cascade.next_request"}
  OBVIOUS
<1>2. PICK out \in CascadeNextRequest : DDoes(out, left)
  BY <1>1 DEF DEvent
<1>3. TurnEvent
  BY DEF DEvent, TurnEvent
<1>4. Turns(toB) = {} /\ Turns(toD) = {} /\ d.started /\ Shared
  BY <1>3 DEF IInv, QueuesInv, OneTurn, TurnInv
<1>5. toD' = toD
  BY DEF DEvent
<1>6. TurnOfD(left)
  BY <1>1, <1>4, <1>5, QueuesFollow DEF TurnOfD, IInv
<1>. QED
  BY <1>2, <1>4, <1>6, DCascadeNextRequest

-----------------------------------------------------------------------------
LEMMA InvNext == E91Assumption /\ IInv /\ [Next]_vars => IInv'
<1>. SUFFICES ASSUME E91Assumption, IInv, [Next]_vars PROVE IInv'
  OBVIOUS
<1>1. CASE CStarts \/ FrameDone \/ QuantumDone("b.ready") \/ QuantumDone("d.ready")
  BY <1>1, SourceKeeps
<1>2. CASE BReport
  BY <1>2, BReportKeeps
<1>3. CASE DReport
  BY <1>3, DReportKeeps
<1>4. CASE BReceives
  BY <1>4, BReceivesKeeps
<1>5. CASE DReceives
  BY <1>5, DReceivesKeeps
<1>6. CASE BIsReady
  BY <1>6, BIsReadyKeeps
<1>7. CASE DEvent("d.ready", DReady)
  BY <1>7, DIsReadyKeeps
<1>8. CASE DEvent("cascade.next_request", CascadeNextRequest)
  BY <1>8, DCascadeEventKeeps
<1>9. CASE UNCHANGED vars
  <2>1. /\ b' = b /\ d' = d /\ toB' = toB /\ toD' = toD /\ revealed' = revealed
        /\ local' = local
    BY <1>9 DEF vars
  <2>2. AgentsInv' /\ KeyOfB' = KeyOfB /\ KeyOfD' = KeyOfD /\ (TurnEvent' => TurnEvent)
    BY <2>1 DEF IInv, AgentsInv, Detected, KeyOfB, KeyOfD, BitsOfB, TurnEvent
  <2>3. Follows(toB', toB, BTypes) /\ Follows(toD', toD, DTypes)
    BY <2>1, QueuesFollow DEF IInv
  <2>. QED
    BY <2>1, <2>2, <2>3, QuietStep
<1>. QED
  BY <1>1, <1>2, <1>3, <1>4, <1>5, <1>6, <1>7, <1>8, <1>9 DEF Next

THEOREM SessionInductive == Spec => []IInv
<1>1. Init => IInv
  BY InvInit
<1>2. IInv /\ [Next]_vars => IInv'
  BY InvNext, E91Assumption
<1>. QED
  BY <1>1, <1>2, PTL DEF Spec

(* No pair whose outcome B or D has sent in the clear is left in a key,    *)
(* and both keep the same pairs (e91_agents.py).                           *)
THEOREM SpecKeptNeverRevealed == Spec => []KeptNeverRevealed
<1>1. IInv => KeptNeverRevealed
  BY DEF IInv
<1>. QED
  BY <1>1, SessionInductive, PTL

(* B holds a final key only if D holds the same one, hashes of different   *)
(* keys apart, and D only completes then (e91_agents.py).                  *)
THEOREM SpecKeysAgree == Spec => []KeysAgree
<1>1. IInv => KeysAgree
  BY DEF IInv
<1>. QED
  BY <1>1, SessionInductive, PTL

-----------------------------------------------------------------------------
(* Sessions over one timeline: which starts are still to come, and what    *)
(* a session has when its starts are scheduled.                            *)

SessionType == [made : BOOLEAN, agents : SUBSET Agents, bound : BOOLEAN, knew : SUBSET Devices,
                scheduled : BOOLEAN, ran : BOOLEAN]

(* A start is of an agent of its session, which has bound all it found.    *)
ProperStart(e) == /\ e.session \in Sessions /\ session[e.session].scheduled
                  /\ e.agent \in session[e.session].agents

HandledStarts == [i \in DOMAIN started |-> started[i].of]

EntriesInv ==
  /\ session \in [Sessions -> SessionType]
  /\ provider \in [Agents -> Sessions \cup {NoSession}]
  /\ IsSequence(queue) /\ IsSequence(batch) /\ IsSequence(started)
  /\ executing = Idle \/ /\ executing.by \in Sessions /\ executing.all \in BOOLEAN
                         /\ executing.all => session[executing.by].scheduled
  /\ \A i \in DOMAIN queue : queue[i] = OtherEvent \/ ProperStart(queue[i])
  /\ \A i \in DOMAIN batch : batch[i] = OtherEvent \/ ProperStart(batch[i])
  /\ \A e \in lostStarts : e = OtherEvent \/ ProperStart(e)
  /\ \A i \in DOMAIN started : ProperStart(started[i].of) /\ started[i].context # NoSession

BoundInv ==
  \A s \in Sessions :
    /\ session[s].scheduled => session[s].bound
    /\ session[s].bound =>
         /\ session[s].made
         /\ session[s].knew \cup session[s].agents \subseteq bound
         /\ \A x \in session[s].knew \cup session[s].agents : Streams[x] \subseteq streams
    /\ session[s].made => \A a \in session[s].agents : provider[a] # NoSession
    /\ session[s].ran => /\ session[s].scheduled
                         /\ \A i \in DOMAIN queue : queue[i].session # s
                         /\ \A i \in DOMAIN batch : batch[i].session # s

(* The starts of a session that are handled, in the batch and in the queue *)
(* are in the order of the agents' names.                                  *)
Rising(u) ==
  \A i, j \in DOMAIN u : i < j /\ u[i].session = u[j].session /\ u[i].session \in Sessions =>
    Position(u[i].agent) < Position(u[j].agent)
Before(u, v) ==
  \A i \in DOMAIN u, j \in DOMAIN v : u[i].session = v[j].session /\ u[i].session \in Sessions =>
    Position(u[i].agent) < Position(v[j].agent)

OrderInv ==
  /\ Rising(HandledStarts) /\ Rising(batch) /\ Rising(queue)
  /\ Before(HandledStarts, batch) /\ Before(HandledStarts, queue) /\ Before(batch, queue)

(* No start that was scheduled is forgotten.                               *)
Remembered(e) ==
  \/ \E i \in DOMAIN started : started[i].of = e
  \/ \E i \in DOMAIN batch : batch[i] = e
  \/ \E i \in DOMAIN queue : queue[i] = e
  \/ e \in lostStarts

NoneForgotten ==
  \A s \in Sessions : session[s].scheduled =>
    \A a \in session[s].agents : Remembered([agent |-> a, session |-> s])

RuntimeInv == EntriesInv /\ BoundInv /\ OrderInv /\ NoneForgotten

LEMMA RuntimeInit0 == RuntimeInit => RuntimeInv
<1>. SUFFICES ASSUME RuntimeInit PROVE RuntimeInv
  OBVIOUS
<1>. USE DEF RuntimeInit
<1>1. EntriesInv
  BY OneSent DEF EntriesInv, SessionType, Unmade
<1>2. BoundInv
  BY DEF BoundInv, Unmade
<1>3. OrderInv
  BY DEF OrderInv, Rising, Before, HandledStarts
<1>4. NoneForgotten
  BY DEF NoneForgotten, Unmade
<1>. QED
  BY <1>1, <1>2, <1>3, <1>4 DEF RuntimeInv

LEMMA HeadAndTail ==
  ASSUME NEW box, IsSequence(box), box # <<>>
  PROVE  /\ IsSequence(Tail(box)) /\ 1 \in DOMAIN box /\ Head(box) = box[1]
         /\ \A i \in DOMAIN Tail(box) :
              i \in Nat \ {0} /\ i + 1 \in DOMAIN box /\ Tail(box)[i] = box[i + 1]
         /\ \A k \in DOMAIN box : k = 1 \/ (k - 1 \in DOMAIN Tail(box) /\ Tail(box)[k - 1] = box[k])
<1>1. box \in Seq(ToSet(box)) /\ Len(box) \in Nat /\ DOMAIN box = 1..Len(box)
  BY SequenceFacts DEF IsSequence
<1>2. /\ Tail(box) \in Seq(ToSet(box)) /\ Len(Tail(box)) = Len(box) - 1 /\ Len(box) # 0
      /\ \A i \in 1..Len(Tail(box)) : Tail(box)[i] = box[i + 1]
      /\ Head(box) = box[1]
  BY <1>1
<1>3. IsSequence(Tail(box)) /\ DOMAIN Tail(box) = 1..(Len(box) - 1)
  BY <1>2, SequenceFacts
<1>4. \A i \in DOMAIN Tail(box) :
        i \in Nat \ {0} /\ i + 1 \in DOMAIN box /\ Tail(box)[i] = box[i + 1]
  BY <1>1, <1>2, <1>3
<1>5. ASSUME NEW k \in DOMAIN box, k # 1
      PROVE  k - 1 \in DOMAIN Tail(box) /\ Tail(box)[k - 1] = box[k]
  <2>1. k - 1 \in 1..(Len(box) - 1) /\ (k - 1) + 1 = k
    BY <1>1, <1>5
  <2>. QED
    BY <1>2, <1>3, <2>1
<1>6. 1 \in DOMAIN box
  BY <1>1, <1>2
<1>. QED
  BY <1>2, <1>3, <1>4, <1>5, <1>6

LEMMA Concatenation ==
  ASSUME NEW u, NEW v, IsSequence(u), IsSequence(v)
  PROVE  /\ IsSequence(u \o v)
         /\ \A i \in DOMAIN u : i \in Nat /\ i <= Len(u) /\ i \in DOMAIN (u \o v) /\ (u \o v)[i] = u[i]
         /\ \A i \in DOMAIN v : Len(u) + i \in DOMAIN (u \o v) /\ (u \o v)[Len(u) + i] = v[i]
         /\ Len(u) \in Nat
         /\ \A i \in DOMAIN (u \o v) :
              \/ i \in DOMAIN u /\ (u \o v)[i] = u[i] /\ i \in Nat /\ i <= Len(u)
              \/ i - Len(u) \in DOMAIN v /\ (u \o v)[i] = v[i - Len(u)] /\ i \in Nat /\ i > Len(u)
<1>1. /\ u \in Seq(ToSet(u)) /\ Len(u) \in Nat /\ DOMAIN u = 1..Len(u)
      /\ v \in Seq(ToSet(v)) /\ Len(v) \in Nat /\ DOMAIN v = 1..Len(v)
  BY SequenceFacts DEF IsSequence
<1>. DEFINE S == ToSet(u) \cup ToSet(v)
<1>2. u \in Seq(S) /\ v \in Seq(S)
  BY <1>1
<1>. HIDE DEF S
<1>3. /\ u \o v \in Seq(S) /\ Len(u \o v) = Len(u) + Len(v)
      /\ \A i \in 1..(Len(u) + Len(v)) : (u \o v)[i] = IF i <= Len(u) THEN u[i] ELSE v[i - Len(u)]
  BY <1>2
<1>4. IsSequence(u \o v) /\ DOMAIN (u \o v) = 1..(Len(u) + Len(v))
  BY <1>1, <1>3, SequenceFacts
<1>. HIDE DEF IsSequence
<1>5. \A i \in 1..Len(u) : i \in 1..(Len(u) + Len(v)) /\ i <= Len(u)
  BY <1>1
<1>6. \A i \in 1..Len(v) : Len(u) + i \in 1..(Len(u) + Len(v)) /\ ~(Len(u) + i <= Len(u))
                           /\ (Len(u) + i) - Len(u) = i
  BY <1>1
<1>7. \A i \in 1..(Len(u) + Len(v)) : i <= Len(u) => i \in 1..Len(u)
  BY <1>1
<1>8. \A i \in 1..(Len(u) + Len(v)) : ~(i <= Len(u)) => i - Len(u) \in 1..Len(v) /\ i > Len(u)
  BY <1>1
<1>. QED
  BY <1>1, <1>3, <1>4, <1>5, <1>6, <1>7, <1>8

LEMMA StartsFacts ==
  ASSUME RuntimeAssumption, NEW s, session[s].agents \subseteq Agents
  PROVE  /\ IsSequence(Starts(s))
         /\ \A i \in DOMAIN Starts(s) : /\ i \in Nat /\ Starts(s)[i].session = s
                                        /\ Starts(s)[i].agent \in session[s].agents
         /\ \A i, j \in DOMAIN Starts(s) :
              i < j => Position(Starts(s)[i].agent) < Position(Starts(s)[j].agent)
         /\ \A a \in session[s].agents :
              \E i \in DOMAIN Starts(s) : Starts(s)[i] = [agent |-> a, session |-> s]
<1>. DEFINE agents == session[s].agents
            key == [a \in agents |-> Position(a)]
            name(k) == CHOOSE a \in agents :
                         Cardinality({other \in agents : Position(other) <= Position(a)}) = k
            q == [k \in 1..Cardinality(agents) |-> name(k)]
<1>1. ASSUME NEW a \in agents
      PROVE  Position(a) \in 1..Len(AgentOrder) /\ AgentOrder[Position(a)] = a
  <2>1. AgentOrder \in Seq(Agents) /\ Len(AgentOrder) \in Nat /\ DOMAIN AgentOrder = 1..Len(AgentOrder)
    BY DEF RuntimeAssumption
  <2>2. a \in ToSet(AgentOrder)
    BY DEF Agents
  <2>3. \E i \in 1..Len(AgentOrder) : AgentOrder[i] = a
    BY <2>1, <2>2 DEF ToSet
  <2>. QED
    BY <2>3 DEF Position
<1>2. Len(AgentOrder) \in Nat
  BY DEF RuntimeAssumption
<1>3. key \in [agents -> Int] /\ \A x, y \in agents : key[x] = key[y] => x = y
  BY <1>1, <1>2
<1>4. IsFiniteSet(agents)
  <2>1. key \in [agents -> 1..Len(AgentOrder)]
    BY <1>1
  <2>2. key \in Injection(agents, 1..Len(AgentOrder))
    BY <1>3, <2>1, Fun_IsInj
  <2>3. IsFiniteSet(1..Len(AgentOrder))
    BY <1>2, FS_Interval
  <2>. HIDE DEF key, agents
  <2>. QED
    BY <2>2, <2>3, FS_Injection
<1>5. RankedBy(q, agents, key)
  <2>1. ASSUME NEW k \in 1..Cardinality(agents),
               \E x \in agents : Cardinality({y \in agents : key[y] <= key[x]}) = k
        PROVE  q[k] \in agents /\ Cardinality({y \in agents : key[y] <= key[q[k]]}) = k
    <3>. DEFINE Ranks(a) == Cardinality({other \in agents : Position(other) <= Position(a)}) = k
    <3>1. \A x \in agents : {y \in agents : key[y] <= key[x]}
                              = {other \in agents : Position(other) <= Position(x)}
      OBVIOUS
    <3>2. \A x \in agents : Ranks(x) <=> Cardinality({y \in agents : key[y] <= key[x]}) = k
      BY <3>1
    <3>3. q[k] = CHOOSE a \in agents : Ranks(a)
      OBVIOUS
    <3>4. \E x \in agents : Ranks(x)
      BY <2>1, <3>2
    <3>. HIDE DEF Ranks, q, key, agents
    <3>5. q[k] \in agents /\ Ranks(q[k])
      BY <3>3, <3>4
    <3>. QED
      BY <3>2, <3>5
  <2>2. q = [k \in 1..Cardinality(agents) |-> q[k]]
    <3>. HIDE DEF name
    <3>. QED
      OBVIOUS
  <2>. HIDE DEF q, key, agents
  <2>. QED
    BY <2>1, <2>2 DEF RankedBy
<1>6. Starts(s) = [k \in DOMAIN q |-> [agent |-> q[k], session |-> s]]
  BY DEF Starts
<1>. HIDE DEF q, agents, key
<1>7. Ascending(q, agents, key)
  BY <1>3, <1>4, <1>5, RankFacts
<1>8. /\ q \in Seq(agents) /\ DOMAIN q = 1..Len(q) /\ Len(q) \in Nat
      /\ \A i, j \in DOMAIN q : i < j => key[q[i]] < key[q[j]]
      /\ \A x \in agents : \E i \in DOMAIN q : q[i] = x
      /\ \A i \in DOMAIN q : q[i] \in agents
  BY <1>7 DEF Ascending
<1>. DEFINE st == [k \in DOMAIN q |-> [agent |-> q[k], session |-> s]]
<1>9. IsSequence(st)
  <2>1. st \in Seq({[agent |-> a, session |-> s] : a \in agents})
    BY <1>8
  <2>. QED
    BY <2>1, SequenceFacts
<1>10. DOMAIN st = DOMAIN q /\ \A i \in DOMAIN st : st[i] = [agent |-> q[i], session |-> s]
  OBVIOUS
<1>. HIDE DEF st
<1>11. \A a \in agents : key[a] = Position(a)
  BY DEF key
<1>12. /\ \A i \in DOMAIN st : i \in Nat /\ st[i].session = s /\ st[i].agent \in agents
       /\ \A i, j \in DOMAIN st : i < j => Position(st[i].agent) < Position(st[j].agent)
       /\ \A a \in agents : \E i \in DOMAIN st : st[i] = [agent |-> a, session |-> s]
  BY <1>8, <1>10, <1>11
<1>. QED
  BY <1>6, <1>9, <1>12 DEF st, agents

(* The sessions have not lost anything a scheduled start relies on.        *)
LEMMA StartsStayProper ==
  ASSUME NEW e, ProperStart(e),
         \A s \in Sessions : session[s].scheduled =>
           session'[s].scheduled /\ session'[s].agents = session[s].agents
  PROVE  ProperStart(e)'
BY DEF ProperStart

(* A session binds what it found, and schedules its starts, or not.        *)
LEMMA SessionMoves ==
  ASSUME RuntimeAssumption, RuntimeInv, NEW s \in Sessions, session[s].made,
         session' \in [Sessions -> SessionType],
         \A r \in Sessions \ {s} : session'[r] = session[r],
         session'[s].made, session'[s].agents = session[s].agents,
         session'[s].ran = session[s].ran,
         session[s].scheduled => session'[s].scheduled,
         session'[s].scheduled => session'[s].bound,
         bound \subseteq bound', streams \subseteq streams',
         session'[s].bound =>
           /\ session'[s].knew \cup session'[s].agents \subseteq bound'
           /\ \A x \in session'[s].knew \cup session'[s].agents : Streams[x] \subseteq streams',
         queue' = IF session'[s].scheduled /\ ~session[s].scheduled THEN queue \o Starts(s)
                  ELSE queue,
         \/ executing' = executing
         \/ executing'.by = s /\ executing'.all = TRUE /\ session'[s].scheduled,
         provider' = provider, batch' = batch, started' = started, lostStarts' = lostStarts
  PROVE  RuntimeInv'
<1>. DEFINE fresh == session'[s].scheduled /\ ~session[s].scheduled
<1>. USE DEF RuntimeInv
<1>1. /\ IsSequence(Starts(s))
      /\ \A i \in DOMAIN Starts(s) : /\ i \in Nat /\ Starts(s)[i].session = s
                                     /\ Starts(s)[i].agent \in session[s].agents
      /\ \A i, j \in DOMAIN Starts(s) :
           i < j => Position(Starts(s)[i].agent) < Position(Starts(s)[j].agent)
      /\ \A a \in session[s].agents :
           \E i \in DOMAIN Starts(s) : Starts(s)[i] = [agent |-> a, session |-> s]
  <2>1. session[s].agents \subseteq Agents
    BY DEF EntriesInv, SessionType
  <2>. QED
    BY <2>1, StartsFacts
<1>2. \A r \in Sessions : session[r].scheduled =>
        session'[r].scheduled /\ session'[r].agents = session[r].agents
  OBVIOUS
<1>3. /\ IsSequence(queue)
      /\ IsSequence(queue')
      /\ \A i \in DOMAIN queue' :
           \/ i \in DOMAIN queue /\ queue'[i] = queue[i] /\ i \in Nat /\ i <= Len(queue)
           \/ /\ fresh /\ i - Len(queue) \in DOMAIN Starts(s) /\ i \in Nat /\ i > Len(queue)
              /\ queue'[i] = Starts(s)[i - Len(queue)]
      /\ \A i \in DOMAIN queue : i \in DOMAIN queue' /\ queue'[i] = queue[i]
      /\ fresh => \A i \in DOMAIN Starts(s) :
                    Len(queue) + i \in DOMAIN queue' /\ queue'[Len(queue) + i] = Starts(s)[i]
      /\ Len(queue) \in Nat
  <2>1. IsSequence(queue)
    BY DEF EntriesInv
  <2>2. Len(queue) \in Nat /\ DOMAIN queue = 1..Len(queue)
    BY <2>1, SequenceFacts
  <2>. HIDE DEF RuntimeInv
  <2>3. CASE fresh
    <3>1. queue' = queue \o Starts(s)
      BY <2>3
    <3>2. PICK st : st = Starts(s)
      OBVIOUS
    <3>3. IsSequence(st) /\ queue' = queue \o st
      BY <1>1, <3>1, <3>2
    <3>. QED
      BY <2>1, <2>2, <2>3, <3>2, <3>3, Concatenation
  <2>4. CASE ~fresh
    <3>1. queue' = queue
      BY <2>4
    <3>. HIDE DEF fresh
    <3>2. \A i \in DOMAIN queue : i \in Nat /\ i <= Len(queue)
      BY <2>2
    <3>. QED
      BY <2>1, <2>2, <2>4, <3>1, <3>2
  <2>. QED
    BY <2>3, <2>4
<1>4. ASSUME NEW e, ProperStart(e) PROVE ProperStart(e)'
  BY <1>2, <1>4, StartsStayProper
<1>5. ASSUME NEW i \in DOMAIN queue'
      PROVE  \/ queue'[i] = OtherEvent
             \/ ProperStart(queue[i])'
  <2>1. CASE i \in DOMAIN queue /\ queue'[i] = queue[i]
    <3>1. PICK e : e = queue[i]
      OBVIOUS
    <3>2. e = OtherEvent \/ ProperStart(e)'
      BY <1>4, <2>1, <3>1 DEF EntriesInv
    <3>. QED
      BY <2>1, <3>1, <3>2
  <2>2. CASE fresh /\ i - Len(queue) \in DOMAIN Starts(s) /\ queue'[i] = Starts(s)[i - Len(queue)]
    BY <1>1, <2>2 DEF ProperStart
  <2>. QED
    BY <1>3, <2>1, <2>2
<1>6. EntriesInv'
  <2>1. \A i \in DOMAIN batch' : batch'[i] = OtherEvent \/ ProperStart(batch[i])'
    <3>. SUFFICES ASSUME NEW i \in DOMAIN batch PROVE batch[i] = OtherEvent \/ ProperStart(batch[i])'
      OBVIOUS
    <3>1. PICK e : e = batch[i]
      OBVIOUS
    <3>2. e = OtherEvent \/ ProperStart(e)'
      BY <1>4, <3>1 DEF EntriesInv
    <3>. QED
      BY <3>1, <3>2
  <2>2. \A e \in lostStarts' : e = OtherEvent \/ ProperStart(e)'
    BY <1>4 DEF EntriesInv
  <2>3. \A i \in DOMAIN started' : ProperStart(started[i].of)' /\ started'[i].context # NoSession
    <3>. SUFFICES ASSUME NEW i \in DOMAIN started
                  PROVE  ProperStart(started[i].of)' /\ started[i].context # NoSession
      OBVIOUS
    <3>1. PICK e : e = started[i].of
      OBVIOUS
    <3>2. ProperStart(e)' /\ started[i].context # NoSession
      BY <1>4, <3>1 DEF EntriesInv
    <3>. QED
      BY <3>1, <3>2
  <2>4. \/ executing' = Idle
        \/ /\ executing'.by \in Sessions /\ executing'.all \in BOOLEAN
           /\ executing'.all => session'[executing'.by].scheduled
    BY <1>2 DEF EntriesInv
  <2>. QED
    BY <1>3, <1>5, <2>1, <2>2, <2>3, <2>4 DEF EntriesInv
<1>7. BoundInv'
  <2>1. ASSUME NEW r \in Sessions, session[r].ran
        PROVE  /\ session[r].scheduled
               /\ \A i \in DOMAIN queue' : queue'[i].session # r
               /\ \A i \in DOMAIN batch' : batch'[i].session # r
    <3>1. /\ session[r].scheduled
          /\ \A i \in DOMAIN queue : queue[i].session # r
          /\ \A i \in DOMAIN batch : batch[i].session # r
      BY <2>1 DEF BoundInv
    <3>2. fresh => r # s
      BY <3>1
    <3>. QED
      BY <1>1, <1>3, <3>1, <3>2
  <2>2. ASSUME NEW r \in Sessions, r # s
        PROVE  /\ session'[r].scheduled => session'[r].bound
               /\ session'[r].bound =>
                    /\ session'[r].made
                    /\ session'[r].knew \cup session'[r].agents \subseteq bound'
                    /\ \A x \in session'[r].knew \cup session'[r].agents : Streams[x] \subseteq streams'
               /\ session'[r].made => \A a \in session'[r].agents : provider'[a] # NoSession
    <3>1. session'[r] = session[r]
      BY <2>2
    <3>. QED
      BY <3>1 DEF BoundInv
  <2>3. session'[s].made => \A a \in session'[s].agents : provider'[a] # NoSession
    BY DEF BoundInv
  <2>4. \A r \in Sessions : session'[r].ran => session[r].ran
    OBVIOUS
  <2>5. \A r \in Sessions : session[r].scheduled => session'[r].scheduled
    BY <1>2
  <2>. HIDE DEF RuntimeInv
  <2>. QED
    BY <2>1, <2>2, <2>3, <2>4, <2>5 DEF BoundInv
<1>8. ASSUME NEW e, e = OtherEvent \/ ProperStart(e) PROVE fresh => e.session # s
  BY <1>8 DEF ProperStart, OtherEvent, RuntimeAssumption
<1>9. OrderInv'
  <2>1. Rising(queue')
    <3>. SUFFICES ASSUME NEW i \in DOMAIN queue', NEW j \in DOMAIN queue', i < j,
                         queue'[i].session = queue'[j].session, queue'[i].session \in Sessions
                  PROVE  Position(queue'[i].agent) < Position(queue'[j].agent)
      BY DEF Rising
    <3>1. CASE j \in DOMAIN queue /\ queue'[j] = queue[j] /\ j <= Len(queue) /\ j \in Nat
      <4>1. i \in DOMAIN queue /\ queue'[i] = queue[i]
        BY <1>3, <3>1
      <4>. QED
        BY <3>1, <4>1 DEF OrderInv, Rising
    <3>2. CASE fresh /\ j - Len(queue) \in DOMAIN Starts(s) /\ queue'[j] = Starts(s)[j - Len(queue)]
               /\ j \in Nat
      <4>1. CASE i \in DOMAIN queue /\ queue'[i] = queue[i]
        <5>1. queue[i].session # s
          BY <1>8, <3>2, <4>1 DEF EntriesInv
        <5>. QED
          BY <1>1, <3>2, <4>1, <5>1
      <4>2. CASE i - Len(queue) \in DOMAIN Starts(s) /\ queue'[i] = Starts(s)[i - Len(queue)]
                 /\ i \in Nat
        <5>1. i - Len(queue) < j - Len(queue)
          BY <1>3, <3>2, <4>2
        <5>. QED
          BY <1>1, <3>2, <4>2, <5>1
      <4>. QED
        BY <1>3, <4>1, <4>2
    <3>. QED
      BY <1>3, <3>1, <3>2
  <2>2. ASSUME NEW u, Before(u, queue),
               \A i \in DOMAIN u : u[i] = OtherEvent \/ ProperStart(u[i])
        PROVE  Before(u, queue')
    <3>. SUFFICES ASSUME NEW i \in DOMAIN u, NEW j \in DOMAIN queue',
                         u[i].session = queue'[j].session, u[i].session \in Sessions
                  PROVE  Position(u[i].agent) < Position(queue'[j].agent)
      BY DEF Before
    <3>1. CASE j \in DOMAIN queue /\ queue'[j] = queue[j]
      BY <2>2, <3>1 DEF Before
    <3>2. CASE fresh /\ j - Len(queue) \in DOMAIN Starts(s) /\ queue'[j] = Starts(s)[j - Len(queue)]
      <4>1. u[i].session # s
        BY <1>8, <2>2, <3>2
      <4>. QED
        BY <1>1, <3>2, <4>1
    <3>. QED
      BY <1>3, <3>1, <3>2
  <2>3. HandledStarts' = HandledStarts /\ batch' = batch
    BY DEF HandledStarts
  <2>4. /\ \A i \in DOMAIN HandledStarts : HandledStarts[i] = OtherEvent \/ ProperStart(HandledStarts[i])
        /\ \A i \in DOMAIN batch : batch[i] = OtherEvent \/ ProperStart(batch[i])
    BY DEF EntriesInv, HandledStarts
  <2>5. Before(HandledStarts, queue') /\ Before(batch, queue')
    BY <2>2, <2>4 DEF OrderInv
  <2>6. Rising(HandledStarts) /\ Rising(batch) /\ Before(HandledStarts, batch)
    BY DEF OrderInv
  <2>7. /\ Rising(HandledStarts') /\ Rising(batch') /\ Before(HandledStarts', batch')
        /\ Before(HandledStarts', queue') /\ Before(batch', queue')
    <3>. HIDE DEF RuntimeInv
    <3>. QED
      BY <2>3, <2>5, <2>6, Zenon
  <2>. QED
    BY <2>1, <2>7 DEF OrderInv
<1>10. NoneForgotten'
  <2>. SUFFICES ASSUME NEW r \in Sessions, session'[r].scheduled, NEW a \in session'[r].agents
                PROVE  Remembered([agent |-> a, session |-> r])'
    BY DEF NoneForgotten
  <2>1. PICK e : e = [agent |-> a, session |-> r]
    OBVIOUS
  <2>2. CASE session[r].scheduled
    <3>1. Remembered(e)
      BY <1>2, <2>1, <2>2 DEF NoneForgotten
    <3>2. Remembered(e)'
      BY <1>3, <3>1 DEF Remembered
    <3>. QED
      BY <2>1, <3>2
  <2>3. CASE ~session[r].scheduled
    <3>1. r = s /\ fresh /\ a \in session[s].agents
      BY <2>3
    <3>2. PICK i \in DOMAIN Starts(s) : Starts(s)[i] = e
      BY <1>1, <2>1, <3>1
    <3>3. Remembered(e)'
      BY <1>3, <3>1, <3>2 DEF Remembered
    <3>. QED
      BY <2>1, <3>3
  <2>. QED
    BY <2>2, <2>3
<1>. QED
  BY <1>6, <1>7, <1>9, <1>10

LEMMA BindingFacts ==
  ASSUME RuntimeInv, NEW s \in Sessions, session[s].made, ~session[s].bound,
         Binding(s), NEW known, known = BoundAfter(s)
  PROVE  /\ known \in [Sessions -> SessionType]
         /\ \A r \in Sessions \ {s} : known[r] = session[r]
         /\ known[s].made /\ known[s].agents = session[s].agents /\ known[s].ran = session[s].ran
         /\ known[s].scheduled = session[s].scheduled
         /\ bound \subseteq bound' /\ streams \subseteq streams'
         /\ known[s].bound =>
              /\ known[s].knew \cup known[s].agents \subseteq bound'
              /\ \A x \in known[s].knew \cup known[s].agents : Streams[x] \subseteq streams'
<1>1. session \in [Sessions -> SessionType]
  BY DEF RuntimeInv, EntriesInv
<1>2. PICK all \in BOOLEAN : all = AllBind(s)
  BY DEF AllBind
<1>3. PICK knew \in SUBSET Devices : knew = IF all THEN placed \cap Devices ELSE {}
  OBVIOUS
<1>4. known = [session EXCEPT ![s].bound = all, ![s].knew = knew]
  BY <1>2, <1>3 DEF BoundAfter
<1>5. known[s] = [session[s] EXCEPT !.bound = all, !.knew = knew]
  BY <1>1, <1>4
<1>6. \A r \in Sessions \ {s} : known[r] = session[r]
  BY <1>1, <1>4
<1>7. known[s] \in SessionType /\ known[s].bound = all /\ known[s].knew = knew
      /\ known[s].made = session[s].made /\ known[s].agents = session[s].agents
      /\ known[s].ran = session[s].ran /\ known[s].scheduled = session[s].scheduled
  BY <1>1, <1>5 DEF SessionType
<1>8. known \in [Sessions -> SessionType]
  BY <1>1, <1>4, <1>6, <1>7
<1>9. ASSUME all
      PROVE  /\ knew \cup session[s].agents \subseteq bound'
             /\ \A x \in knew \cup session[s].agents : Streams[x] \subseteq streams'
  <2>1. Reached(s) = knew \cup session[s].agents
    BY <1>2, <1>3, <1>9 DEF AllBind, Wanted
  <2>. QED
    BY <2>1 DEF Binding
<1>10. bound \subseteq bound' /\ streams \subseteq streams'
  BY DEF Binding
<1>. QED
  BY <1>6, <1>7, <1>8, <1>9, <1>10

\* What scheduling the starts of s tells of the sessions
ScheduledOnly(next, known, s) ==
  /\ next \in [Sessions -> SessionType]
  /\ \A r \in Sessions \ {s} : next[r] = known[r]
  /\ next[s].made = known[s].made /\ next[s].agents = known[s].agents
  /\ next[s].ran = known[s].ran /\ next[s].knew = known[s].knew
  /\ next[s].bound = known[s].bound /\ next[s].scheduled

LEMMA ScheduledFacts ==
  ASSUME NEW known, NEW s, NEW next, s \in Sessions,
         known \in [Sessions -> SessionType], next = Scheduled(known, s)
  PROVE  ScheduledOnly(next, known, s)
<1>1. next = [known EXCEPT ![s].scheduled = TRUE]
  BY DEF Scheduled
<1>2. next[s] = [known[s] EXCEPT !.scheduled = TRUE] /\ \A r \in Sessions \ {s} : next[r] = known[r]
  BY <1>1
<1>3. next[s] \in SessionType /\ next[s].scheduled /\ next[s].bound = known[s].bound
      /\ next[s].made = known[s].made /\ next[s].agents = known[s].agents
      /\ next[s].ran = known[s].ran /\ next[s].knew = known[s].knew
  BY <1>2 DEF SessionType
<1>4. next \in [Sessions -> SessionType]
  BY <1>1, <1>2, <1>3
<1>. QED
  BY <1>2, <1>3, <1>4 DEF ScheduledOnly

LEMMA BoundFacts ==
  ASSUME RuntimeInv, NEW s \in Sessions
  PROVE  /\ session \in [Sessions -> SessionType]
         /\ session[s].scheduled => session[s].bound
         /\ session[s].bound =>
              /\ session[s].made
              /\ session[s].knew \cup session[s].agents \subseteq bound
              /\ \A x \in session[s].knew \cup session[s].agents : Streams[x] \subseteq streams
BY DEF RuntimeInv, EntriesInv, BoundInv

LEMMA BindAllKeeps ==
  ASSUME RuntimeAssumption, RuntimeInv, NEW s \in Sessions, BindAll(s)
  PROVE  RuntimeInv'
<1>1. session' = BoundAfter(s) /\ Binding(s) /\ session[s].made /\ ~session[s].bound
      /\ queue' = queue /\ executing' = executing /\ provider' = provider
      /\ batch' = batch /\ started' = started /\ lostStarts' = lostStarts
  BY DEF BindAll
<1>2. ~session[s].scheduled
  BY <1>1, BoundFacts
<1>3. PICK known : known = BoundAfter(s)
  OBVIOUS
<1>4. /\ known \in [Sessions -> SessionType]
      /\ \A r \in Sessions \ {s} : known[r] = session[r]
      /\ known[s].made /\ known[s].agents = session[s].agents /\ known[s].ran = session[s].ran
      /\ known[s].scheduled = session[s].scheduled
      /\ bound \subseteq bound' /\ streams \subseteq streams'
      /\ known[s].bound =>
           /\ known[s].knew \cup known[s].agents \subseteq bound'
           /\ \A x \in known[s].knew \cup known[s].agents : Streams[x] \subseteq streams'
  BY <1>1, <1>3, BindingFacts
<1>5. session' = known
  BY <1>1, <1>3
<1>. QED
  BY <1>1, <1>2, <1>4, <1>5, SessionMoves

LEMMA ScheduleKeeps ==
  ASSUME RuntimeAssumption, RuntimeInv, NEW s \in Sessions, ScheduleAgentStarts(s)
  PROVE  RuntimeInv'
<1>1. session' = Scheduled(session, s) /\ session[s].bound /\ ~session[s].scheduled
      /\ queue' = queue \o Starts(s) /\ executing' = executing /\ provider' = provider
      /\ batch' = batch /\ started' = started /\ lostStarts' = lostStarts
      /\ bound' = bound /\ streams' = streams
  BY DEF ScheduleAgentStarts
<1>2. /\ session \in [Sessions -> SessionType] /\ session[s].made
      /\ session[s].knew \cup session[s].agents \subseteq bound
      /\ \A x \in session[s].knew \cup session[s].agents : Streams[x] \subseteq streams
  BY <1>1, BoundFacts
<1>3. PICK next : next = Scheduled(session, s)
  OBVIOUS
<1>4. /\ next \in [Sessions -> SessionType]
      /\ \A r \in Sessions \ {s} : next[r] = session[r]
      /\ next[s].made = session[s].made /\ next[s].agents = session[s].agents
      /\ next[s].ran = session[s].ran /\ next[s].knew = session[s].knew
      /\ next[s].bound = session[s].bound /\ next[s].scheduled
  <2>1. ScheduledOnly(next, session, s)
    BY <1>2, <1>3, ScheduledFacts
  <2>. QED
    BY <2>1 DEF ScheduledOnly
<1>5. session' = next
  BY <1>1, <1>3
<1>. QED
  BY <1>1, <1>2, <1>4, <1>5, SessionMoves

LEMMA RunKeeps ==
  ASSUME RuntimeAssumption, RuntimeInv, NEW s \in Sessions, Run(s)
  PROVE  RuntimeInv'
<1>1. PICK known : known = IF session[s].bound THEN session ELSE BoundAfter(s)
  OBVIOUS
<1>2. /\ session[s].made
      /\ IF session[s].bound THEN bound' = bound /\ streams' = streams ELSE Binding(s)
      /\ IF known[s].bound
         THEN /\ session' = Scheduled(known, s) /\ executing' = [by |-> s, all |-> TRUE]
              /\ queue' = IF ~session[s].scheduled THEN queue \o Starts(s) ELSE queue
         ELSE session' = known /\ executing' = executing /\ queue' = queue
      /\ provider' = provider /\ batch' = batch /\ started' = started /\ lostStarts' = lostStarts
  BY <1>1 DEF Run
<1>3. /\ known \in [Sessions -> SessionType]
      /\ \A r \in Sessions \ {s} : known[r] = session[r]
      /\ known[s].made /\ known[s].agents = session[s].agents /\ known[s].ran = session[s].ran
      /\ known[s].scheduled = session[s].scheduled
      /\ bound \subseteq bound' /\ streams \subseteq streams'
      /\ known[s].bound =>
           /\ known[s].knew \cup known[s].agents \subseteq bound'
           /\ \A x \in known[s].knew \cup known[s].agents : Streams[x] \subseteq streams'
  <2>1. CASE session[s].bound
    <3>1. known = session /\ bound' = bound /\ streams' = streams
      BY <1>1, <1>2, <2>1
    <3>. QED
      BY <1>2, <2>1, <3>1, BoundFacts
  <2>2. CASE ~session[s].bound
    <3>1. known = BoundAfter(s) /\ Binding(s)
      BY <1>1, <1>2, <2>2
    <3>. QED
      BY <1>2, <2>2, <3>1, BindingFacts
  <2>. QED
    BY <2>1, <2>2
<1>4. CASE known[s].bound
  <2>1. PICK next : next = Scheduled(known, s)
    OBVIOUS
  <2>2. /\ next \in [Sessions -> SessionType]
        /\ \A r \in Sessions \ {s} : next[r] = known[r]
        /\ next[s].made = known[s].made /\ next[s].agents = known[s].agents
        /\ next[s].ran = known[s].ran /\ next[s].knew = known[s].knew
        /\ next[s].bound = known[s].bound /\ next[s].scheduled
    <3>1. ScheduledOnly(next, known, s)
      BY <1>3, <2>1, ScheduledFacts
    <3>. QED
      BY <3>1 DEF ScheduledOnly
  <2>3. /\ session' = next /\ executing'.by = s /\ executing'.all = TRUE
        /\ queue' = IF ~session[s].scheduled THEN queue \o Starts(s) ELSE queue
    BY <1>2, <1>4, <2>1
  <2>. QED
    BY <1>2, <1>3, <1>4, <2>2, <2>3, SessionMoves
<1>5. CASE ~known[s].bound
  <2>1. session' = known /\ executing' = executing /\ queue' = queue
    BY <1>2, <1>5
  <2>2. ~session[s].scheduled
    <3>1. CASE session[s].bound
      BY <1>1, <1>5, <3>1
    <3>2. CASE ~session[s].bound
      BY <3>2, BoundFacts
    <3>. QED
      BY <3>1, <3>2
  <2>. QED
    BY <1>2, <1>3, <1>5, <2>1, <2>2, SessionMoves
<1>. QED
  BY <1>4, <1>5

(* The starts stay where they are.                                         *)
LEMMA OrderStays ==
  ASSUME RuntimeInv, queue' = queue, batch' = batch, started' = started
  PROVE  OrderInv'
BY DEF RuntimeInv, OrderInv, Rising, Before, HandledStarts

LEMMA MakeKeeps ==
  ASSUME RuntimeAssumption, RuntimeInv, NEW s \in Sessions, Make(s)
  PROVE  RuntimeInv'
<1>. USE DEF RuntimeInv
<1>1. /\ session' = [session EXCEPT ![s].made = TRUE, ![s].agents = placed \cap Agents]
      /\ provider' = [a \in Agents |-> IF a \in placed THEN s ELSE provider[a]]
      /\ ~session[s].made
      /\ bound' = bound /\ streams' = streams /\ queue' = queue /\ batch' = batch
      /\ executing' = executing /\ started' = started /\ lostStarts' = lostStarts
  BY DEF Make
<1>2. session \in [Sessions -> SessionType] /\ provider \in [Agents -> Sessions \cup {NoSession}]
  BY DEF EntriesInv
<1>3. PICK found \in SUBSET Agents : found = placed \cap Agents
  OBVIOUS
<1>4. /\ session'[s] = [session[s] EXCEPT !.made = TRUE, !.agents = found]
      /\ \A r \in Sessions \ {s} : session'[r] = session[r]
  BY <1>1, <1>2, <1>3
<1>5. /\ session'[s] \in SessionType /\ session'[s].made /\ session'[s].agents = found
      /\ session'[s].bound = session[s].bound /\ session'[s].scheduled = session[s].scheduled
      /\ session'[s].ran = session[s].ran
  BY <1>2, <1>4 DEF SessionType
<1>6. session' \in [Sessions -> SessionType] /\ provider' \in [Agents -> Sessions \cup {NoSession}]
  BY <1>1, <1>2, <1>4, <1>5
<1>7. ~session[s].bound /\ ~session[s].scheduled /\ ~session[s].ran
  BY <1>1 DEF BoundInv
<1>8. \A r \in Sessions : session[r].scheduled =>
        session'[r].scheduled /\ session'[r].agents = session[r].agents
  BY <1>4, <1>7
<1>9. ASSUME NEW e, ProperStart(e) PROVE ProperStart(e)'
  BY <1>8, <1>9, StartsStayProper
<1>10. EntriesInv'
  <2>1. \A i \in DOMAIN queue : queue[i] = OtherEvent \/ ProperStart(queue[i])'
    <3>. SUFFICES ASSUME NEW i \in DOMAIN queue PROVE queue[i] = OtherEvent \/ ProperStart(queue[i])'
      OBVIOUS
    <3>1. PICK e : e = queue[i]
      OBVIOUS
    <3>2. e = OtherEvent \/ ProperStart(e)'
      BY <1>9, <3>1 DEF EntriesInv
    <3>. QED
      BY <1>1, <3>1, <3>2
  <2>2. \A i \in DOMAIN batch : batch[i] = OtherEvent \/ ProperStart(batch[i])'
    <3>. SUFFICES ASSUME NEW i \in DOMAIN batch PROVE batch[i] = OtherEvent \/ ProperStart(batch[i])'
      OBVIOUS
    <3>1. PICK e : e = batch[i]
      OBVIOUS
    <3>2. e = OtherEvent \/ ProperStart(e)'
      BY <1>9, <3>1 DEF EntriesInv
    <3>. QED
      BY <1>1, <3>1, <3>2
  <2>3. \A e \in lostStarts' : e = OtherEvent \/ ProperStart(e)'
    BY <1>1, <1>9 DEF EntriesInv
  <2>4. \A i \in DOMAIN started : ProperStart(started[i].of)' /\ started[i].context # NoSession
    <3>. SUFFICES ASSUME NEW i \in DOMAIN started
                  PROVE  ProperStart(started[i].of)' /\ started[i].context # NoSession
      OBVIOUS
    <3>1. PICK e : e = started[i].of
      OBVIOUS
    <3>2. ProperStart(e)' /\ started[i].context # NoSession
      BY <1>9, <3>1 DEF EntriesInv
    <3>. QED
      BY <1>1, <3>1, <3>2
  <2>. QED
    BY <1>1, <1>6, <1>8, <2>1, <2>2, <2>3, <2>4 DEF EntriesInv
<1>11. BoundInv'
  <2>1. ASSUME NEW r \in Sessions, session'[r].made, NEW a \in session'[r].agents
        PROVE  provider'[a] # NoSession
    <3>0. a \in Agents
      BY <1>6, <2>1 DEF SessionType
    <3>1. CASE a \in placed
      BY <1>1, <3>0, <3>1 DEF RuntimeAssumption
    <3>2. CASE a \notin placed
      <4>1. r # s
        BY <1>3, <1>5, <2>1, <3>2
      <4>2. session'[r] = session[r] /\ provider'[a] = provider[a]
        BY <1>1, <1>4, <3>0, <3>2, <4>1
      <4>. QED
        BY <2>1, <4>2 DEF BoundInv
    <3>. QED
      BY <3>1, <3>2
  <2>2. ASSUME NEW r \in Sessions
        PROVE  /\ session'[r].scheduled => session'[r].bound
               /\ session'[r].bound =>
                    /\ session'[r].made
                    /\ session'[r].knew \cup session'[r].agents \subseteq bound'
                    /\ \A x \in session'[r].knew \cup session'[r].agents : Streams[x] \subseteq streams'
               /\ session'[r].ran => /\ session'[r].scheduled
                                     /\ \A i \in DOMAIN queue' : queue'[i].session # r
                                     /\ \A i \in DOMAIN batch' : batch'[i].session # r
    <3>1. CASE r = s
      BY <1>5, <1>7, <3>1
    <3>2. CASE r # s
      <4>1. session'[r] = session[r]
        BY <1>4, <3>2
      <4>. QED
        BY <1>1, <4>1 DEF BoundInv
    <3>. QED
      BY <3>1, <3>2
  <2>. QED
    BY <2>1, <2>2 DEF BoundInv
<1>12. NoneForgotten'
  <2>. SUFFICES ASSUME NEW r \in Sessions, session'[r].scheduled, NEW a \in session'[r].agents
                PROVE  Remembered([agent |-> a, session |-> r])'
    BY DEF NoneForgotten
  <2>1. PICK e : e = [agent |-> a, session |-> r]
    OBVIOUS
  <2>2. session'[r] = session[r]
    BY <1>4, <1>5, <1>7
  <2>3. Remembered(e)
    BY <2>1, <2>2 DEF NoneForgotten
  <2>4. Remembered(e)'
    BY <1>1, <2>3 DEF Remembered
  <2>. QED
    BY <2>1, <2>4
<1>. QED
  BY <1>1, <1>10, <1>11, <1>12, OrderStays

(* Steps that touch neither the sessions nor the starts.                   *)
LEMMA QuietKeeps ==
  ASSUME RuntimeInv, session' = session, provider' = provider, bound' = bound,
         streams' = streams, queue' = queue, batch' = batch, started' = started,
         lostStarts' = lostStarts,
         executing' = Idle \/ /\ executing'.by \in Sessions /\ executing'.all \in BOOLEAN
                              /\ executing'.all => session[executing'.by].scheduled
  PROVE  RuntimeInv'
<1>1. EntriesInv'
  BY DEF RuntimeInv, EntriesInv, ProperStart
<1>2. BoundInv'
  BY DEF RuntimeInv, BoundInv
<1>3. OrderInv'
  BY OrderStays
<1>4. NoneForgotten'
  BY DEF RuntimeInv, NoneForgotten, Remembered
<1>. QED
  BY <1>1, <1>2, <1>3, <1>4 DEF RuntimeInv

LEMMA PlaceKeeps ==
  ASSUME RuntimeInv, NEW x \in Devices \cup Agents, Place(x)
  PROVE  RuntimeInv'
<1>1. /\ session' = session /\ provider' = provider /\ bound' = bound /\ streams' = streams
      /\ queue' = queue /\ batch' = batch /\ started' = started /\ lostStarts' = lostStarts
      /\ executing = Idle /\ executing' = executing
  BY DEF Place
<1>. QED
  BY <1>1, QuietKeeps

LEMMA RunBareKeeps ==
  ASSUME RuntimeInv, NEW s \in Sessions, RunBare(s)
  PROVE  RuntimeInv'
<1>1. /\ session' = session /\ provider' = provider /\ bound' = bound /\ streams' = streams
      /\ queue' = queue /\ batch' = batch /\ started' = started /\ lostStarts' = lostStarts
      /\ executing' = [by |-> s, all |-> FALSE]
  BY DEF RunBare
<1>2. executing'.by \in Sessions /\ executing'.all = FALSE
  BY <1>1
<1>. QED
  BY <1>1, <1>2, QuietKeeps

LEMMA RuntimeStays == RuntimeInv /\ UNCHANGED runtimeVars => RuntimeInv'
<1>. SUFFICES ASSUME RuntimeInv, UNCHANGED runtimeVars PROVE RuntimeInv'
  OBVIOUS
<1>1. /\ session' = session /\ provider' = provider /\ bound' = bound /\ streams' = streams
      /\ queue' = queue /\ batch' = batch /\ started' = started /\ lostStarts' = lostStarts
      /\ executing' = executing
  BY DEF runtimeVars
<1>2. executing = Idle \/ /\ executing.by \in Sessions /\ executing.all \in BOOLEAN
                          /\ executing.all => session[executing.by].scheduled
  BY DEF RuntimeInv, EntriesInv
<1>. QED
  BY <1>1, <1>2, QuietKeeps

(* Steps that only move events: those that are still to come were to come, *)
(* in the same order, and those that go are handled or lost.               *)
LEMMA EventsMove ==
  ASSUME RuntimeInv, session' = session, provider' = provider, bound' = bound,
         streams' = streams,
         IsSequence(queue'), IsSequence(batch'), IsSequence(started'),
         executing' = Idle \/ /\ executing'.by \in Sessions /\ executing'.all \in BOOLEAN
                              /\ executing'.all => session[executing'.by].scheduled,
         \A i \in DOMAIN queue' : \/ queue'[i] = OtherEvent
                                  \/ \E k \in DOMAIN queue : queue[k] = queue'[i],
         \A i \in DOMAIN batch' : \/ \E k \in DOMAIN batch : batch[k] = batch'[i]
                                  \/ \E k \in DOMAIN queue : queue[k] = batch'[i],
         \A e \in lostStarts' : e \in lostStarts \/ \E k \in DOMAIN batch : batch[k] = e,
         \A i \in DOMAIN started' : \/ i \in DOMAIN started /\ started'[i] = started[i]
                                    \/ ProperStart(started'[i].of) /\ started'[i].context # NoSession,
         \A i \in DOMAIN started : i \in DOMAIN started' /\ started'[i] = started[i],
         \A i \in DOMAIN batch : \/ batch[i] = OtherEvent
                                 \/ \E k \in DOMAIN batch' : batch'[k] = batch[i]
                                 \/ \E k \in DOMAIN started' : started'[k].of = batch[i]
                                 \/ batch[i] \in lostStarts',
         \A i \in DOMAIN queue : \/ queue[i] = OtherEvent
                                 \/ \E k \in DOMAIN queue' : queue'[k] = queue[i]
                                 \/ \E k \in DOMAIN batch' : batch'[k] = queue[i],
         lostStarts \subseteq lostStarts',
         NoSession \notin Sessions,
         OrderInv'
  PROVE  RuntimeInv'
<1>1. ASSUME NEW e PROVE ProperStart(e)' <=> ProperStart(e)
  BY DEF ProperStart
<1>2. EntriesInv'
  <2>1. \A i \in DOMAIN queue' : queue'[i] = OtherEvent \/ ProperStart(queue'[i])
    BY DEF RuntimeInv, EntriesInv
  <2>2. \A i \in DOMAIN batch' : batch'[i] = OtherEvent \/ ProperStart(batch'[i])
    BY DEF RuntimeInv, EntriesInv
  <2>3. \A e \in lostStarts' : e = OtherEvent \/ ProperStart(e)
    BY DEF RuntimeInv, EntriesInv
  <2>4. \A i \in DOMAIN started' : ProperStart(started'[i].of) /\ started'[i].context # NoSession
    BY DEF RuntimeInv, EntriesInv
  <2>5. session \in [Sessions -> SessionType] /\ provider \in [Agents -> Sessions \cup {NoSession}]
    BY DEF RuntimeInv, EntriesInv
  <2>. QED
    BY <1>1, <2>1, <2>2, <2>3, <2>4, <2>5 DEF EntriesInv, ProperStart
<1>3. BoundInv'
  <2>1. ASSUME NEW s \in Sessions, session[s].ran
        PROVE  /\ \A i \in DOMAIN queue' : queue'[i].session # s
               /\ \A i \in DOMAIN batch' : batch'[i].session # s
    <3>1. OtherEvent.session # s
      BY DEF OtherEvent
    <3>2. /\ \A i \in DOMAIN queue : queue[i].session # s
          /\ \A i \in DOMAIN batch : batch[i].session # s
      BY <2>1 DEF RuntimeInv, BoundInv
    <3>. QED
      BY <3>1, <3>2
  <2>. QED
    BY <2>1 DEF RuntimeInv, BoundInv
<1>4. NoneForgotten'
  <2>. SUFFICES ASSUME NEW s \in Sessions, session[s].scheduled, NEW a \in session[s].agents
                PROVE  Remembered([agent |-> a, session |-> s])'
    BY DEF NoneForgotten
  <2>1. PICK e : e = [agent |-> a, session |-> s]
    OBVIOUS
  <2>2. Remembered(e) /\ e # OtherEvent
    BY <2>1 DEF RuntimeInv, NoneForgotten, OtherEvent
  <2>3. Remembered(e)'
    BY <2>2 DEF Remembered
  <2>. QED
    BY <2>1, <2>3
<1>. QED
  BY <1>2, <1>3, <1>4 DEF RuntimeInv

LEMMA OwnSequence == IsSequence(<<OtherEvent>>) /\ DOMAIN <<OtherEvent>> = {1}
                     /\ <<OtherEvent>>[1] = OtherEvent
  BY OneSent

LEMMA EmptySequence == IsSequence(<<>>) /\ DOMAIN <<>> = {}
  BY OneSent

LEMMA ScheduleOwnKeeps ==
  ASSUME NoSession \notin Sessions, RuntimeInv, ScheduleOwn
  PROVE  RuntimeInv'
<1>1. /\ session' = session /\ provider' = provider /\ bound' = bound /\ streams' = streams
      /\ batch' = batch /\ started' = started /\ lostStarts' = lostStarts
      /\ executing = Idle /\ executing' = executing /\ queue = <<>> /\ queue' = <<OtherEvent>>
  BY DEF ScheduleOwn
<1>2. DOMAIN queue' = {1} /\ queue'[1] = OtherEvent /\ IsSequence(queue') /\ DOMAIN queue = {}
  BY <1>1, OwnSequence, EmptySequence
<1>3. OtherEvent.session \notin Sessions
  BY DEF OtherEvent
<1>4. OrderInv'
  <2>1. HandledStarts' = HandledStarts
    BY <1>1 DEF HandledStarts
  <2>2. Rising(queue') /\ Before(batch, queue') /\ Before(HandledStarts, queue')
    BY <1>2, <1>3 DEF Rising, Before
  <2>3. Rising(HandledStarts) /\ Rising(batch) /\ Before(HandledStarts, batch)
    BY DEF RuntimeInv, OrderInv
  <2>4. OrderInv' <=> /\ Rising(HandledStarts') /\ Rising(batch') /\ Rising(queue')
                      /\ Before(HandledStarts', batch') /\ Before(HandledStarts', queue')
                      /\ Before(batch', queue')
    BY DEF OrderInv
  <2>. QED
    BY <1>1, <2>1, <2>2, <2>3, <2>4, Zenon
<1>5. IsSequence(batch) /\ IsSequence(started)
  BY DEF RuntimeInv, EntriesInv
<1>. QED
  BY <1>1, <1>2, <1>4, <1>5, EventsMove

LEMMA StepKeeps ==
  ASSUME NoSession \notin Sessions, RuntimeInv, Step
  PROVE  RuntimeInv'
<1>1. /\ session' = session /\ provider' = provider /\ bound' = bound /\ streams' = streams
      /\ batch = <<>> /\ batch' = queue /\ queue' = <<>> /\ started' = started
      /\ lostStarts' = lostStarts /\ executing' = executing
  BY DEF Step
<1>2. DOMAIN batch = {} /\ DOMAIN queue' = {} /\ IsSequence(queue')
  BY <1>1, EmptySequence
<1>3. IsSequence(queue) /\ IsSequence(started)
  BY DEF RuntimeInv, EntriesInv
<1>4. executing = Idle \/ /\ executing.by \in Sessions /\ executing.all \in BOOLEAN
                          /\ executing.all => session[executing.by].scheduled
  BY DEF RuntimeInv, EntriesInv
<1>5. OrderInv'
  <2>1. HandledStarts' = HandledStarts
    BY <1>1 DEF HandledStarts
  <2>2. Rising(queue') /\ Before(batch', queue') /\ Before(HandledStarts, queue')
    BY <1>2 DEF Rising, Before
  <2>3. Rising(HandledStarts) /\ Rising(queue) /\ Before(HandledStarts, queue)
    BY DEF RuntimeInv, OrderInv
  <2>4. OrderInv' <=> /\ Rising(HandledStarts') /\ Rising(batch') /\ Rising(queue')
                      /\ Before(HandledStarts', batch') /\ Before(HandledStarts', queue')
                      /\ Before(batch', queue')
    BY DEF OrderInv
  <2>. QED
    BY <1>1, <2>1, <2>2, <2>3, <2>4, Zenon
<1>. QED
  BY <1>1, <1>2, <1>3, <1>4, <1>5, EventsMove

(* What is left of the batch, or nothing of it, and the starts to come.    *)
LEMMA HandleOwnKeeps ==
  ASSUME NoSession \notin Sessions, RuntimeInv, HandleOwn
  PROVE  RuntimeInv'
<1>1. /\ session' = session /\ provider' = provider /\ bound' = bound /\ streams' = streams
      /\ batch # <<>> /\ Head(batch) = OtherEvent /\ batch' = Tail(batch) /\ queue' = queue
      /\ started' = started /\ lostStarts' = lostStarts /\ executing' = executing
  BY DEF HandleOwn
<1>2. IsSequence(batch) /\ IsSequence(queue) /\ IsSequence(started)
  BY DEF RuntimeInv, EntriesInv
<1>3. /\ IsSequence(batch') /\ 1 \in DOMAIN batch /\ batch[1] = OtherEvent
      /\ \A i \in DOMAIN batch' :
           i \in Nat \ {0} /\ i + 1 \in DOMAIN batch /\ batch'[i] = batch[i + 1]
      /\ \A k \in DOMAIN batch : k = 1 \/ (k - 1 \in DOMAIN batch' /\ batch'[k - 1] = batch[k])
  BY <1>1, <1>2, HeadAndTail
<1>4. executing = Idle \/ /\ executing.by \in Sessions /\ executing.all \in BOOLEAN
                          /\ executing.all => session[executing.by].scheduled
  BY DEF RuntimeInv, EntriesInv
<1>5. OrderInv'
  <2>1. HandledStarts' = HandledStarts
    BY <1>1 DEF HandledStarts
  <2>2. /\ Rising(HandledStarts) /\ Rising(queue) /\ Before(HandledStarts, queue)
        /\ Rising(batch) /\ Before(batch, queue) /\ Before(HandledStarts, batch)
    BY DEF RuntimeInv, OrderInv
  <2>3. Rising(batch')
    BY <1>3, <2>2 DEF Rising
  <2>4. Before(batch', queue) /\ Before(HandledStarts, batch')
    BY <1>3, <2>2 DEF Before
  <2>5. OrderInv' <=> /\ Rising(HandledStarts') /\ Rising(batch') /\ Rising(queue')
                      /\ Before(HandledStarts', batch') /\ Before(HandledStarts', queue')
                      /\ Before(batch', queue')
    BY DEF OrderInv
  <2>. QED
    BY <1>1, <2>1, <2>2, <2>3, <2>4, <2>5, Zenon
<1>6. /\ \A i \in DOMAIN batch' : \E k \in DOMAIN batch : batch[k] = batch'[i]
      /\ \A i \in DOMAIN batch : batch[i] = OtherEvent \/ \E k \in DOMAIN batch' : batch'[k] = batch[i]
  BY <1>3
<1>. QED
  BY <1>1, <1>2, <1>3, <1>4, <1>5, <1>6, EventsMove

LEMMA LongerFacts ==
  ASSUME NEW q, NEW x, NEW longer, IsSequence(q), longer = Append(q, x)
  PROVE  /\ IsSequence(longer)
         /\ \A i \in DOMAIN q : i \in DOMAIN longer /\ longer[i] = q[i]
         /\ \E n \in DOMAIN longer : /\ longer[n] = x /\ n \notin DOMAIN q
                                     /\ \A i \in DOMAIN longer : i = n \/ (i \in DOMAIN q /\ i < n)
<1>. DEFINE S == ToSet(q) \cup {x}
<1>1. q \in Seq(S) /\ x \in S
  <2>1. q \in Seq(ToSet(q)) /\ DOMAIN q = 1..Len(q) /\ Len(q) \in Nat
    BY DEF IsSequence
  <2>. QED
    BY <2>1
<1>. HIDE DEF S
<1>2. /\ longer \in Seq(S) /\ Len(longer) = Len(q) + 1 /\ Len(q) \in Nat
      /\ DOMAIN q = 1..Len(q) /\ DOMAIN longer = 1..(Len(q) + 1)
      /\ \A i \in 1..Len(q) : longer[i] = q[i]
      /\ longer[Len(q) + 1] = x
  BY <1>1
<1>3. IsSequence(longer)
  BY <1>2 DEF IsSequence, ToSet
<1>4. \A i \in DOMAIN q : i \in DOMAIN longer /\ longer[i] = q[i]
  BY <1>2
<1>5. PICK n : n = Len(q) + 1
  OBVIOUS
<1>6. /\ n \in DOMAIN longer /\ longer[n] = x /\ n \notin DOMAIN q
      /\ \A i \in DOMAIN longer : i = n \/ (i \in DOMAIN q /\ i < n)
  BY <1>2, <1>5
<1>. QED
  BY <1>3, <1>4, <1>6, Zenon

(* A start is handled before the ones after it.                            *)
LEMMA HandledInOrder ==
  ASSUME RuntimeInv, IsSequence(batch), batch # <<>>, queue' = queue,
         IsSequence(started), NEW c,
         started' = Append(started, [of |-> batch[1], context |-> c]),
         1 \in DOMAIN batch,
         \A i \in DOMAIN batch' : i + 1 \in DOMAIN batch /\ batch'[i] = batch[i + 1],
         \A i \in DOMAIN batch' : i \in Nat \ {0}
  PROVE  OrderInv'
<1>1. PICK x : x = [of |-> batch[1], context |-> c]
  OBVIOUS
<1>2. started' = Append(started, x) /\ x.of = batch[1]
  BY <1>1
<1>3. PICK n \in DOMAIN started' :
        /\ started'[n] = x /\ n \notin DOMAIN started
        /\ \A i \in DOMAIN started' : i = n \/ (i \in DOMAIN started /\ i < n)
  BY <1>2, LongerFacts
<1>4. \A i \in DOMAIN started : i \in DOMAIN started' /\ started'[i] = started[i]
  BY <1>2, LongerFacts
<1>5. PICK was : was = HandledStarts
  OBVIOUS
<1>6. PICK new : new = HandledStarts'
  OBVIOUS
<1>7. /\ DOMAIN was = DOMAIN started /\ \A i \in DOMAIN started : was[i] = started[i].of
      /\ DOMAIN new = DOMAIN started' /\ \A i \in DOMAIN started' : new[i] = started'[i].of
  BY <1>5, <1>6 DEF HandledStarts
<1>8. /\ n \in DOMAIN new /\ new[n] = batch[1] /\ n \notin DOMAIN was
      /\ \A i \in DOMAIN new : i = n \/ (i \in DOMAIN was /\ i < n /\ new[i] = was[i])
  BY <1>2, <1>3, <1>4, <1>7
<1>9. /\ Rising(was) /\ Rising(queue) /\ Before(was, queue)
      /\ Rising(batch) /\ Before(batch, queue) /\ Before(was, batch)
  BY <1>5 DEF RuntimeInv, OrderInv
<1>10. DOMAIN started' \subseteq Nat
  BY <1>2, LongerFacts DEF IsSequence
<1>11. Rising(new)
  <2>. SUFFICES ASSUME NEW i \in DOMAIN new, NEW j \in DOMAIN new, i < j,
                       new[i].session = new[j].session, new[i].session \in Sessions
                PROVE  Position(new[i].agent) < Position(new[j].agent)
    BY DEF Rising
  <2>1. i # n
    <3>1. j = n \/ j < n
      BY <1>8
    <3>. QED
      BY <1>7, <1>10, <3>1
  <2>2. i \in DOMAIN was /\ new[i] = was[i]
    BY <1>8, <2>1
  <2>3. CASE j = n
    BY <1>8, <1>9, <2>2, <2>3 DEF Before
  <2>4. CASE j # n
    <3>1. j \in DOMAIN was /\ new[j] = was[j]
      BY <1>8, <2>4
    <3>. QED
      BY <1>9, <2>2, <3>1 DEF Rising
  <2>. QED
    BY <2>3, <2>4
<1>12. Rising(batch')
  BY <1>9 DEF Rising
<1>13. Before(batch', queue)
  BY <1>9 DEF Before
<1>14. Before(new, queue)
  BY <1>8, <1>9 DEF Before
<1>15. Before(new, batch')
  <2>. SUFFICES ASSUME NEW i \in DOMAIN new, NEW j \in DOMAIN batch',
                       new[i].session = batch'[j].session, new[i].session \in Sessions
                PROVE  Position(new[i].agent) < Position(batch'[j].agent)
    BY DEF Before
  <2>0. j + 1 \in DOMAIN batch /\ batch'[j] = batch[j + 1] /\ 1 < j + 1
    OBVIOUS
  <2>1. CASE i = n
    BY <1>8, <1>9, <2>0, <2>1 DEF Rising
  <2>2. CASE i # n
    BY <1>8, <1>9, <2>0, <2>2 DEF Before
  <2>. QED
    BY <2>1, <2>2
<1>16. OrderInv' <=> /\ Rising(HandledStarts') /\ Rising(batch') /\ Rising(queue')
                     /\ Before(HandledStarts', batch') /\ Before(HandledStarts', queue')
                     /\ Before(batch', queue')
  BY DEF OrderInv
<1>. QED
  BY <1>6, <1>9, <1>11, <1>12, <1>13, <1>14, <1>15, <1>16, Zenon

LEMMA HandleStartKeeps ==
  ASSUME NoSession \notin Sessions, RuntimeInv, HandleStart
  PROVE  RuntimeInv'
<1>1. PICK c : c = provider[Head(batch).agent]
  OBVIOUS
<1>2. /\ session' = session /\ provider' = provider /\ bound' = bound /\ streams' = streams
      /\ batch # <<>> /\ Head(batch) # OtherEvent /\ queue' = queue
      /\ started' = Append(started, [of |-> Head(batch), context |-> c])
      /\ \/ batch' = Tail(batch) /\ executing' = executing /\ lostStarts' = lostStarts
         \/ batch' = <<>> /\ executing' = Idle /\ lostStarts' = lostStarts \cup ToSet(Tail(batch))
  BY <1>1 DEF HandleStart
<1>3. IsSequence(batch) /\ IsSequence(queue) /\ IsSequence(started)
  BY DEF RuntimeInv, EntriesInv
<1>4. PICK rest : rest = Tail(batch)
  OBVIOUS
<1>5. /\ IsSequence(rest) /\ 1 \in DOMAIN batch /\ Head(batch) = batch[1]
      /\ \A i \in DOMAIN rest : i \in Nat \ {0} /\ i + 1 \in DOMAIN batch /\ rest[i] = batch[i + 1]
      /\ \A k \in DOMAIN batch : k = 1 \/ (k - 1 \in DOMAIN rest /\ rest[k - 1] = batch[k])
  BY <1>2, <1>3, <1>4, HeadAndTail
<1>6. ProperStart(batch[1])
  BY <1>2, <1>5 DEF RuntimeInv, EntriesInv
<1>7. c # NoSession
  BY <1>1, <1>5, <1>6 DEF RuntimeInv, BoundInv, ProperStart
<1>8. PICK x : x = [of |-> batch[1], context |-> c]
  OBVIOUS
<1>9. /\ started' = Append(started, x) /\ x.of = batch[1] /\ x.context # NoSession
      /\ started' = Append(started, [of |-> batch[1], context |-> c])
  BY <1>2, <1>5, <1>7, <1>8
<1>10. /\ IsSequence(started')
       /\ \A i \in DOMAIN started : i \in DOMAIN started' /\ started'[i] = started[i]
       /\ \E n \in DOMAIN started' : /\ started'[n] = x
                                     /\ \A i \in DOMAIN started' : i = n \/ i \in DOMAIN started
  <2>0. started' = Append(started, x)
    BY <1>9
  <2>1. PICK n \in DOMAIN started' :
          /\ started'[n] = x /\ n \notin DOMAIN started
          /\ \A i \in DOMAIN started' : i = n \/ (i \in DOMAIN started /\ i < n)
    BY <1>3, <2>0, LongerFacts
  <2>2. IsSequence(started')
    <3>1. PICK later : later = started'
      OBVIOUS
    <3>2. IsSequence(later)
      BY <1>3, <2>0, <3>1, LongerFacts
    <3>. QED
      BY <3>1, <3>2
  <2>3. \A i \in DOMAIN started : i \in DOMAIN started' /\ started'[i] = started[i]
    BY <1>3, <2>0, LongerFacts
  <2>. QED
    BY <2>1, <2>2, <2>3
<1>11. executing = Idle \/ /\ executing.by \in Sessions /\ executing.all \in BOOLEAN
                           /\ executing.all => session[executing.by].scheduled
  BY DEF RuntimeInv, EntriesInv
<1>12. batch' = rest \/ (batch' = <<>> /\ DOMAIN batch' = {})
  BY <1>2, <1>4, EmptySequence
<1>13. OrderInv'
  <2>1. /\ \A i \in DOMAIN batch' : i + 1 \in DOMAIN batch /\ batch'[i] = batch[i + 1]
        /\ \A i \in DOMAIN batch' : i \in Nat \ {0}
    BY <1>5, <1>12
  <2>. QED
    BY <1>2, <1>3, <1>5, <1>9, <2>1, HandledInOrder
<1>14. /\ \A i \in DOMAIN batch' : \E k \in DOMAIN batch : batch[k] = batch'[i]
       /\ IsSequence(batch')
  BY <1>5, <1>12, EmptySequence
<1>15. /\ lostStarts \subseteq lostStarts'
       /\ \A e \in lostStarts' : e \in lostStarts \/ \E k \in DOMAIN batch : batch[k] = e
       /\ \A i \in DOMAIN batch : \/ i = 1
                                  \/ \E k \in DOMAIN batch' : batch'[k] = batch[i]
                                  \/ batch[i] \in lostStarts'
  <2>1. CASE batch' = rest /\ lostStarts' = lostStarts
    BY <1>5, <2>1
  <2>2. CASE lostStarts' = lostStarts \cup ToSet(rest)
    <3>1. ToSet(rest) = {rest[i] : i \in DOMAIN rest}
      BY DEF ToSet
    <3>. QED
      BY <1>5, <2>2, <3>1
  <2>. QED
    BY <1>2, <1>4, <2>1, <2>2
<1>16. /\ \A i \in DOMAIN started' : \/ i \in DOMAIN started /\ started'[i] = started[i]
                                     \/ ProperStart(started'[i].of) /\ started'[i].context # NoSession
       /\ \E k \in DOMAIN started' : started'[k].of = batch[1]
  BY <1>6, <1>9, <1>10
<1>17. executing' = executing \/ executing' = Idle
  BY <1>2
<1>. QED
  BY <1>2, <1>3, <1>10, <1>11, <1>13, <1>14, <1>15, <1>16, <1>17, EventsMove

LEMMA RunReturnsKeeps ==
  ASSUME NoSession \notin Sessions, RuntimeInv, RunReturns
  PROVE  RuntimeInv'
<1>1. PICK by : by = executing.by
  OBVIOUS
<1>2. PICK all : all = executing.all
  OBVIOUS
<1>3. /\ session' = [session EXCEPT ![by].ran = @ \/ all] /\ provider' = provider
      /\ bound' = bound /\ streams' = streams /\ queue = <<>> /\ batch = <<>>
      /\ queue' = queue /\ batch' = batch /\ started' = started /\ lostStarts' = lostStarts
      /\ executing # Idle /\ executing' = Idle
  BY <1>1, <1>2 DEF RunReturns
<1>4. by \in Sessions /\ all \in BOOLEAN /\ (all => session[by].scheduled)
  BY <1>1, <1>2, <1>3 DEF RuntimeInv, EntriesInv
<1>5. session \in [Sessions -> SessionType]
  BY DEF RuntimeInv, EntriesInv
<1>6. PICK s1 : s1 = [session[by] EXCEPT !.ran = @ \/ all]
  OBVIOUS
<1>7. s1 \in SessionType /\ s1.made = session[by].made /\ s1.agents = session[by].agents
      /\ s1.bound = session[by].bound /\ s1.knew = session[by].knew
      /\ s1.scheduled = session[by].scheduled /\ s1.ran = (session[by].ran \/ all)
  BY <1>4, <1>5, <1>6 DEF SessionType
<1>8. session'[by] = s1 /\ \A r \in Sessions \ {by} : session'[r] = session[r]
  BY <1>3, <1>4, <1>5, <1>6
<1>9. session' \in [Sessions -> SessionType]
  BY <1>3, <1>4, <1>5, <1>7, <1>8
<1>10. \A r \in Sessions :
         /\ session'[r].made = session[r].made /\ session'[r].agents = session[r].agents
         /\ session'[r].bound = session[r].bound /\ session'[r].knew = session[r].knew
         /\ session'[r].scheduled = session[r].scheduled
         /\ session'[r].ran => session[r].ran \/ session[r].scheduled
  BY <1>4, <1>7, <1>8
<1>11. DOMAIN queue = {} /\ DOMAIN batch = {}
  BY <1>3, EmptySequence
<1>12. EntriesInv'
  <2>1. ASSUME NEW e, ProperStart(e) PROVE ProperStart(e)'
    BY <1>10, <2>1 DEF ProperStart
  <2>. QED
    BY <1>3, <1>9, <1>11, <2>1 DEF RuntimeInv, EntriesInv
<1>13. BoundInv'
  BY <1>3, <1>10, <1>11 DEF RuntimeInv, BoundInv
<1>14. OrderInv'
  BY <1>3, OrderStays
<1>15. NoneForgotten'
  BY <1>3, <1>10 DEF RuntimeInv, NoneForgotten, Remembered
<1>. QED
  BY <1>12, <1>13, <1>14, <1>15 DEF RuntimeInv

LEMMA RuntimeInvNext ==
  RuntimeAssumption /\ RuntimeInv /\ [RuntimeNext]_runtimeVars => RuntimeInv'
<1>. SUFFICES ASSUME RuntimeAssumption, RuntimeInv, [RuntimeNext]_runtimeVars
              PROVE  RuntimeInv'
  OBVIOUS
<1>1. NoSession \notin Sessions
  BY DEF RuntimeAssumption
<1>2. ASSUME NEW x \in Devices \cup Agents, Place(x) PROVE RuntimeInv'
  BY <1>2, PlaceKeeps
<1>3. ASSUME NEW s \in Sessions, Make(s) PROVE RuntimeInv'
  BY <1>3, MakeKeeps
<1>4. ASSUME NEW s \in Sessions, BindAll(s) PROVE RuntimeInv'
  BY <1>4, BindAllKeeps
<1>5. ASSUME NEW s \in Sessions, ScheduleAgentStarts(s) PROVE RuntimeInv'
  BY <1>5, ScheduleKeeps
<1>6. ASSUME NEW s \in Sessions, Run(s) PROVE RuntimeInv'
  BY <1>6, RunKeeps
<1>7. ASSUME NEW s \in Sessions, RunBare(s) PROVE RuntimeInv'
  BY <1>7, RunBareKeeps
<1>8. CASE ScheduleOwn
  BY <1>1, <1>8, ScheduleOwnKeeps
<1>9. CASE Step
  BY <1>1, <1>9, StepKeeps
<1>10. CASE HandleStart
  BY <1>1, <1>10, HandleStartKeeps
<1>11. CASE HandleOwn
  BY <1>1, <1>11, HandleOwnKeeps
<1>12. CASE RunReturns
  BY <1>1, <1>12, RunReturnsKeeps
<1>13. CASE UNCHANGED runtimeVars
  BY <1>13, RuntimeStays
<1>. QED
  BY <1>2, <1>3, <1>4, <1>5, <1>6, <1>7, <1>8, <1>9, <1>10, <1>11, <1>12, <1>13 DEF RuntimeNext

LEMMA RuntimeInvSuffices == RuntimeAssumption /\ RuntimeInv => AgentsStartBound
<1>. SUFFICES ASSUME RuntimeAssumption, RuntimeInv PROVE AgentsStartBound
  OBVIOUS
<1>1. IsSequence(started) /\ DOMAIN started = 1..Len(started)
  BY SequenceFacts DEF RuntimeInv, EntriesInv
<1>2. \A i \in DOMAIN started : ProperStart(started[i].of) /\ started[i].context # NoSession
  BY DEF RuntimeInv, EntriesInv
<1>3. StartedBound
  BY <1>1, <1>2 DEF StartedBound, RuntimeInv, BoundInv, ProperStart
<1>4. ASSUME NEW s \in Sessions, NEW i \in 1..Len(started), NEW j \in 1..Len(started),
             i < j, started[i].of.session = s, started[j].of.session = s
      PROVE  Position(started[i].of.agent) < Position(started[j].of.agent)
  <2>1. Rising(HandledStarts)
    BY DEF RuntimeInv, OrderInv
  <2>2. PICK was : was = HandledStarts
    OBVIOUS
  <2>3. DOMAIN was = DOMAIN started /\ \A k \in DOMAIN started : was[k] = started[k].of
    BY <2>2 DEF HandledStarts
  <2>. QED
    BY <1>1, <1>4, <2>1, <2>2, <2>3 DEF Rising
<1>5. ASSUME NEW s \in Sessions, session[s].ran
      PROVE  session[s].agents = {e.of.agent : e \in StartsOf(s)}
                                 \cup {e.agent : e \in {l \in lostStarts : l.session = s}}
  <2>1. /\ session[s].scheduled
        /\ \A i \in DOMAIN queue : queue[i].session # s
        /\ \A i \in DOMAIN batch : batch[i].session # s
    BY <1>5 DEF RuntimeInv, BoundInv
  <2>2. ASSUME NEW a \in session[s].agents
        PROVE  \/ \E e \in StartsOf(s) : e.of.agent = a
               \/ \E e \in lostStarts : e.session = s /\ e.agent = a
    <3>1. PICK e : e = [agent |-> a, session |-> s]
      OBVIOUS
    <3>2. Remembered(e)
      BY <2>1, <3>1 DEF RuntimeInv, NoneForgotten
    <3>3. e.session = s /\ e.agent = a
      BY <3>1
    <3>4. CASE e \in lostStarts
      BY <3>3, <3>4
    <3>5. CASE \E i \in DOMAIN started : started[i].of = e
      <4>1. PICK i \in DOMAIN started : started[i].of = e
        BY <3>5
      <4>2. started[i] \in StartsOf(s) /\ started[i].of.agent = a
        BY <3>3, <4>1 DEF StartsOf, ToSet
      <4>. QED
        BY <4>2
    <3>. QED
      BY <2>1, <3>2, <3>3, <3>4, <3>5 DEF Remembered
  <2>3. ASSUME NEW e \in StartsOf(s) PROVE e.of.agent \in session[s].agents
    BY <1>2, <2>3 DEF StartsOf, ToSet, ProperStart
  <2>4. ASSUME NEW e \in lostStarts, e.session = s PROVE e.agent \in session[s].agents
    <3>1. e # OtherEvent
      BY <2>4 DEF OtherEvent, RuntimeAssumption
    <3>. QED
      BY <2>4, <3>1 DEF RuntimeInv, EntriesInv, ProperStart
  <2>. QED
    BY <2>2, <2>3, <2>4
<1>6. StartedInOrder
  BY <1>4, <1>5 DEF StartedInOrder
<1>. QED
  BY <1>3, <1>6 DEF AgentsStartBound

(* Over one timeline, however sessions are made, bound, scheduled and run  *)
(* by whatever failed calls and hooks that raise, what is known of the     *)
(* sessions and of the starts to come keeps together (runtime.py).         *)
THEOREM RuntimeInductive == RuntimeInit /\ [][RuntimeNext]_runtimeVars => []RuntimeInv
<1>1. RuntimeInit => RuntimeInv
  BY RuntimeInit0
<1>2. RuntimeInv /\ [RuntimeNext]_runtimeVars => RuntimeInv'
  BY RuntimeInvNext, RuntimeAssumption
<1>. QED
  BY <1>1, <1>2, PTL

(* Every session's agents are started in the order of their names, once,   *)
(* none forgotten by a run that returned, and only after every device and  *)
(* agent of the session is bound and has its streams (runtime.py bind_all, *)
(* schedule_agent_starts, run).                                            *)
THEOREM SpecAgentsStartBound ==
  RuntimeInit /\ [][RuntimeNext]_runtimeVars => []AgentsStartBound
<1>1. RuntimeInv => AgentsStartBound
  BY RuntimeInvSuffices, RuntimeAssumption
<1>. QED
  BY <1>1, RuntimeInductive, PTL
-----------------------------------------------------------------------------

(* Distillation.  Each end has one job at a time, which its agent's state  *)
(* calls for; each half lies where the agent has filed it, until its job   *)
(* takes it; and the halves of pair 1 stay in one state.                   *)

(* The position at which the agent of e has filed pair q, or Nothing.      *)
Filed(e, q) == IF q = D!SourcePair THEN agent[e].source ELSE agent[e].target

(* The agent of e has filed both halves.                                   *)
ReadyAt(e) == agent[e].source # D!Nothing /\ agent[e].target # D!Nothing

(* The reports of jobs that the agent of e has not read.                   *)
JobReports(e) == {i \in DOMAIN reports[e] : reports[e][i].kind \notin {"absorb", "expire"}}

(* No report of an expiry waits for the agent of e.                        *)
Unexpired(e) == \A i \in DOMAIN reports[e] : reports[e][i].kind # "expire"

(* The reports the agent of e can read: at that of an expiry it raises.    *)
Trusted(e) == {i \in DOMAIN reports[e] : \A j \in 1..i : reports[e][j].kind # "expire"}

(* Pair q is at position x by what the agent of e knows, or will read.     *)
Lies(e, q, x) ==
  \/ x = Filed(e, q) /\ x # D!Nothing
  \/ \E i \in Trusted(e) : /\ reports[e][i].kind = "absorb" /\ reports[e][i].pair = q
                           /\ reports[e][i].position = x

(* The target half is no longer in memory; nor is the source half.         *)
Measured(e)  == agent[e].measureRequested /\ (agent[e].bit # D!NoBit \/ JobReports(e) # {})
Discarded(e) == agent[e].keep = "reject" /\ requests[e] = <<>>
Taken(e, q)  == IF q = D!SourcePair THEN Discarded(e) ELSE Measured(e)

(* The fields of an agent, and the reports to it.                          *)
AgentSet ==
  [source : 0..2, target : 0..2, peerReady : BOOLEAN, peerSource : 0..2, readySent : BOOLEAN,
   cnotRequested : BOOLEAN, measureRequested : BOOLEAN, bit : 0..2, peerBit : 0..2,
   keep : {"open", "keep", "reject"}, finalLayout : SUBSET (D!Ends \X (1..2))]

ReportSet ==
  [kind : {"absorb"}, position : D!Positions, pair : 1..2]
    \cup [kind : {"apply", "measure", "discard"}, bit : 0..2]
    \cup [kind : {"expire"}, position : D!Positions]

(* The state has its type, and no queue or set names a pair not sent.      *)
RoundTypes ==
  /\ emitted \in 0..2
  /\ flight \in [D!Ends -> SUBSET (1..emitted)]
  /\ memory \in [D!Ends -> [at : [D!Positions -> 0..2], busy : SUBSET D!Positions]]
  /\ delayed \in BOOLEAN /\ expires \in BOOLEAN
  /\ DOMAIN requests = D!Ends /\ DOMAIN running = D!Ends
  /\ \A e \in D!Ends : reports[e] \in Seq(ReportSet)
  /\ DOMAIN reports = D!Ends /\ DOMAIN mail = D!Ends
  /\ agent \in [D!Ends -> AgentSet]
  /\ joint \subseteq SUBSET (D!Ends \X (1..emitted))

(* A pair whose absorption is reported, or filed, has left the channel,    *)
(* and is reported and filed once.                                         *)
AbsorbedOnce(e) ==
  /\ \A q \in 1..2 : Filed(e, q) # D!Nothing => q \in 1..emitted \ flight[e]
  /\ \A i \in DOMAIN reports[e] : reports[e][i].kind = "absorb" =>
       /\ reports[e][i].pair \in 1..emitted \ flight[e] /\ Filed(e, reports[e][i].pair) = D!Nothing
       /\ \A j \in DOMAIN reports[e] :
            reports[e][j].kind = "absorb" /\ reports[e][j].pair = reports[e][i].pair => i = j

(* The two halves are known to lie at two positions, neither of which ever *)
(* holds the other's half; and unless an expiry is to be read, each is     *)
(* there until its job has taken it.                                       *)
PlacesKnown(e) ==
  /\ \A x, y \in D!Positions : Lies(e, 1, x) /\ Lies(e, 2, y) =>
       x # y /\ memory[e].at[x] \in {0, 1} /\ memory[e].at[y] \in {0, 2}
  /\ Unexpired(e) => \A q \in 1..2, x \in D!Positions : Lies(e, q, x) =>
       memory[e].at[x] = IF Taken(e, q) THEN D!Nothing ELSE q

(* The one job of an end is asked for, in progress, or done and to be      *)
(* reported; or there is none.                                             *)
Job(op, positions) == [op |-> op, positions |-> positions]
Doing(e, op, positions) ==
  \/ /\ requests[e] = <<Job(op, positions)>> /\ running[e] = D!NoOperation /\ JobReports(e) = {}
  \/ /\ requests[e] = <<>> /\ running[e] = Job(op, positions) /\ JobReports(e) = {}
     /\ op # "discard"
  \/ /\ requests[e] = <<>> /\ running[e] = D!NoOperation
     /\ \E i \in DOMAIN reports[e] : JobReports(e) = {i} /\ reports[e][i].kind = op
                                       /\ (op = "measure" => reports[e][i].bit # D!NoBit)
AtRest(e) == requests[e] = <<>> /\ running[e] = D!NoOperation /\ JobReports(e) = {}

(* How far an agent has come in the round decides which job its end has.   *)
OneJob(e) ==
  LET a == agent[e] IN
  /\ memory[e].busy = D!ToSet(running[e].positions)
  /\ \A p \in memory[e].busy : memory[e].at[p] # D!Nothing
  /\ a.readySent <=> ReadyAt(e)
  /\ a.cnotRequested => ReadyAt(e) /\ a.peerReady
  /\ ~a.cnotRequested => AtRest(e) /\ ~a.measureRequested
  /\ a.cnotRequested /\ ~a.measureRequested => Doing(e, "apply", <<a.source, a.target>>)
  /\ ~a.measureRequested => a.bit = D!NoBit
  /\ a.measureRequested /\ a.bit = D!NoBit => Doing(e, "measure", <<a.target>>)
  /\ a.bit # D!NoBit /\ a.keep # "reject" => AtRest(e)
  /\ a.keep = "reject" => AtRest(e) \/ Doing(e, "discard", <<a.source>>)
  /\ a.keep # "open" => a.bit # D!NoBit
  /\ a.keep = "reject" => a.peerBit \notin {a.bit, D!NoBit}

(* What the peer may have sent to e: it is ready only once it has filed    *)
(* both halves, and never files one again.                                 *)
MailSet(e) ==
  {m \in [type : {"ready"}, source : D!Positions] \cup [type : {"target_result"}, bit : 0..1] :
     /\ m.type = "ready" => ReadyAt(D!Peer(e)) /\ m.source = agent[D!Peer(e)].source
     /\ m.type = "target_result" => m.bit = agent[D!Peer(e)].bit}

(* What e has been told, or will be, is what its peer has.                 *)
Told(e) ==
  /\ mail[e] \in Seq(MailSet(e))
  /\ agent[e].peerReady => ReadyAt(D!Peer(e)) /\ agent[e].peerSource = agent[D!Peer(e)].source
  /\ agent[e].peerBit \in {D!NoBit, agent[D!Peer(e)].bit}

(* No state holds the target half of an end that has measured it.          *)
Gone(e) == Measured(e) => \A state \in joint : <<e, 2>> \notin state

(* The half of pair 1 at e has not been lost.                              *)
Present(e) == 1 \in flight[e] \/ Filed(e, 1) # D!Nothing
                 \/ \E i \in DOMAIN reports[e] : reports[e][i].kind = "absorb" /\ reports[e][i].pair = 1

(* While neither half of pair 1 is lost, expired or rejected, they are in  *)
(* one state, which has them both.                                         *)
Together ==
  ~expired /\ (\A e \in D!Ends : Present(e) /\ agent[e].keep # "reject") =>
    /\ \E state \in joint : <<"alice", 1>> \in state
    /\ \A state \in joint : <<"alice", 1>> \in state <=> <<"bob", 1>> \in state

(* The invariant of a round that no exception has ended.                   *)
RoundInv ==
  /\ RoundTypes /\ Together
  /\ \A e \in D!Ends : /\ AbsorbedOnce(e) /\ PlacesKnown(e) /\ OneJob(e) /\ Told(e) /\ Gone(e)
                       /\ expired \/ Unexpired(e)

(* Its part about one end.                                                 *)
EndInv(e) == AbsorbedOnce(e) /\ PlacesKnown(e) /\ OneJob(e)

-----------------------------------------------------------------------------
(* Sequences of at most two items.                                         *)
LEMMA SmallSequences ==
  /\ \A x : <<x>> # <<>> /\ Head(<<x>>) = x /\ Tail(<<x>>) = <<>> /\ <<x>> \o <<>> = <<x>>
              /\ <<>> \o <<x>> = <<x>>
  /\ <<>> \o <<>> = <<>>
  /\ \A x, y : D!ToSet(<<x>>) = {x} /\ D!ToSet(<<x, y>>) = {x, y} /\ D!ToSet(<<>>) = {}
<1>1. \A x : <<x>> # <<>> /\ Head(<<x>>) = x /\ Tail(<<x>>) = <<>>
  OBVIOUS
<1>2. \A x : <<x>> \o <<>> = <<x>> /\ <<>> \o <<x>> = <<x>>
  OBVIOUS
<1>3. <<>> \o <<>> = <<>>
  OBVIOUS
<1>4. \A x, y : D!ToSet(<<x>>) = {x} /\ D!ToSet(<<x, y>>) = {x, y} /\ D!ToSet(<<>>) = {}
  BY DEF D!ToSet
<1>. QED
  BY <1>1, <1>2, <1>3, <1>4

(* A report has been added: what it says of the places is new, if the      *)
(* agent will come to read it.                                             *)
LEMMA AddedReport ==
  ASSUME NEW e \in D!Ends, NEW r, RoundTypes, r \in ReportSet, agent'[e] = agent[e],
         reports' = [reports EXCEPT ![e] = Append(@, r)]
  PROVE  /\ reports'[e] \in Seq(ReportSet) /\ DOMAIN reports' = D!Ends
         /\ \A f \in D!Ends : f # e => reports'[f] = reports[f]
         /\ DOMAIN (reports'[e]) = DOMAIN (reports[e]) \cup {Len(reports[e]) + 1}
         /\ Len(reports[e]) + 1 \notin DOMAIN (reports[e])
         /\ \A i \in DOMAIN (reports[e]) : reports'[e][i] = reports[e][i]
         /\ reports'[e][Len(reports[e]) + 1] = r
         /\ Unexpired(e)' <=> Unexpired(e) /\ r.kind # "expire"
         /\ \A q, x : Lies(e, q, x) => Lies(e, q, x)'
         /\ \A q, x : Lies(e, q, x)' =>
              Lies(e, q, x) \/ (Unexpired(e) /\ r.kind = "absorb" /\ r.pair = q /\ r.position = x)
         /\ r.kind # "absorb" => \A q, x : Lies(e, q, x)' => Lies(e, q, x)
<1>. DEFINE n == Len(reports[e]) + 1
<1>1. reports[e] \in Seq(ReportSet) /\ DOMAIN reports = D!Ends
  BY DEF RoundTypes
<1>2. /\ reports'[e] = Append(reports[e], r) /\ DOMAIN reports' = D!Ends
      /\ \A f \in D!Ends : f # e => reports'[f] = reports[f]
  BY <1>1
<1>3. /\ reports'[e] \in Seq(ReportSet) /\ Len(reports'[e]) = n
      /\ \A i \in 1..Len(reports[e]) : reports'[e][i] = reports[e][i]
      /\ reports'[e][n] = r
  BY <1>1, <1>2
<1>4. DOMAIN (reports'[e]) = 1..n /\ DOMAIN (reports[e]) = 1..(n - 1) /\ n \in Nat /\ n >= 1
  BY <1>1, <1>3
<1>5. DOMAIN (reports'[e]) = DOMAIN (reports[e]) \cup {n} /\ n \notin DOMAIN (reports[e])
  BY <1>4
<1>. HIDE DEF n
<1>6. Unexpired(e)' <=> Unexpired(e) /\ r.kind # "expire"
  BY <1>3, <1>4, <1>5 DEF Unexpired
<1>7. \A i \in DOMAIN (reports[e]) : i \in Trusted(e)' <=> i \in Trusted(e)
  BY <1>3, <1>4, <1>5 DEF Trusted
<1>8. n \in Trusted(e)' => Unexpired(e)
  BY <1>3, <1>4, <1>5 DEF Trusted, Unexpired
<1>9. \A q : Filed(e, q)' = Filed(e, q)
  BY DEF Filed
<1>10. \A q, x : Lies(e, q, x) => Lies(e, q, x)'
  <2>. SUFFICES ASSUME NEW q, NEW x, Lies(e, q, x) PROVE Lies(e, q, x)'
    OBVIOUS
  <2>1. CASE x = Filed(e, q) /\ x # D!Nothing
    BY <2>1, <1>9 DEF Lies, D!Nothing
  <2>2. CASE \E i \in Trusted(e) : /\ reports[e][i].kind = "absorb" /\ reports[e][i].pair = q
                           /\ reports[e][i].position = x
    BY <2>2, <1>3, <1>4, <1>7 DEF Lies, Trusted
  <2>. QED BY <2>1, <2>2 DEF Lies
<1>11. ASSUME NEW q, NEW x, Lies(e, q, x)' PROVE
              Lies(e, q, x) \/ (Unexpired(e) /\ r.kind = "absorb" /\ r.pair = q /\ r.position = x)
  <2>1. CASE x = Filed(e, q)' /\ x # D!Nothing
    BY <2>1, <1>9 DEF Lies
  <2>2. CASE \E i \in Trusted(e)' : /\ reports'[e][i].kind = "absorb" /\ reports'[e][i].pair = q
                           /\ reports'[e][i].position = x
    <3>1. PICK i \in Trusted(e)' : /\ reports'[e][i].kind = "absorb" /\ reports'[e][i].pair = q
                           /\ reports'[e][i].position = x
      BY <2>2
    <3>2. i \in DOMAIN (reports'[e])
      BY DEF Trusted
    <3>3. CASE i = n
      <4>1. reports'[e][i] = r
        BY <3>3, <1>3
      <4>2. Unexpired(e)
        BY <3>1, <3>3, <1>8
      <4>. QED
        BY <3>1, <4>1, <4>2
    <3>4. CASE i \in DOMAIN (reports[e])
      BY <3>1, <3>4, <1>3, <1>4, <1>7 DEF Lies
    <3>. QED BY <3>2, <3>3, <3>4, <1>5
  <2>. QED BY <1>11, <2>1, <2>2 DEF Lies, D!Nothing
<1>. QED
  BY <1>2, <1>3, <1>4, <1>5, <1>6, <1>10, <1>11 DEF n

(* A report has been read: the others move up.                             *)
LEMMA ReadReports ==
  ASSUME NEW e \in D!Ends, RoundTypes, reports[e] # <<>>,
         reports' = [reports EXCEPT ![e] = Tail(@)]
  PROVE  /\ reports'[e] \in Seq(ReportSet) /\ DOMAIN reports' = D!Ends
         /\ \A f \in D!Ends : f # e => reports'[f] = reports[f]
         /\ 1 \in DOMAIN (reports[e]) /\ Head(reports[e]) = reports[e][1] /\ reports[e][1] \in ReportSet
         /\ DOMAIN (reports'[e]) = 1..(Len(reports[e]) - 1) /\ DOMAIN (reports[e]) = 1..Len(reports[e])
         /\ Len(reports[e]) \in Nat
         /\ \A i \in DOMAIN (reports'[e]) : reports'[e][i] = reports[e][i + 1]
<1>1. reports[e] \in Seq(ReportSet) /\ DOMAIN reports = D!Ends
  BY DEF RoundTypes
<1>2. /\ reports'[e] = Tail(reports[e]) /\ DOMAIN reports' = D!Ends
      /\ \A f \in D!Ends : f # e => reports'[f] = reports[f]
  BY <1>1
<1>3. /\ reports'[e] \in Seq(ReportSet) /\ Len(reports'[e]) = Len(reports[e]) - 1
      /\ Len(reports[e]) \in Nat \ {0}
      /\ \A i \in 1..(Len(reports[e]) - 1) : reports'[e][i] = reports[e][i + 1]
      /\ Head(reports[e]) = reports[e][1]
  BY <1>1, <1>2
<1>4. DOMAIN (reports'[e]) = 1..(Len(reports[e]) - 1) /\ DOMAIN (reports[e]) = 1..Len(reports[e])
  BY <1>1, <1>3
<1>. QED
  BY <1>1, <1>2, <1>3, <1>4

(* An end that nothing has happened to is as it was.                       *)
LEMMA SameEnd ==
  ASSUME NEW f \in D!Ends, memory'[f] = memory[f], requests'[f] = requests[f],
         running'[f] = running[f], reports'[f] = reports[f], agent'[f] = agent[f]
  PROVE  /\ \A q : Filed(f, q)' = Filed(f, q)
         /\ \A q : Taken(f, q)' <=> Taken(f, q)
         /\ \A q, x : Lies(f, q, x)' <=> Lies(f, q, x)
         /\ ReadyAt(f)' <=> ReadyAt(f)
         /\ Unexpired(f)' <=> Unexpired(f)
         /\ Measured(f)' <=> Measured(f)
         /\ PlacesKnown(f) => PlacesKnown(f)'
         /\ OneJob(f) => OneJob(f)'
<1>1. JobReports(f)' = JobReports(f) /\ Trusted(f)' = Trusted(f)
  BY DEF JobReports, Trusted
<1>2. \A q : Filed(f, q)' = Filed(f, q)
  BY DEF Filed
<1>3. (Measured(f)' <=> Measured(f)) /\ (Discarded(f)' <=> Discarded(f))
  BY <1>1 DEF Measured, Discarded
<1>4. \A q : Taken(f, q)' <=> Taken(f, q)
  BY <1>3 DEF Taken
<1>5. \A q, x : Lies(f, q, x)' <=> Lies(f, q, x)
  BY <1>1, <1>2 DEF Lies
<1>6. (ReadyAt(f)' <=> ReadyAt(f)) /\ (Unexpired(f)' <=> Unexpired(f))
  BY DEF ReadyAt, Unexpired
<1>7. PlacesKnown(f) => PlacesKnown(f)'
  BY <1>4, <1>5, <1>6 DEF PlacesKnown
<1>8. OneJob(f) => OneJob(f)'
  BY <1>1, <1>6 DEF OneJob, AtRest, Doing
<1>. QED
  BY <1>2, <1>3, <1>4, <1>5, <1>6, <1>7, <1>8

(* So is the invariant's part about it.                                    *)
LEMMA OtherEnd ==
  ASSUME NEW f \in D!Ends, memory'[f] = memory[f], requests'[f] = requests[f],
         running'[f] = running[f], reports'[f] = reports[f], agent'[f] = agent[f],
         flight'[f] = flight[f], emitted' = emitted, EndInv(f)
  PROVE  EndInv(f)'
<1>1. AbsorbedOnce(f)'
  BY SameEnd DEF EndInv, AbsorbedOnce
<1>. QED
  BY <1>1, SameEnd DEF EndInv

(* Told, if the agents have not changed what it is about.                  *)
LEMMA ToldStays ==
  ASSUME NEW f \in D!Ends, Told(f), mail'[f] = mail[f],
         agent'[f].peerReady => agent[f].peerReady, agent'[f].peerSource = agent[f].peerSource,
         agent'[f].peerBit = agent[f].peerBit,
         ReadyAt(D!Peer(f)) =>
           ReadyAt(D!Peer(f))' /\ agent'[D!Peer(f)].source = agent[D!Peer(f)].source,
         agent[D!Peer(f)].bit # D!NoBit => agent'[D!Peer(f)].bit = agent[D!Peer(f)].bit
  PROVE  Told(f)'
<1>. DEFINE g == D!Peer(f)
<1>1. MailSet(f) \subseteq MailSet(f)'
  <2>. SUFFICES ASSUME NEW m \in MailSet(f) PROVE m \in MailSet(f)'
    OBVIOUS
  <2>1. /\ m \in [type : {"ready"}, source : D!Positions] \cup [type : {"target_result"}, bit : 0..1]
        /\ m.type = "ready" => ReadyAt(D!Peer(f)) /\ m.source = agent[D!Peer(f)].source
        /\ m.type = "target_result" => m.bit = agent[D!Peer(f)].bit
    BY DEF MailSet
  <2>2. m.type = "target_result" => m.bit \in 0..1
    BY <2>1
  <2>3. m.type = "target_result" => agent[D!Peer(f)].bit # D!NoBit
    BY <2>1, <2>2 DEF D!NoBit
  <2>. QED
    BY <2>1, <2>3 DEF MailSet
<1>2. mail'[f] \in Seq(MailSet(f)')
  <2>1. mail[f] \in Seq(MailSet(f))
    BY DEF Told
  <2>. QED
    BY <1>1, <2>1
<1>3. agent'[f].peerReady => ReadyAt(D!Peer(f))' /\ agent'[f].peerSource = agent'[D!Peer(f)].source
  BY DEF Told
<1>4. agent'[f].peerBit \in {D!NoBit, agent'[D!Peer(f)].bit}
  BY DEF Told
<1>. QED
  BY <1>2, <1>3, <1>4 DEF Told, D!NoBit

(* A round begins with the invariant (Distillation, Init).                 *)
LEMMA RoundInit == D!Init => RoundInv
<1>. SUFFICES ASSUME D!Init PROVE RoundInv
  OBVIOUS
<1>. USE DEF D!Init, D!Agent, D!NoOperation, D!Nothing, D!NoBit
<1>1. RoundTypes
  <2>1. agent \in [D!Ends -> AgentSet]
    BY DEF AgentSet
  <2>2. memory \in [D!Ends -> [at : [D!Positions -> 0..2], busy : SUBSET D!Positions]]
    OBVIOUS
  <2>. QED
    BY <2>1, <2>2 DEF RoundTypes
<1>2. ASSUME NEW e \in D!Ends
      PROVE  /\ reports[e] = <<>> /\ agent[e] = D!Agent /\ requests[e] = <<>> /\ mail[e] = <<>>
             /\ running[e] = D!NoOperation /\ memory[e].busy = {} /\ flight[e] = {}
  OBVIOUS
<1>3. ASSUME NEW e \in D!Ends
      PROVE  /\ JobReports(e) = {} /\ Trusted(e) = {} /\ Unexpired(e) /\ ~ReadyAt(e)
             /\ \A q : Filed(e, q) = 0
  BY <1>2 DEF JobReports, Trusted, Unexpired, ReadyAt, Filed
<1>4. ASSUME NEW e \in D!Ends PROVE EndInv(e) /\ Told(e) /\ Gone(e)
  <2>1. AbsorbedOnce(e)
    BY <1>2, <1>3 DEF AbsorbedOnce
  <2>2. PlacesKnown(e)
    BY <1>2, <1>3 DEF PlacesKnown, Lies
  <2>3. OneJob(e)
    <3>1. D!ToSet(running[e].positions) = {}
      BY <1>2, SmallSequences
    <3>2. AtRest(e)
      BY <1>2, <1>3 DEF AtRest
    <3>. QED
      BY <1>2, <1>3, <3>1, <3>2 DEF OneJob
  <2>4. Told(e) /\ Gone(e)
    BY <1>2 DEF Told, Gone, Measured
  <2>. QED
    BY <2>1, <2>2, <2>3, <2>4 DEF EndInv
<1>5. Together
  <2>1. ~Present("alice")
    BY <1>2, <1>3 DEF Present, D!Ends
  <2>. QED
    BY <2>1 DEF Together, D!Ends
<1>. QED
  BY <1>1, <1>3, <1>4, <1>5 DEF RoundInv, EndInv

(* The source sends a pair: its two halves are in one state of their own.  *)
LEMMA EmitKeeps == ASSUME RoundInv, D!Emit PROVE RoundInv'
<1>. USE DEF D!Emit
<1>1. /\ emitted \in 0..1 /\ emitted' = emitted + 1
      /\ \A e \in D!Ends : flight'[e] = flight[e] \cup {emitted'} /\ flight[e] \subseteq 1..emitted
      /\ \A e \in D!Ends : EndInv(e) /\ Told(e) /\ Gone(e)
  BY DEF RoundInv, RoundTypes, EndInv
<1>2. RoundTypes'
  <2>1. emitted' \in 0..2 /\ 1..emitted \subseteq 1..emitted' /\ emitted' \in 1..emitted'
    BY <1>1
  <2>2. flight' \in [D!Ends -> SUBSET (1..emitted')]
    BY <1>1, <2>1
  <2>3. joint' \subseteq SUBSET (D!Ends \X (1..emitted'))
    <3>1. joint \subseteq SUBSET (D!Ends \X (1..emitted))
      BY DEF RoundInv, RoundTypes
    <3>2. {<<e, emitted'>> : e \in D!Ends} \in SUBSET (D!Ends \X (1..emitted'))
      BY <2>1
    <3>3. SUBSET (D!Ends \X (1..emitted)) \subseteq SUBSET (D!Ends \X (1..emitted'))
      BY <2>1
    <3>. QED
      BY <3>1, <3>2, <3>3
  <2>. QED
    BY <2>1, <2>2, <2>3 DEF RoundInv, RoundTypes
<1>3. ASSUME NEW e \in D!Ends PROVE EndInv(e)' /\ Told(e)' /\ (Unexpired(e)' <=> Unexpired(e))
  <2>1. AbsorbedOnce(e)'
    <3>1. 1..emitted \ flight[e] \subseteq 1..emitted' \ flight'[e]
      BY <1>1
    <3>. QED
      BY <1>1, <3>1, SameEnd DEF AbsorbedOnce, EndInv
  <2>2. Told(e)'
    BY <1>1, ToldStays, SameEnd DEF D!Peer, D!Ends
  <2>. QED
    BY <1>1, <2>1, <2>2, SameEnd DEF EndInv
<1>4. ASSUME NEW e \in D!Ends PROVE Gone(e)'
  <2>. SUFFICES ASSUME Measured(e), NEW state \in joint', <<e, 2>> \in state PROVE FALSE
    BY SameEnd DEF Gone
  <2>1. Filed(e, 2) # 0
    BY <1>1 DEF EndInv, OneJob, Measured, ReadyAt, Filed, D!Nothing, D!SourcePair
  <2>2. 2 \in 1..emitted
    BY <1>1, <2>1 DEF EndInv, AbsorbedOnce, D!Nothing
  <2>. QED
    BY <1>1, <2>2
<1>5. Together'
  <2>. SUFFICES ASSUME ~expired, \A e \in D!Ends : Present(e)' /\ agent[e].keep # "reject"
                PROVE  /\ \E state \in joint' : <<"alice", 1>> \in state
                       /\ \A state \in joint' : <<"alice", 1>> \in state <=> <<"bob", 1>> \in state
    BY DEF Together
  <2>. DEFINE new == {<<e, emitted'>> : e \in D!Ends}
  <2>0. joint' = joint \cup {new}
    OBVIOUS
  <2>1. CASE emitted = 0
    <3>1. \A state \in joint : <<"alice", 1>> \notin state /\ <<"bob", 1>> \notin state
      BY <2>1 DEF RoundInv, RoundTypes
    <3>2. <<"alice", 1>> \in new /\ <<"bob", 1>> \in new
      BY <2>1, <1>1 DEF D!Ends
    <3>. QED
      BY <3>1, <3>2, <2>0
  <2>2. CASE emitted = 1
    <3>1. \A e \in D!Ends : Present(e)
      BY <2>2, <1>1, SameEnd DEF Present
    <3>2. <<"alice", 1>> \notin new /\ <<"bob", 1>> \notin new
      BY <2>2, <1>1
    <3>. QED
      BY <3>1, <3>2, <2>0 DEF Together, RoundInv
  <2>. QED
    BY <1>1, <2>1, <2>2
<1>. QED
  BY <1>2, <1>3, <1>4, <1>5 DEF RoundInv, EndInv
(* What the operations on quantum states leave as it is.                   *)
LEMMA StatesKept ==
  ASSUME NEW halves, NEW J, J \in {D!Without(halves), D!Merged(halves)}
  PROVE  /\ joint \subseteq SUBSET (D!Ends \X (1..emitted)) => J \subseteq SUBSET (D!Ends \X (1..emitted))
         /\ \A h : (\A state \in joint : h \notin state) => \A state \in J : h \notin state
         /\ \A h : (\E state \in joint : h \in state) /\ (h \notin halves \/ J = D!Merged(halves))
                  => \E state \in J : h \in state
         /\ \A h, k : (\A state \in joint : h \in state <=> k \in state) /\ h \notin halves /\ k \notin halves
                        => \A state \in J : h \in state <=> k \in state
         /\ J = D!Without(halves) => \A h \in halves : \A state \in J : h \notin state
<1>1. CASE J = D!Merged(halves)
  <2>. DEFINE new == UNION {state \in joint : state \cap halves # {}}
  <2>1. \A state : state \in J <=> (state \in joint /\ state \cap halves = {}) \/ state = new
    BY <1>1 DEF D!Merged
  <2>2. \A h : h \in new <=> \E state \in joint : state \cap halves # {} /\ h \in state
    OBVIOUS
  <2>. HIDE DEF new
  <2>3. joint \subseteq SUBSET (D!Ends \X (1..emitted)) => new \subseteq D!Ends \X (1..emitted)
    BY <2>2
  <2>4. \A h : (\A state \in joint : h \notin state) => \A state \in J : h \notin state
    BY <2>1, <2>2
  <2>5. \A h : (\E state \in joint : h \in state) => \E state \in J : h \in state
    BY <2>1, <2>2
  <2>6. \A h, k : (\A state \in joint : h \in state <=> k \in state)
                        => \A state \in J : h \in state <=> k \in state
    BY <2>1, <2>2
  <2>7. J = D!Without(halves) => \A h \in halves : \A state \in J : h \notin state
    BY DEF D!Without
  <2>8. joint \subseteq SUBSET (D!Ends \X (1..emitted)) => J \subseteq SUBSET (D!Ends \X (1..emitted))
    BY <2>1, <2>3
  <2>. QED
    BY <2>4, <2>5, <2>6, <2>7, <2>8
<1>2. CASE J = D!Without(halves)
  <2>1. \A state \in J : \E old \in joint : state = old \ halves
    BY <1>2 DEF D!Without
  <2>2. \A old \in joint : \A h \in old : h \notin halves => old \ halves \in J
    BY <1>2 DEF D!Without
  <2>3. ASSUME joint \subseteq SUBSET (D!Ends \X (1..emitted))
        PROVE  J \subseteq SUBSET (D!Ends \X (1..emitted))
    <3>. SUFFICES ASSUME NEW state \in J PROVE state \subseteq D!Ends \X (1..emitted)
      OBVIOUS
    <3>1. PICK old \in joint : state = old \ halves
      BY <2>1
    <3>. QED
      BY <2>3, <3>1
  <2>4. \A h : (\A state \in joint : h \notin state) => \A state \in J : h \notin state
    BY <2>1
  <2>5. \A h : (\E state \in joint : h \in state) /\ h \notin halves => \E state \in J : h \in state
    <3>. SUFFICES ASSUME NEW h, h \notin halves, NEW old \in joint, h \in old
                  PROVE  \E state \in J : h \in state
      OBVIOUS
    <3>1. old \ halves \in J /\ h \in old \ halves
      BY <2>2
    <3>. QED
      BY <3>1
  <2>6. \A h, k : (\A state \in joint : h \in state <=> k \in state) /\ h \notin halves /\ k \notin halves
                        => \A state \in J : h \in state <=> k \in state
    BY <2>1
  <2>7. \A h \in halves : \A state \in J : h \notin state
    BY <2>1
  <2>8. CASE J = D!Merged(halves)
    BY <2>8, <1>1, <2>3, <2>4, <2>6, <2>7
  <2>. QED
    BY <2>3, <2>4, <2>5, <2>6, <2>7, <2>8
<1>. QED
  BY <1>1, <1>2

(* The halves of pair 1 stay in one state if an operation joins states, or *)
(* takes out other halves.                                                 *)
LEMMA PairKept ==
  ASSUME NEW halves,
         \/ joint' = D!Merged(halves)
         \/ joint' = D!Without(halves) /\ <<"alice", 1>> \notin halves /\ <<"bob", 1>> \notin halves,
         \E state \in joint : <<"alice", 1>> \in state,
         \A state \in joint : <<"alice", 1>> \in state <=> <<"bob", 1>> \in state
  PROVE  /\ \E state \in joint' : <<"alice", 1>> \in state
         /\ \A state \in joint' : <<"alice", 1>> \in state <=> <<"bob", 1>> \in state
<1>1. PICK st \in joint : <<"alice", 1>> \in st
  OBVIOUS
<1>2. CASE joint' = D!Without(halves) /\ <<"alice", 1>> \notin halves /\ <<"bob", 1>> \notin halves
  <2>1. ASSUME NEW state \in joint' PROVE <<"alice", 1>> \in state <=> <<"bob", 1>> \in state
    <3>1. PICK old \in joint : state = old \ halves
      BY <1>2 DEF D!Without
    <3>. QED
      BY <1>2, <3>1
  <2>2. st \ halves \in joint' /\ <<"alice", 1>> \in st \ halves
    BY <1>1, <1>2 DEF D!Without
  <2>. QED
    BY <2>1, <2>2
<1>3. CASE joint' = D!Merged(halves)
  <2>1. ASSUME NEW state \in joint' PROVE <<"alice", 1>> \in state <=> <<"bob", 1>> \in state
    <3>1. \/ state \in joint
          \/ \A h : h \in state <=> \E old \in joint : old \cap halves # {} /\ h \in old
      BY <1>3 DEF D!Merged
    <3>. QED
      BY <3>1
  <2>2. CASE st \cap halves = {}
    <3>1. st \in joint'
      BY <1>3, <2>2 DEF D!Merged
    <3>. QED
      BY <1>1, <2>1, <3>1
  <2>3. CASE st \cap halves # {}
    <3>. DEFINE new == UNION {state \in joint : state \cap halves # {}}
    <3>1. new \in joint' /\ <<"alice", 1>> \in new
      BY <1>1, <1>3, <2>3 DEF D!Merged
    <3>. QED
      BY <2>1, <3>1
  <2>. QED
    BY <2>2, <2>3
<1>. QED
  BY <1>2, <1>3

(* OneJob, if no report of a job has been added or read.                   *)
LEMMA OneJobStays ==
  ASSUME NEW e \in D!Ends, OneJob(e), memory'[e].busy = memory[e].busy, requests'[e] = requests[e],
         \A p \in memory[e].busy : memory[e].at[p] # D!Nothing => memory'[e].at[p] # D!Nothing,
         running'[e] = running[e], agent'[e] = agent[e], JobReports(e)' = JobReports(e),
         \A i \in JobReports(e) : reports'[e][i] = reports[e][i]
  PROVE  OneJob(e)' /\ (Measured(e)' <=> Measured(e)) /\ (Discarded(e)' <=> Discarded(e))
<1>1. ReadyAt(e)' <=> ReadyAt(e)
  BY DEF ReadyAt
<1>2. \A i : i \in JobReports(e) => i \in DOMAIN (reports'[e])
  BY DEF JobReports
<1>3. OneJob(e)'
  BY <1>1, <1>2 DEF OneJob, AtRest, Doing
<1>. QED
  BY <1>3 DEF Measured, Discarded

(* No job has taken a half at an end that has not filed both.              *)
LEMMA UnreadyUntaken ==
  ASSUME NEW e \in D!Ends, OneJob(e), NEW q \in 1..2, Filed(e, q) = D!Nothing
  PROVE  \A p \in 1..2 : ~Taken(e, p)
BY DEF OneJob, ReadyAt, Filed, Taken, Measured, Discarded, D!SourcePair

(* A channel loses a half.                                                 *)
LEMMA LoseKeeps == ASSUME NEW e \in D!Ends, RoundInv, D!Lose(e) PROVE RoundInv'
<1>1. PICK pair \in flight[e] : /\ flight' = [flight EXCEPT ![e] = @ \ {pair}]
                                /\ joint' = D!Without({<<e, pair>>})
  BY DEF D!Lose
<1>. USE DEF D!Lose
<1>0. /\ joint \subseteq SUBSET (D!Ends \X (1..emitted)) => joint' \subseteq SUBSET (D!Ends \X (1..emitted))
      /\ \A h : (\A state \in joint : h \notin state) => \A state \in joint' : h \notin state
      /\ \A h : (\E state \in joint : h \in state) /\ h # <<e, pair>> => \E state \in joint' : h \in state
      /\ \A h, k : (\A state \in joint : h \in state <=> k \in state) /\ h # <<e, pair>> /\ k # <<e, pair>>
                        => \A state \in joint' : h \in state <=> k \in state
  <2>. DEFINE halves == {<<e, pair>>}
  <2>1. \A h : h \in halves <=> h = <<e, pair>>
    OBVIOUS
  <2>2. joint' \in {D!Without(halves), D!Merged(halves)}
    BY <1>1
  <2>. HIDE DEF halves
  <2>3. /\ joint \subseteq SUBSET (D!Ends \X (1..emitted)) => joint' \subseteq SUBSET (D!Ends \X (1..emitted))
        /\ \A h : (\A state \in joint : h \notin state) => \A state \in joint' : h \notin state
    BY <2>2, StatesKept
  <2>4. \A h : (\E state \in joint : h \in state) /\ h \notin halves => \E state \in joint' : h \in state
    BY <2>2, StatesKept
  <2>5. \A h, k : (\A state \in joint : h \in state <=> k \in state) /\ h \notin halves /\ k \notin halves
                        => \A state \in joint' : h \in state <=> k \in state
    BY <2>2, StatesKept
  <2>. QED
    BY <2>1, <2>3, <2>4, <2>5
<1>2. RoundTypes'
  <2>1. flight' \in [D!Ends -> SUBSET (1..emitted)]
    BY <1>1 DEF RoundInv, RoundTypes
  <2>. QED
    BY <1>0, <2>1 DEF RoundInv, RoundTypes
<1>3. ASSUME NEW f \in D!Ends PROVE EndInv(f)' /\ Told(f)' /\ (Unexpired(f)' <=> Unexpired(f))
  <2>1. flight'[f] \subseteq flight[f]
    BY <1>1 DEF RoundInv, RoundTypes
  <2>2. AbsorbedOnce(f)'
    BY <2>1, SameEnd DEF AbsorbedOnce, RoundInv
  <2>3. Told(f)'
    BY ToldStays, SameEnd DEF RoundInv, D!Peer, D!Ends
  <2>. QED
    BY <2>2, <2>3, SameEnd DEF EndInv, RoundInv
<1>4. ASSUME NEW f \in D!Ends PROVE Gone(f)'
  BY <1>0, SameEnd DEF Gone, RoundInv
<1>5. Together'
  <2>. SUFFICES ASSUME ~expired, \A f \in D!Ends : Present(f)' /\ agent[f].keep # "reject"
                PROVE  /\ \E state \in joint' : <<"alice", 1>> \in state
                       /\ \A state \in joint' : <<"alice", 1>> \in state <=> <<"bob", 1>> \in state
    BY DEF Together
  <2>1. pair # 1
    <3>. SUFFICES ASSUME pair = 1 PROVE FALSE
      OBVIOUS
    <3>1. 1 \notin flight'[e]
      BY <1>1 DEF RoundInv, RoundTypes
    <3>2. Filed(e, 1) = 0 /\ \A i \in DOMAIN reports[e] :
                               ~(reports[e][i].kind = "absorb" /\ reports[e][i].pair = 1)
      BY <1>1 DEF RoundInv, AbsorbedOnce, D!Nothing
    <3>. QED
      BY <3>1, <3>2, SameEnd DEF Present, D!Nothing
  <2>2. \A f \in D!Ends : Present(f)
    <3>1. \A f \in D!Ends : flight'[f] \subseteq flight[f]
      BY <1>1 DEF RoundInv, RoundTypes
    <3>. QED
      BY <3>1, SameEnd DEF Present
  <2>3. <<"alice", 1>> # <<e, pair>> /\ <<"bob", 1>> # <<e, pair>>
    BY <2>1
  <2>4. /\ \E state \in joint : <<"alice", 1>> \in state
        /\ \A state \in joint : <<"alice", 1>> \in state <=> <<"bob", 1>> \in state
    BY <2>2 DEF Together, RoundInv
  <2>5. <<"alice", 1>> \notin {<<e, pair>>} /\ <<"bob", 1>> \notin {<<e, pair>>}
    BY <2>3
  <2>6. joint' = D!Without({<<e, pair>>})
    BY <1>1
  <2>. HIDE DEF D!Lose
  <2>. QED
    BY <2>4, <2>5, <2>6, PairKept
<1>. QED
  BY <1>2, <1>3, <1>4, <1>5 DEF RoundInv, EndInv

(* A memory absorbs a half at its first free position, and reports it.     *)
LEMMA AbsorbKeeps == ASSUME NEW e \in D!Ends, RoundInv, D!Absorb(e) PROVE RoundInv'
<1>. DEFINE R(p, pair) == [kind |-> "absorb", position |-> p, pair |-> pair]
<1>1. PICK pair \in flight[e], p \in D!Free(e) :
        /\ flight' = [flight EXCEPT ![e] = @ \ {pair}]
        /\ memory' = [memory EXCEPT ![e].at[p] = pair]
        /\ reports' = [reports EXCEPT ![e] = Append(@, R(p, pair))]
  BY DEF D!Absorb, D!Report
<1>. DEFINE n == Len(reports[e]) + 1
            r == R(p, pair)
<1>2. UNCHANGED <<emitted, delayed, expires, requests, running, mail, agent, joint, gone,
                  expired, halted>>
  BY DEF D!Absorb
<1>3. /\ RoundTypes /\ Together /\ pair \in 1..emitted /\ emitted \in 0..2
      /\ p \in D!Positions /\ memory[e].at[p] = 0
      /\ \A f \in D!Ends : EndInv(f) /\ Told(f) /\ Gone(f) /\ (expired \/ Unexpired(f))
  BY <1>1 DEF RoundInv, RoundTypes, EndInv, D!Free, D!Nothing
<1>4. r \in ReportSet /\ r.kind = "absorb" /\ r.pair = pair /\ r.position = p
  BY <1>3 DEF ReportSet
<1>5. /\ flight'[e] = flight[e] \ {pair} /\ memory'[e].busy = memory[e].busy
      /\ memory'[e].at = [memory[e].at EXCEPT ![p] = pair]
      /\ \A f \in D!Ends : f # e => flight'[f] = flight[f] /\ memory'[f] = memory[f]
      /\ flight' \in [D!Ends -> SUBSET (1..emitted)]
      /\ memory' \in [D!Ends -> [at : [D!Positions -> 0..2], busy : SUBSET D!Positions]]
  <2>1. /\ flight \in [D!Ends -> SUBSET (1..emitted)]
        /\ memory \in [D!Ends -> [at : [D!Positions -> 0..2], busy : SUBSET D!Positions]]
    BY <1>3 DEF RoundTypes
  <2>2. pair \in 0..2
    BY <1>3
  <2>3. /\ memory'[e].busy = memory[e].busy /\ memory'[e].at = [memory[e].at EXCEPT ![p] = pair]
        /\ \A f \in D!Ends : f # e => memory'[f] = memory[f]
    BY <1>1, <2>1
  <2>4. memory' \in [D!Ends -> [at : [D!Positions -> 0..2], busy : SUBSET D!Positions]]
    BY <1>1, <1>3, <2>1, <2>2
  <2>5. /\ flight'[e] = flight[e] \ {pair} /\ flight' \in [D!Ends -> SUBSET (1..emitted)]
        /\ \A f \in D!Ends : f # e => flight'[f] = flight[f]
    BY <1>1, <2>1
  <2>. QED
    BY <2>3, <2>4, <2>5
<1>. HIDE DEF R, r, n
<1>6. /\ reports'[e] \in Seq(ReportSet) /\ DOMAIN reports' = D!Ends
      /\ \A f \in D!Ends : f # e => reports'[f] = reports[f]
      /\ DOMAIN (reports'[e]) = DOMAIN (reports[e]) \cup {n} /\ n \notin DOMAIN (reports[e])
      /\ \A i \in DOMAIN (reports[e]) : reports'[e][i] = reports[e][i]
      /\ reports'[e][n] = r
      /\ Unexpired(e)' <=> Unexpired(e)
      /\ \A q, x : Lies(e, q, x)' => Lies(e, q, x) \/ (Unexpired(e) /\ pair = q /\ p = x)
  <2>1. reports' = [reports EXCEPT ![e] = Append(@, r)]
    BY <1>1 DEF r
  <2>. QED
    <3>1. agent'[e] = agent[e] /\ RoundTypes
      BY <1>2, <1>3
    <3>2. /\ reports'[e] \in Seq(ReportSet) /\ DOMAIN reports' = D!Ends
          /\ \A f \in D!Ends : f # e => reports'[f] = reports[f]
          /\ DOMAIN (reports'[e]) = DOMAIN (reports[e]) \cup {n} /\ n \notin DOMAIN (reports[e])
          /\ \A i \in DOMAIN (reports[e]) : reports'[e][i] = reports[e][i]
          /\ reports'[e][n] = r
          /\ Unexpired(e)' <=> Unexpired(e) /\ r.kind # "expire"
      BY <1>4, <2>1, <3>1, AddedReport DEF n
    <3>3. \A q, x : Lies(e, q, x)' =>
            Lies(e, q, x) \/ (Unexpired(e) /\ r.kind = "absorb" /\ r.pair = q /\ r.position = x)
      BY <1>4, <2>1, <3>1, AddedReport
    <3>. QED
      BY <3>2, <3>3, <1>4
<1>7. RoundTypes'
  BY <1>2, <1>3, <1>5, <1>6 DEF RoundTypes
<1>8. /\ Filed(e, pair) = 0
      /\ \A i \in DOMAIN reports[e] : ~(reports[e][i].kind = "absorb" /\ reports[e][i].pair = pair)
      /\ \A x : ~Lies(e, pair, x)
      /\ \A q : Filed(e, q)' = Filed(e, q)
  <2>1. /\ Filed(e, pair) = 0
        /\ \A i \in DOMAIN reports[e] : ~(reports[e][i].kind = "absorb" /\ reports[e][i].pair = pair)
    BY <1>1, <1>3 DEF EndInv, AbsorbedOnce, D!Nothing
  <2>. QED
    BY <2>1, <1>2 DEF Lies, Trusted, Filed, D!Nothing
<1>9. AbsorbedOnce(e)'
  <2>1. ASSUME NEW i \in DOMAIN reports'[e], reports'[e][i].kind = "absorb"
        PROVE  /\ reports'[e][i].pair \in 1..emitted \ flight'[e] /\ Filed(e, reports'[e][i].pair) = 0
               /\ \A j \in DOMAIN reports'[e] :
                    reports'[e][j].kind = "absorb" /\ reports'[e][j].pair = reports'[e][i].pair => i = j
    <3>1. CASE i = n
      BY <3>1, <1>3, <1>4, <1>5, <1>6, <1>8
    <3>2. CASE i \in DOMAIN reports[e]
      <4>1. /\ reports[e][i].pair \in 1..emitted \ flight[e] /\ Filed(e, reports[e][i].pair) = 0
            /\ \A j \in DOMAIN reports[e] :
                 reports[e][j].kind = "absorb" /\ reports[e][j].pair = reports[e][i].pair => i = j
        BY <2>1, <3>2, <1>3, <1>6 DEF EndInv, AbsorbedOnce, D!Nothing
      <4>2. reports'[e][i] = reports[e][i] /\ reports[e][i].pair # pair
        BY <3>2, <2>1, <1>6, <1>8
      <4>3. \A j \in DOMAIN reports'[e] : reports'[e][j].pair = reports[e][i].pair => j \in DOMAIN reports[e]
        BY <4>2, <1>6, <1>4
      <4>. QED
        BY <4>1, <4>2, <4>3, <1>5, <1>6
    <3>. QED
      BY <3>1, <3>2, <1>6
  <2>2. \A q \in 1..2 : Filed(e, q)' # 0 => q \in 1..emitted \ flight'[e]
    BY <1>3, <1>5, <1>8 DEF EndInv, AbsorbedOnce, D!Nothing
  <2>. QED
    BY <1>2, <1>8, <2>1, <2>2 DEF AbsorbedOnce, D!Nothing
<1>10. JobReports(e)' = JobReports(e)
  BY <1>4, <1>6 DEF JobReports
<1>11. OneJob(e)' /\ (Measured(e)' <=> Measured(e)) /\ (Discarded(e)' <=> Discarded(e))
  <2>1. \A x \in memory[e].busy : memory[e].at[x] # D!Nothing => memory'[e].at[x] # D!Nothing
    BY <1>3, <1>5 DEF RoundTypes, D!Nothing
  <2>. QED
    BY <2>1, <1>2, <1>3, <1>5, <1>6, <1>10, OneJobStays DEF EndInv, JobReports
<1>12. \A q \in 1..2 : ~Taken(e, q) /\ ~Taken(e, q)'
  BY <1>3, <1>8, <1>11, UnreadyUntaken DEF EndInv, Taken, D!Nothing
<1>13. PlacesKnown(e)'
  <2>1. ASSUME NEW q \in 1..2, NEW x \in D!Positions, Unexpired(e), Lies(e, q, x)
        PROVE  memory[e].at[x] = q /\ x # p
    BY <2>1, <1>3, <1>12 DEF EndInv, PlacesKnown, D!Nothing
  <2>2. ASSUME NEW q \in 1..2, NEW x \in D!Positions, Unexpired(e), Lies(e, q, x)'
        PROVE  memory'[e].at[x] = q /\ (q = pair => x = p) /\ (q # pair => x # p)
    <3>1. memory[e].at \in [D!Positions -> 0..2]
      BY <1>3 DEF RoundTypes
    <3>2. CASE Lies(e, q, x)
      <4>1. q # pair /\ memory[e].at[x] = q /\ x # p
        BY <3>2, <2>1, <2>2, <1>8
      <4>. QED
        BY <4>1, <3>1, <1>5
    <3>3. CASE pair = q /\ p = x
      BY <3>3, <3>1, <1>3, <1>5
    <3>. QED
      BY <2>2, <3>2, <3>3, <1>6
  <2>3. ASSUME NEW x \in D!Positions, NEW y \in D!Positions, Lies(e, 1, x)', Lies(e, 2, y)'
        PROVE  Unexpired(e)
    <3>1. pair \in {1, 2}
      BY <1>3
    <3>. QED
      BY <2>3, <3>1, <1>6, <1>8
  <2>4. \A x, y \in D!Positions : Lies(e, 1, x)' /\ Lies(e, 2, y)' =>
          x # y /\ memory'[e].at[x] \in {0, 1} /\ memory'[e].at[y] \in {0, 2}
    <3>. SUFFICES ASSUME NEW x \in D!Positions, NEW y \in D!Positions, Lies(e, 1, x)', Lies(e, 2, y)'
                  PROVE  x # y /\ memory'[e].at[x] \in {0, 1} /\ memory'[e].at[y] \in {0, 2}
      OBVIOUS
    <3>1. memory'[e].at[x] = 1 /\ memory'[e].at[y] = 2
      BY <2>2, <2>3
    <3>. QED
      BY <3>1
  <2>. QED
    BY <2>2, <2>4, <1>6, <1>12 DEF PlacesKnown
<1>14. ASSUME NEW f \in D!Ends PROVE EndInv(f)' /\ Gone(f)' /\ (Unexpired(f)' <=> Unexpired(f)) /\ Told(f)'
  <2>1. Told(f)'
    BY <1>2, <1>3, ToldStays DEF ReadyAt, D!Peer, D!Ends
  <2>2. CASE f = e
    BY <2>2, <2>1, <1>2, <1>3, <1>6, <1>9, <1>11, <1>13 DEF EndInv, Gone
  <2>3. CASE f # e
    BY <2>3, <2>1, <1>2, <1>3, <1>5, <1>6, OtherEnd, SameEnd DEF Gone
  <2>. QED
    BY <2>2, <2>3
<1>15. Together'
  <2>1. ASSUME NEW f \in D!Ends, Present(f)' PROVE Present(f)
    <3>1. CASE f = e
      <4>1. CASE pair = 1
        BY <4>1, <3>1, <1>1 DEF Present
      <4>2. CASE pair # 1
        BY <4>2, <3>1, <2>1, <1>4, <1>5, <1>6, <1>8 DEF Present
      <4>. QED
        BY <4>1, <4>2
    <3>2. CASE f # e
      BY <3>2, <2>1, <1>2, <1>5, <1>6 DEF Present, Filed
    <3>. QED
      BY <3>1, <3>2
  <2>. QED
    BY <2>1, <1>2, <1>3 DEF Together
<1>. QED
  BY <1>2, <1>3, <1>7, <1>14, <1>15 DEF RoundInv, EndInv

(* A stored half expires, and the expiry is reported.                      *)
LEMMA ExpireKeeps == ASSUME NEW e \in D!Ends, RoundInv, D!Expire(e) PROVE RoundInv'
<1>1. PICK p \in D!Occupied(e) :
        /\ memory' = [memory EXCEPT ![e].at[p] = D!Nothing]
        /\ joint' = D!Without({D!Half(e, p)})
        /\ reports' = [reports EXCEPT ![e] = Append(@, [kind |-> "expire", position |-> p])]
  BY DEF D!Expire, D!Report
<1>. DEFINE n == Len(reports[e]) + 1
            r == [kind |-> "expire", position |-> p]
<1>2. expired' /\ UNCHANGED <<emitted, flight, delayed, expires, requests, running, mail, agent, gone, halted>>
  BY DEF D!Expire
<1>3. /\ RoundTypes /\ p \in D!Positions \ memory[e].busy
      /\ \A f \in D!Ends : EndInv(f) /\ Told(f) /\ Gone(f)
  BY <1>1 DEF RoundInv, EndInv, D!Occupied
<1>4. r \in ReportSet /\ r.kind = "expire"
  BY <1>3 DEF ReportSet
<1>5. /\ memory'[e].busy = memory[e].busy
      /\ memory'[e].at = [memory[e].at EXCEPT ![p] = 0]
      /\ \A f \in D!Ends : f # e => memory'[f] = memory[f]
      /\ memory' \in [D!Ends -> [at : [D!Positions -> 0..2], busy : SUBSET D!Positions]]
  <2>1. memory \in [D!Ends -> [at : [D!Positions -> 0..2], busy : SUBSET D!Positions]]
    BY <1>3 DEF RoundTypes
  <2>. QED
    BY <1>1, <1>3, <2>1 DEF D!Nothing
<1>. HIDE DEF r, n
<1>6. /\ reports'[e] \in Seq(ReportSet) /\ DOMAIN reports' = D!Ends
      /\ \A f \in D!Ends : f # e => reports'[f] = reports[f]
      /\ DOMAIN (reports'[e]) = DOMAIN (reports[e]) \cup {n} /\ n \notin DOMAIN (reports[e])
      /\ \A i \in DOMAIN (reports[e]) : reports'[e][i] = reports[e][i]
      /\ reports'[e][n] = r
      /\ ~Unexpired(e)'
      /\ \A q, x : Lies(e, q, x)' => Lies(e, q, x)
  <2>1. reports' = [reports EXCEPT ![e] = Append(@, r)] /\ agent'[e] = agent[e]
    BY <1>1, <1>2 DEF r
  <2>2. /\ reports'[e] \in Seq(ReportSet) /\ DOMAIN reports' = D!Ends
        /\ \A f \in D!Ends : f # e => reports'[f] = reports[f]
        /\ DOMAIN (reports'[e]) = DOMAIN (reports[e]) \cup {n} /\ n \notin DOMAIN (reports[e])
        /\ \A i \in DOMAIN (reports[e]) : reports'[e][i] = reports[e][i]
        /\ reports'[e][n] = r
        /\ Unexpired(e)' <=> Unexpired(e) /\ r.kind # "expire"
    BY <1>3, <1>4, <2>1, AddedReport DEF n
  <2>3. \A q, x : Lies(e, q, x)' => Lies(e, q, x)
    BY <1>3, <1>4, <2>1, AddedReport
  <2>. QED
    BY <2>2, <2>3, <1>4
<1>7. RoundTypes'
  <2>1. joint' \subseteq SUBSET (D!Ends \X (1..emitted))
    BY <1>1, <1>3, StatesKept DEF RoundTypes
  <2>. QED
    BY <1>2, <1>3, <1>5, <1>6, <2>1 DEF RoundTypes
<1>8. \A q : Filed(e, q)' = Filed(e, q)
  BY <1>2 DEF Filed
<1>9. AbsorbedOnce(e)'
  <2>1. \A i \in DOMAIN reports'[e] : reports'[e][i].kind = "absorb" =>
          i \in DOMAIN reports[e] /\ reports'[e][i] = reports[e][i]
    BY <1>4, <1>6
  <2>2. AbsorbedOnce(e)
    BY <1>3 DEF EndInv
  <2>. QED
    BY <1>2, <1>8, <2>1, <2>2 DEF AbsorbedOnce
<1>10. JobReports(e)' = JobReports(e)
  BY <1>4, <1>6 DEF JobReports
<1>11. OneJob(e)' /\ (Measured(e)' <=> Measured(e))
  <2>1. \A x \in memory[e].busy : memory[e].at[x] # D!Nothing => memory'[e].at[x] # D!Nothing
    BY <1>3, <1>5 DEF RoundTypes, D!Nothing
  <2>. QED
    BY <2>1, <1>2, <1>3, <1>5, <1>6, <1>10, OneJobStays DEF EndInv, JobReports
<1>12. PlacesKnown(e)'
  <2>1. \A x \in D!Positions : memory'[e].at[x] \in {memory[e].at[x], 0}
    BY <1>3, <1>5 DEF RoundTypes
  <2>2. \A x, y \in D!Positions : Lies(e, 1, x) /\ Lies(e, 2, y) =>
          x # y /\ memory[e].at[x] \in {0, 1} /\ memory[e].at[y] \in {0, 2}
    BY <1>3 DEF EndInv, PlacesKnown
  <2>3. \A x, y \in D!Positions : Lies(e, 1, x)' /\ Lies(e, 2, y)' =>
          x # y /\ memory'[e].at[x] \in {0, 1} /\ memory'[e].at[y] \in {0, 2}
    BY <1>6, <2>1, <2>2
  <2>. QED
    BY <2>3, <1>6 DEF PlacesKnown
<1>13. ASSUME NEW f \in D!Ends PROVE Gone(f)'
  <2>1. Measured(f)' <=> Measured(f)
    BY <1>2, <1>5, <1>6, <1>11, SameEnd
  <2>2. \A h : (\A state \in joint : h \notin state) => \A state \in joint' : h \notin state
    BY <1>1, StatesKept
  <2>. QED
    BY <1>3, <2>1, <2>2 DEF Gone
<1>14. ASSUME NEW f \in D!Ends PROVE EndInv(f)' /\ Told(f)'
  <2>1. Told(f)'
    BY <1>2, <1>3, ToldStays DEF ReadyAt, D!Peer, D!Ends
  <2>2. CASE f = e
    BY <2>2, <2>1, <1>9, <1>11, <1>12 DEF EndInv
  <2>3. CASE f # e
    BY <2>3, <2>1, <1>2, <1>3, <1>5, <1>6, OtherEnd
  <2>. QED
    BY <2>2, <2>3
<1>. QED
  BY <1>2, <1>7, <1>13, <1>14 DEF RoundInv, EndInv, Together

(* The job that an end does, if it does one.                               *)
Current(e, job) ==
  LET a == agent[e] IN
  /\ ReadyAt(e) /\ a.cnotRequested /\ (a.keep = "reject" <=> job.op = "discard")
  /\ \/ job = Job("apply", <<a.source, a.target>>) /\ ~a.measureRequested /\ a.bit = D!NoBit
     \/ job = Job("measure", <<a.target>>) /\ a.measureRequested /\ a.bit = D!NoBit
     \/ job = Job("discard", <<a.source>>) /\ a.measureRequested /\ a.bit # D!NoBit

(* The job that is asked for or in progress is the one the agent's state   *)
(* calls for, and the only one.                                            *)
LEMMA CurrentJob ==
  ASSUME NEW e \in D!Ends, OneJob(e), RoundTypes
  PROVE  /\ requests[e] # <<>> =>
              /\ requests[e] = <<Head(requests[e])>> /\ Current(e, Head(requests[e]))
              /\ running[e] = D!NoOperation /\ JobReports(e) = {} /\ memory[e].busy = {}
         /\ running[e] # D!NoOperation =>
              /\ requests[e] = <<>> /\ JobReports(e) = {} /\ Current(e, running[e])
              /\ running[e].op # "discard" /\ memory[e].busy = D!ToSet(running[e].positions)
<1>. DEFINE a == agent[e]
<1>1. /\ a.keep # "open" => a.bit # D!NoBit
      /\ a.bit # D!NoBit => a.measureRequested
      /\ a.measureRequested => a.cnotRequested
      /\ a.cnotRequested => ReadyAt(e)
      /\ a \in AgentSet
  BY DEF OneJob, RoundTypes
<1>2. \/ AtRest(e)
      \/ Doing(e, "apply", <<a.source, a.target>>) /\ a.cnotRequested /\ ~a.measureRequested
      \/ Doing(e, "measure", <<a.target>>) /\ a.measureRequested /\ a.bit = D!NoBit
      \/ Doing(e, "discard", <<a.source>>) /\ a.keep = "reject"
  BY <1>1 DEF OneJob, AgentSet
<1>3. ASSUME requests[e] # <<>>
      PROVE  /\ requests[e] = <<Head(requests[e])>> /\ Current(e, Head(requests[e]))
             /\ running[e] = D!NoOperation /\ JobReports(e) = {} /\ memory[e].busy = {}
  <2>1. \/ requests[e] = <<Job("apply", <<a.source, a.target>>)>> /\ a.cnotRequested /\ ~a.measureRequested
        \/ requests[e] = <<Job("measure", <<a.target>>)>> /\ a.measureRequested /\ a.bit = D!NoBit
        \/ requests[e] = <<Job("discard", <<a.source>>)>> /\ a.keep = "reject"
    BY <1>2, <1>3 DEF Doing, AtRest
  <2>2. running[e] = D!NoOperation /\ JobReports(e) = {}
    BY <1>2, <1>3 DEF Doing, AtRest
  <2>3. memory[e].busy = {}
    BY <2>2, SmallSequences DEF OneJob, D!NoOperation
  <2>. QED
    BY <1>1, <2>1, <2>2, <2>3 DEF Current, Job
<1>4. ASSUME running[e] # D!NoOperation
      PROVE  /\ requests[e] = <<>> /\ JobReports(e) = {} /\ Current(e, running[e])
             /\ running[e].op # "discard" /\ memory[e].busy = D!ToSet(running[e].positions)
  <2>1. \/ running[e] = Job("apply", <<a.source, a.target>>) /\ a.cnotRequested /\ ~a.measureRequested
        \/ running[e] = Job("measure", <<a.target>>) /\ a.measureRequested /\ a.bit = D!NoBit
    BY <1>2, <1>4 DEF Doing, AtRest
  <2>2. requests[e] = <<>> /\ JobReports(e) = {}
    BY <1>2, <1>4 DEF Doing, AtRest
  <2>3. memory[e].busy = D!ToSet(running[e].positions)
    BY DEF OneJob
  <2>. QED
    BY <1>1, <2>1, <2>2, <2>3 DEF Current, Job
<1>. QED
  BY <1>3, <1>4

(* Where the halves of an end that has both are.                           *)
LEMMA BothStored ==
  ASSUME NEW e \in D!Ends, RoundTypes, EndInv(e), ReadyAt(e)
  PROVE  LET s == agent[e].source
             t == agent[e].target
         IN  /\ s \in D!Positions /\ t \in D!Positions /\ s # t
             /\ memory[e].at[s] \in {0, 1} /\ memory[e].at[t] \in {0, 2}
             /\ Unexpired(e) => /\ memory[e].at[s] = IF Discarded(e) THEN 0 ELSE 1
                                /\ memory[e].at[t] = IF Measured(e) THEN 0 ELSE 2
             /\ emitted = 2 /\ flight[e] = {}
<1>. DEFINE s == agent[e].source
            t == agent[e].target
<1>1. s \in D!Positions /\ t \in D!Positions /\ s # 0 /\ t # 0 /\ Filed(e, 1) = s /\ Filed(e, 2) = t
  BY DEF RoundTypes, AgentSet, ReadyAt, D!Positions, D!Nothing, Filed, D!SourcePair
<1>2. Lies(e, 1, s) /\ Lies(e, 2, t)
  BY <1>1 DEF Lies, D!Nothing
<1>3. 1 \in 1..emitted \ flight[e] /\ 2 \in 1..emitted \ flight[e]
  BY <1>1 DEF EndInv, AbsorbedOnce, D!Nothing
<1>4. emitted = 2 /\ flight[e] = {}
  BY <1>3 DEF RoundTypes
<1>5. s # t /\ memory[e].at[s] \in {0, 1} /\ memory[e].at[t] \in {0, 2}
  BY <1>1, <1>2 DEF EndInv, PlacesKnown
<1>6. Unexpired(e) => /\ memory[e].at[s] = IF Discarded(e) THEN 0 ELSE 1
                      /\ memory[e].at[t] = IF Measured(e) THEN 0 ELSE 2
  BY <1>1, <1>2 DEF EndInv, PlacesKnown, Taken, D!SourcePair, D!Nothing
<1>. QED
  BY <1>1, <1>4, <1>5, <1>6

(* A job takes effect, at once or when its delay is over (Perform).        *)
LEMMA PerformKeeps ==
  ASSUME NEW e \in D!Ends, NEW job, RoundInv, D!Perform(e, job), Current(e, job), JobReports(e) = {},
         memory[e].busy \subseteq D!ToSet(job.positions),
         \A p \in D!ToSet(job.positions) : memory[e].at[p] # D!Nothing,
         requests'[e] = <<>>, running'[e] = D!NoOperation,
         \A f \in D!Ends : f # e => requests'[f] = requests[f] /\ running'[f] = running[f],
         DOMAIN requests' = D!Ends, DOMAIN running' = D!Ends,
         UNCHANGED <<emitted, flight, delayed, expires, mail, agent, gone, expired>>
  PROVE  RoundInv'
<1>. DEFINE a == agent[e]
            at == memory[e].at
            removed == IF job.op = "apply" THEN {} ELSE D!ToSet(job.positions)
            halves == {D!Half(e, p) : p \in D!ToSet(job.positions)}
            R(bit) == [kind |-> job.op, bit |-> bit]
            n == Len(reports[e]) + 1
<1>1. /\ joint' = IF job.op = "apply" THEN D!Merged(halves) ELSE D!Without(halves)
      /\ memory' = [memory EXCEPT ![e] = [at |-> [p \in D!Positions |-> IF p \in removed THEN 0 ELSE at[p]],
                                          busy |-> memory[e].busy \ D!ToSet(job.positions)]]
      /\ \E bit \in IF job.op = "measure" THEN 0..1 ELSE {2} :
           reports' = [reports EXCEPT ![e] = Append(@, R(bit))]
  <2>1. joint' = IF job.op = "apply" THEN D!Merged(halves) ELSE D!Without(halves)
    BY DEF D!Perform
  <2>2. memory' = [memory EXCEPT ![e] = [at |-> [p \in D!Positions |-> IF p \in removed THEN 0 ELSE at[p]],
                                         busy |-> memory[e].busy \ D!ToSet(job.positions)]]
    BY DEF D!Perform, D!Nothing
  <2>3. \E bit \in IF job.op = "measure" THEN 0..1 ELSE {2} :
           reports' = [reports EXCEPT ![e] = Append(@, R(bit))]
    BY DEF D!Perform, D!Report, D!NoBit
  <2>. QED
    BY <2>1, <2>2, <2>3
<1>3. /\ RoundTypes /\ Together
      /\ \A f \in D!Ends : EndInv(f) /\ Told(f) /\ Gone(f) /\ (expired \/ Unexpired(f))
  BY DEF RoundInv, EndInv
<1>4. /\ job.op \in {"apply", "measure", "discard"} /\ ReadyAt(e) /\ a.cnotRequested
      /\ a.keep = "reject" <=> job.op = "discard"
      /\ job.op = "apply" => /\ ~a.measureRequested /\ a.bit = D!NoBit
                             /\ D!ToSet(job.positions) = {a.source, a.target}
      /\ job.op = "measure" => a.measureRequested /\ a.bit = D!NoBit /\ D!ToSet(job.positions) = {a.target}
      /\ job.op = "discard" => a.measureRequested /\ a.bit # D!NoBit /\ D!ToSet(job.positions) = {a.source}
  BY SmallSequences DEF Current, Job
<1>5. PICK r \in ReportSet : /\ reports' = [reports EXCEPT ![e] = Append(@, r)] /\ r.kind = job.op
                             /\ job.op = "measure" => r.bit # D!NoBit
  <2>1. PICK bit \in IF job.op = "measure" THEN 0..1 ELSE {2} :
          reports' = [reports EXCEPT ![e] = Append(@, R(bit))]
    BY <1>1
  <2>2. R(bit) \in ReportSet /\ R(bit).kind = job.op /\ (job.op = "measure" => R(bit).bit # D!NoBit)
    BY <2>1, <1>4 DEF ReportSet, D!NoBit
  <2>. QED
    BY <2>1, <2>2
<1>. HIDE DEF R, n
<1>6. /\ reports'[e] \in Seq(ReportSet) /\ DOMAIN reports' = D!Ends
      /\ \A f \in D!Ends : f # e => reports'[f] = reports[f]
      /\ DOMAIN (reports'[e]) = DOMAIN (reports[e]) \cup {n} /\ n \notin DOMAIN (reports[e])
      /\ \A i \in DOMAIN (reports[e]) : reports'[e][i] = reports[e][i]
      /\ reports'[e][n] = r
      /\ Unexpired(e)' <=> Unexpired(e)
      /\ \A q, x : Lies(e, q, x)' => Lies(e, q, x)
  <2>1. /\ RoundTypes /\ r \in ReportSet /\ r.kind # "absorb" /\ r.kind # "expire"
        /\ reports' = [reports EXCEPT ![e] = Append(@, r)] /\ agent'[e] = agent[e]
    BY <1>3, <1>4, <1>5
  <2>2. /\ reports'[e] \in Seq(ReportSet) /\ DOMAIN reports' = D!Ends
        /\ \A f \in D!Ends : f # e => reports'[f] = reports[f]
    BY <2>1, AddedReport
  <2>3. /\ DOMAIN (reports'[e]) = DOMAIN (reports[e]) \cup {n} /\ n \notin DOMAIN (reports[e])
        /\ \A i \in DOMAIN (reports[e]) : reports'[e][i] = reports[e][i]
        /\ reports'[e][n] = r
    BY <2>1, AddedReport DEF n
  <2>4. Unexpired(e)' <=> Unexpired(e)
    BY <2>1, AddedReport
  <2>5. \A q, x : Lies(e, q, x)' => Lies(e, q, x)
    BY <2>1, AddedReport
  <2>. QED
    BY <2>2, <2>3, <2>4, <2>5
<1>7. /\ memory'[e].busy = {} /\ \A p \in D!Positions : memory'[e].at[p] = IF p \in removed THEN 0 ELSE at[p]
      /\ \A f \in D!Ends : f # e => memory'[f] = memory[f]
      /\ memory' \in [D!Ends -> [at : [D!Positions -> 0..2], busy : SUBSET D!Positions]]
  <2>1. memory \in [D!Ends -> [at : [D!Positions -> 0..2], busy : SUBSET D!Positions]]
    BY <1>3 DEF RoundTypes
  <2>2. [p \in D!Positions |-> IF p \in removed THEN 0 ELSE at[p]] \in [D!Positions -> 0..2]
    BY <2>1
  <2>3. memory[e].busy \ D!ToSet(job.positions) = {}
    OBVIOUS
  <2>. HIDE DEF removed, at
  <2>. QED
    BY <1>1, <2>1, <2>2, <2>3
<1>8. /\ a.source \in D!Positions /\ a.target \in D!Positions /\ a.source # a.target
      /\ at[a.source] \in {0, 1} /\ at[a.target] \in {0, 2}
      /\ Unexpired(e) => /\ at[a.source] = IF Discarded(e) THEN 0 ELSE 1
                         /\ at[a.target] = IF Measured(e) THEN 0 ELSE 2
  BY <1>3, <1>4, BothStored
<1>9. /\ job.op = "measure" => halves = {<<e, 2>>}
      /\ job.op = "discard" => halves = {<<e, 1>>}
  BY <1>4, <1>8 DEF D!Half, D!Nothing
<1>10. /\ joint' \subseteq SUBSET (D!Ends \X (1..emitted))
       /\ \A h : (\A state \in joint : h \notin state) => \A state \in joint' : h \notin state
       /\ job.op = "measure" => \A state \in joint' : <<e, 2>> \notin state
  <2>. HIDE DEF halves
  <2>1. joint' \in {D!Without(halves), D!Merged(halves)} /\ (job.op = "measure" => joint' = D!Without(halves))
    BY <1>1
  <2>2. joint \subseteq SUBSET (D!Ends \X (1..emitted))
    BY <1>3 DEF RoundTypes
  <2>3. /\ joint' \subseteq SUBSET (D!Ends \X (1..emitted))
        /\ \A h : (\A state \in joint : h \notin state) => \A state \in joint' : h \notin state
    BY <2>1, <2>2, StatesKept
  <2>4. joint' = D!Without(halves) => \A h \in halves : \A state \in joint' : h \notin state
    BY <2>1, StatesKept
  <2>. QED
    BY <2>1, <2>3, <2>4, <1>9
<1>11. RoundTypes'
  BY <1>3, <1>6, <1>7, <1>10 DEF RoundTypes
<1>12. \A q : Filed(e, q)' = Filed(e, q)
  BY DEF Filed
<1>13. AbsorbedOnce(e)'
  <2>1. \A i \in DOMAIN reports'[e] : reports'[e][i].kind = "absorb" =>
          i \in DOMAIN reports[e] /\ reports'[e][i] = reports[e][i]
    BY <1>4, <1>5, <1>6
  <2>2. AbsorbedOnce(e)
    BY <1>3 DEF EndInv
  <2>. QED
    BY <1>12, <2>1, <2>2 DEF AbsorbedOnce
<1>14. JobReports(e)' = {n}
  <2>1. \A i \in DOMAIN reports[e] : reports[e][i].kind \in {"absorb", "expire"}
    BY DEF JobReports
  <2>. QED
    BY <2>1, <1>4, <1>5, <1>6 DEF JobReports
<1>15. /\ Measured(e)' <=> a.measureRequested
       /\ Discarded(e)' <=> job.op = "discard"
  BY <1>4, <1>14 DEF Measured, Discarded
<1>16. OneJob(e)'
  <2>1. Doing(e, job.op, job.positions)'
    <3>1. \E i \in DOMAIN reports'[e] : JobReports(e)' = {i} /\ reports'[e][i].kind = job.op
                                       /\ (job.op = "measure" => reports'[e][i].bit # D!NoBit)
      BY <1>5, <1>6, <1>14
    <3>. QED
      BY <3>1 DEF Doing
  <2>2. \/ job = Job("apply", <<a.source, a.target>>)
        \/ job = Job("measure", <<a.target>>)
        \/ job = Job("discard", <<a.source>>)
    BY DEF Current
  <2>3. /\ job.op = "apply" => Doing(e, "apply", <<a.source, a.target>>)'
        /\ job.op = "measure" => Doing(e, "measure", <<a.target>>)'
        /\ job.op = "discard" => Doing(e, "discard", <<a.source>>)'
    BY <2>1, <2>2 DEF Job, Doing
  <2>4. D!ToSet(running'[e].positions) = {}
    BY SmallSequences DEF D!NoOperation
  <2>5. OneJob(e) /\ (ReadyAt(e)' <=> ReadyAt(e))
    BY <1>3 DEF EndInv, ReadyAt
  <2>. QED
    BY <1>4, <1>7, <2>3, <2>4, <2>5 DEF OneJob
<1>17. PlacesKnown(e)'
  <2>1. \A x \in D!Positions : memory'[e].at[x] \in {at[x], 0}
    BY <1>7
  <2>2. \A x, y \in D!Positions : Lies(e, 1, x) /\ Lies(e, 2, y) =>
          x # y /\ at[x] \in {0, 1} /\ at[y] \in {0, 2}
    BY <1>3 DEF EndInv, PlacesKnown
  <2>3. \A x, y \in D!Positions : Lies(e, 1, x)' /\ Lies(e, 2, y)' =>
          x # y /\ memory'[e].at[x] \in {0, 1} /\ memory'[e].at[y] \in {0, 2}
    BY <1>6, <2>1, <2>2
  <2>4. ASSUME Unexpired(e), NEW q \in 1..2, NEW x \in D!Positions, Lies(e, q, x)'
        PROVE  memory'[e].at[x] = IF Taken(e, q)' THEN D!Nothing ELSE q
    <3>1. Filed(e, 1) = a.source /\ Filed(e, 2) = a.target /\ a.source # 0 /\ a.target # 0
      BY <1>8 DEF Filed, D!SourcePair, D!Positions
    <3>2. x = Filed(e, q)
      <4>1. Lies(e, q, x)
        BY <2>4, <1>6
      <4>2. \A i \in DOMAIN reports[e] : reports[e][i].kind = "absorb" =>
              Filed(e, reports[e][i].pair) = 0
        BY <1>3 DEF EndInv, AbsorbedOnce, D!Nothing
      <4>. QED
        BY <4>1, <4>2, <3>1 DEF Lies, Trusted
    <3>3. CASE q = 1
      <4>1. x = a.source /\ (Taken(e, q)' <=> job.op = "discard")
        BY <3>1, <3>2, <3>3, <1>15 DEF Taken, D!SourcePair
      <4>2. job.op # "discard" => at[x] = 1
        BY <4>1, <1>4, <1>8, <2>4 DEF Discarded
      <4>. QED
        BY <3>3, <4>1, <4>2, <1>4, <1>7, <1>8 DEF D!Nothing
    <3>4. CASE q = 2
      <4>1. x = a.target /\ (Taken(e, q)' <=> a.measureRequested)
        BY <3>1, <3>2, <3>4, <1>15 DEF Taken, D!SourcePair
      <4>2. job.op = "apply" => at[x] = 2
        BY <4>1, <1>4, <1>8, <2>4 DEF Measured
      <4>3. job.op = "discard" => at[x] = 0
        BY <4>1, <1>4, <1>8, <2>4 DEF Measured
      <4>. QED
        BY <3>4, <4>1, <4>2, <4>3, <1>4, <1>7, <1>8 DEF D!Nothing
    <3>. QED
      BY <3>3, <3>4
  <2>. QED
    BY <2>3, <2>4, <1>6 DEF PlacesKnown
<1>18. ASSUME NEW f \in D!Ends PROVE EndInv(f)' /\ Told(f)' /\ (Unexpired(f)' <=> Unexpired(f)) /\ Gone(f)'
  <2>1. Told(f)'
    BY <1>3, ToldStays DEF ReadyAt, D!Peer, D!Ends
  <2>2. CASE f = e
    <3>1. Gone(e)'
      <4>1. CASE job.op = "measure"
        BY <4>1, <1>10 DEF Gone
      <4>2. CASE job.op = "apply"
        BY <4>2, <1>4, <1>15 DEF Gone
      <4>3. CASE job.op = "discard"
        BY <4>3, <1>3, <1>4, <1>10 DEF Gone, Measured
      <4>. QED
        BY <1>4, <4>1, <4>2, <4>3
    <3>. QED
      BY <2>2, <2>1, <3>1, <1>6, <1>13, <1>16, <1>17 DEF EndInv
  <2>3. CASE f # e
    <3>1. EndInv(f)' /\ (Unexpired(f)' <=> Unexpired(f)) /\ (Measured(f)' <=> Measured(f))
      BY <2>3, <1>3, <1>6, <1>7, OtherEnd, SameEnd
    <3>. QED
      BY <2>1, <3>1, <1>3, <1>10 DEF Gone
  <2>. QED
    BY <2>2, <2>3
<1>19. Together'
  <2>. SUFFICES ASSUME ~expired, \A f \in D!Ends : Present(f)' /\ agent[f].keep # "reject"
                PROVE  /\ \E state \in joint' : <<"alice", 1>> \in state
                       /\ \A state \in joint' : <<"alice", 1>> \in state <=> <<"bob", 1>> \in state
    BY DEF Together
  <2>1. ASSUME NEW f \in D!Ends PROVE Present(f)
    <3>1. Present(f)'
      OBVIOUS
    <3>2. \A i \in DOMAIN reports'[f] : reports'[f][i].kind = "absorb" =>
            i \in DOMAIN reports[f] /\ reports'[f][i] = reports[f][i]
      BY <1>4, <1>5, <1>6
    <3>. QED
      BY <3>1, <3>2 DEF Present, Filed
  <2>2. /\ \E state \in joint : <<"alice", 1>> \in state
        /\ \A state \in joint : <<"alice", 1>> \in state <=> <<"bob", 1>> \in state
    BY <1>3, <2>1 DEF Together
  <2>3. job.op \in {"apply", "measure"}
    BY <1>4
  <2>4. \/ joint' = D!Merged(halves)
        \/ joint' = D!Without(halves) /\ <<"alice", 1>> \notin halves /\ <<"bob", 1>> \notin halves
    BY <2>3, <1>1, <1>9
  <2>. HIDE DEF halves
  <2>. QED
    BY <2>2, <2>4, PairKept
<1>. QED
  BY <1>3, <1>11, <1>18, <1>19 DEF RoundInv, EndInv
(* The positions of a job hold qubits, if none has expired.                *)
LEMMA JobStored ==
  ASSUME NEW e \in D!Ends, NEW job, RoundTypes, EndInv(e), Current(e, job), JobReports(e) = {},
         Unexpired(e), job.op = "discard" => ~Discarded(e)
  PROVE  \A p \in D!ToSet(job.positions) : p \in D!Positions /\ memory[e].at[p] # D!Nothing
<1>. DEFINE a == agent[e]
<1>1. /\ a.source \in D!Positions /\ a.target \in D!Positions
      /\ memory[e].at[a.source] = IF Discarded(e) THEN 0 ELSE 1
      /\ memory[e].at[a.target] = IF Measured(e) THEN 0 ELSE 2
  BY BothStored DEF Current
<1>2. \/ job.op = "apply" /\ D!ToSet(job.positions) = {a.source, a.target} /\ ~a.measureRequested
      \/ job.op = "measure" /\ D!ToSet(job.positions) = {a.target} /\ a.bit = D!NoBit
      \/ job.op = "discard" /\ D!ToSet(job.positions) = {a.source}
  BY SmallSequences DEF Current, Job
<1>3. job.op # "discard" => ~Discarded(e) /\ ~Measured(e)
  BY <1>2 DEF Current, Discarded, Measured
<1>. QED
  BY <1>1, <1>2, <1>3 DEF D!Nothing

(* The job in progress is completed.                                       *)
LEMMA CompleteKeeps == ASSUME NEW e \in D!Ends, RoundInv, D!Complete(e) PROVE RoundInv'
<1>. DEFINE job == running[e]
<1>1. RoundTypes /\ EndInv(e) /\ OneJob(e)
  BY DEF RoundInv, EndInv
<1>2. /\ requests[e] = <<>> /\ JobReports(e) = {} /\ Current(e, job) /\ job.op # "discard"
      /\ memory[e].busy = D!ToSet(job.positions)
  BY <1>1, CurrentJob DEF D!Complete
<1>3. \A p \in D!ToSet(job.positions) : memory[e].at[p] # D!Nothing
  BY <1>1, <1>2 DEF OneJob
<1>4. /\ D!Perform(e, job) /\ running'[e] = D!NoOperation /\ requests' = requests
      /\ DOMAIN requests = D!Ends /\ DOMAIN running' = D!Ends
      /\ \A f \in D!Ends : f # e => running'[f] = running[f]
      /\ UNCHANGED <<emitted, flight, delayed, expires, mail, agent, gone, expired>>
  BY <1>1 DEF D!Complete, RoundTypes
<1>. HIDE DEF job
<1>. QED
  BY <1>2, <1>3, <1>4, PerformKeeps

(* The memory takes up a request; it refuses it only if a half has         *)
(* expired.                                                                *)
LEMMA RequestKeeps ==
  ASSUME NEW e \in D!Ends, RoundInv, D!HandleRequest(e)
  PROVE  (RoundInv' \/ (halted' /\ expired')) /\ (halted' => expired')
<1>. DEFINE job == Head(requests[e])
            refusal == ~(D!ToSet(job.positions) \subseteq D!Occupied(e))
<1>1. /\ RoundTypes /\ Together
      /\ \A f \in D!Ends : /\ EndInv(f) /\ Told(f) /\ Gone(f) /\ (expired \/ Unexpired(f))
                           /\ OneJob(f)
  BY DEF RoundInv, EndInv
<1>2. /\ requests[e] = <<job>> /\ requests[e] # <<>> /\ Current(e, job)
      /\ running[e] = D!NoOperation /\ JobReports(e) = {} /\ memory[e].busy = {}
  BY <1>1, CurrentJob DEF D!HandleRequest
<1>3. /\ halted' = refusal
      /\ UNCHANGED <<emitted, flight, delayed, expires, mail, agent, gone, expired>>
      /\ requests' = [requests EXCEPT ![e] = Tail(requests[e])]
      /\ \/ refusal
         \/ /\ ~refusal /\ delayed /\ job.op # "discard"
            /\ running' = [running EXCEPT ![e] = job]
            /\ memory' = [memory EXCEPT ![e].busy = @ \cup D!ToSet(job.positions)]
            /\ UNCHANGED <<reports, joint>>
         \/ /\ ~refusal /\ D!Perform(e, job) /\ UNCHANGED running
  BY DEF D!HandleRequest
<1>4. /\ requests'[e] = <<>> /\ DOMAIN requests' = D!Ends
      /\ \A f \in D!Ends : f # e => requests'[f] = requests[f]
  BY <1>1, <1>2, <1>3, SmallSequences DEF RoundTypes
<1>5. ~Discarded(e)
  BY <1>2 DEF Discarded
<1>6. ~refusal => \A p \in D!ToSet(job.positions) : p \in D!Positions /\ memory[e].at[p] # D!Nothing
  BY DEF D!Occupied, D!Free
<1>7. CASE refusal
  <2>1. ASSUME ~expired PROVE FALSE
    <3>1. \A p \in D!ToSet(job.positions) : p \in D!Positions /\ memory[e].at[p] # D!Nothing
      <4>1. RoundTypes /\ EndInv(e) /\ Unexpired(e)
        BY <1>1, <2>1
      <4>. HIDE DEF job
      <4>. QED
        BY <4>1, <1>2, <1>5, JobStored
    <3>2. D!ToSet(job.positions) \subseteq D!Occupied(e)
      BY <3>1, <1>2 DEF D!Occupied, D!Free
    <3>. QED
      BY <1>7, <3>2
  <2>. QED
    BY <1>3, <1>7, <2>1
<1>8. CASE ~refusal /\ D!Perform(e, job) /\ UNCHANGED running
  <2>1. /\ memory[e].busy \subseteq D!ToSet(job.positions)
        /\ \A p \in D!ToSet(job.positions) : memory[e].at[p] # D!Nothing
        /\ running'[e] = D!NoOperation /\ DOMAIN running' = D!Ends
        /\ \A f \in D!Ends : f # e => requests'[f] = requests[f] /\ running'[f] = running[f]
    BY <1>1, <1>2, <1>4, <1>6, <1>8 DEF RoundTypes
  <2>2. UNCHANGED <<emitted, flight, delayed, expires, mail, agent, gone, expired>>
    BY <1>3
  <2>3. D!Perform(e, job) /\ Current(e, job) /\ JobReports(e) = {}
    BY <1>2, <1>8
  <2>. HIDE DEF job
  <2>4. RoundInv'
    BY <1>4, <2>1, <2>2, <2>3, PerformKeeps
  <2>5. ~halted'
    BY <1>3, <1>8
  <2>. QED
    BY <2>4, <2>5
<1>9. CASE /\ ~refusal /\ delayed /\ job.op # "discard"
           /\ running' = [running EXCEPT ![e] = job]
           /\ memory' = [memory EXCEPT ![e].busy = @ \cup D!ToSet(job.positions)]
           /\ UNCHANGED <<reports, joint>>
  <2>. DEFINE a == agent[e]
  <2>1. /\ running'[e] = job /\ DOMAIN running' = D!Ends /\ \A f \in D!Ends : f # e => running'[f] = running[f]
    BY <1>9, <1>1 DEF RoundTypes
  <2>2. /\ memory'[e].at = memory[e].at /\ memory'[e].busy = D!ToSet(job.positions)
        /\ \A f \in D!Ends : f # e => memory'[f] = memory[f]
        /\ memory' \in [D!Ends -> [at : [D!Positions -> 0..2], busy : SUBSET D!Positions]]
    <3>1. memory \in [D!Ends -> [at : [D!Positions -> 0..2], busy : SUBSET D!Positions]]
      BY <1>1 DEF RoundTypes
    <3>2. D!ToSet(job.positions) \subseteq D!Positions
      BY <1>6, <1>9
    <3>. HIDE DEF job
    <3>. QED
      BY <1>2, <1>9, <3>1, <3>2
  <2>3. RoundTypes'
    BY <1>1, <1>3, <1>4, <1>9, <2>1, <2>2 DEF RoundTypes
  <2>4. /\ JobReports(e)' = {} /\ (Measured(e)' <=> Measured(e)) /\ ~Discarded(e)' /\ ~Discarded(e)
        /\ Unexpired(e)' <=> Unexpired(e)
        /\ \A q, x : Lies(e, q, x)' <=> Lies(e, q, x)
        /\ \A q : Filed(e, q)' = Filed(e, q)
    <3>1. agent' = agent /\ reports' = reports
      BY <1>3, <1>9
    <3>2. JobReports(e)' = JobReports(e) /\ Trusted(e)' = Trusted(e) /\ (Unexpired(e)' <=> Unexpired(e))
      BY <3>1 DEF JobReports, Trusted, Unexpired
    <3>3. \A q : Filed(e, q)' = Filed(e, q)
      BY <3>1 DEF Filed
    <3>4. \A q, x : Lies(e, q, x)' <=> Lies(e, q, x)
      BY <3>1, <3>2, <3>3 DEF Lies
    <3>5. Measured(e)' <=> Measured(e)
      BY <3>1, <3>2 DEF Measured
    <3>6. ~Discarded(e)'
      BY <3>1, <1>2, <1>9 DEF Discarded, Current
    <3>. QED
      BY <1>2, <1>5, <3>2, <3>3, <3>4, <3>5, <3>6
  <2>5. AbsorbedOnce(e)'
    BY <1>1, <1>3, <1>9, <2>4 DEF EndInv, AbsorbedOnce
  <2>6. PlacesKnown(e)'
    BY <1>1, <2>2, <2>4 DEF EndInv, PlacesKnown, Taken
  <2>7. OneJob(e)'
    <3>1. \/ job = Job("apply", <<a.source, a.target>>) /\ ~a.measureRequested
          \/ job = Job("measure", <<a.target>>) /\ a.measureRequested /\ a.bit = D!NoBit
      BY <1>2, <1>9 DEF Current, Job
    <3>2. /\ a.cnotRequested /\ a.keep # "reject"
          /\ a.bit = D!NoBit
      BY <1>2, <1>9 DEF Current, Job
    <3>3. \/ ~a.measureRequested /\ Doing(e, "apply", <<a.source, a.target>>)'
          \/ a.measureRequested /\ Doing(e, "measure", <<a.target>>)'
      BY <3>1, <1>3, <1>4, <2>1, <2>4 DEF Doing, Job
    <3>4. OneJob(e) /\ (ReadyAt(e)' <=> ReadyAt(e)) /\ agent'[e] = a
      BY <1>1, <1>3 DEF ReadyAt
    <3>. QED
      BY <3>2, <3>3, <3>4, <2>1, <2>2, <1>6, <1>9 DEF OneJob
  <2>8. ASSUME NEW f \in D!Ends PROVE EndInv(f)' /\ Told(f)' /\ (Unexpired(f)' <=> Unexpired(f)) /\ Gone(f)'
    <3>1. Told(f)'
      BY <1>1, <1>3, ToldStays DEF ReadyAt, D!Peer, D!Ends
    <3>2. CASE f = e
      BY <3>1, <3>2, <1>1, <1>9, <2>4, <2>5, <2>6, <2>7 DEF EndInv, Gone
    <3>3. CASE f # e
      BY <3>1, <3>3, <1>1, <1>3, <1>4, <1>9, <2>1, <2>2, OtherEnd, SameEnd DEF Gone
    <3>. QED
      BY <3>2, <3>3
  <2>9. Together'
    BY <1>1, <1>3, <1>9 DEF Together, Present, Filed
  <2>10. ~halted'
    BY <1>3, <1>9
  <2>. QED
    BY <1>1, <1>3, <2>3, <2>8, <2>9, <2>10 DEF RoundInv, EndInv
<1>. QED
  BY <1>3, <1>7, <1>8, <1>9
(* PlacesKnown, if nothing has moved.                                      *)
LEMMA PlacesStay ==
  ASSUME NEW e \in D!Ends, PlacesKnown(e), memory'[e] = memory[e], Unexpired(e)' => Unexpired(e),
         \A q, x : q \in 1..2 /\ Lies(e, q, x)' => Lies(e, q, x),
         Measured(e)' <=> Measured(e), Discarded(e)' <=> Discarded(e)
  PROVE  PlacesKnown(e)'
BY DEF PlacesKnown, Taken

(* A report has been read that is not of an expiry.                        *)
LEMMA ShiftedReports ==
  ASSUME NEW e \in D!Ends, RoundTypes, reports[e] # <<>>,
         reports' = [reports EXCEPT ![e] = Tail(@)], Head(reports[e]).kind # "expire"
  PROVE  /\ Unexpired(e)' <=> Unexpired(e)
         /\ \A i : i \in Trusted(e)' => i + 1 \in Trusted(e) /\ i \in DOMAIN reports'[e]
         /\ 1 \in Trusted(e)
         /\ \A i \in DOMAIN reports'[e] : i + 1 \in DOMAIN reports[e] /\ reports'[e][i] = reports[e][i + 1]
                                            /\ i + 1 # 1 /\ i \in Nat
         /\ Head(reports[e]).kind \in {"apply", "measure", "discard"} =>
              1 \in JobReports(e) /\ (JobReports(e) = {1} => JobReports(e)' = {})
         /\ Head(reports[e]).kind = "absorb" /\ JobReports(e) = {} => JobReports(e)' = {}
<1>. DEFINE n == Len(reports[e])
<1>1. /\ n \in Nat /\ DOMAIN (reports'[e]) = 1..(n - 1) /\ DOMAIN (reports[e]) = 1..n
      /\ \A i \in 1..(n - 1) : reports'[e][i] = reports[e][i + 1]
      /\ 1 \in 1..n /\ Head(reports[e]) = reports[e][1]
  <2>1. /\ DOMAIN (reports'[e]) = 1..(Len(reports[e]) - 1) /\ DOMAIN (reports[e]) = 1..Len(reports[e])
        /\ Len(reports[e]) \in Nat /\ \A i \in DOMAIN (reports'[e]) : reports'[e][i] = reports[e][i + 1]
        /\ 1 \in DOMAIN (reports[e]) /\ Head(reports[e]) = reports[e][1]
    BY ReadReports
  <2>. QED
    BY <2>1
<1>. HIDE DEF n
<1>2. \A i \in 1..(n - 1) : i + 1 \in 1..n /\ i + 1 # 1 /\ i \in Nat
  BY <1>1
<1>3. \A i \in 1..n : i = 1 \/ (i - 1 \in 1..(n - 1) /\ (i - 1) + 1 = i)
  BY <1>1
<1>4. Unexpired(e)' <=> Unexpired(e)
  <2>1. ASSUME Unexpired(e)' PROVE Unexpired(e)
    <3>. SUFFICES ASSUME NEW i \in 1..n PROVE reports[e][i].kind # "expire"
      BY <1>1 DEF Unexpired
    <3>1. CASE i = 1
      BY <3>1, <1>1
    <3>2. CASE i - 1 \in 1..(n - 1) /\ (i - 1) + 1 = i
      BY <3>2, <2>1, <1>1 DEF Unexpired
    <3>. QED
      BY <3>1, <3>2, <1>3
  <2>2. ASSUME Unexpired(e) PROVE Unexpired(e)'
    BY <2>2, <1>1, <1>2 DEF Unexpired
  <2>. QED
    BY <2>1, <2>2
<1>5. ASSUME NEW i, i \in Trusted(e)' PROVE i + 1 \in Trusted(e) /\ i \in DOMAIN reports'[e]
  <2>1. i \in 1..(n - 1) /\ \A j \in 1..i : reports'[e][j].kind # "expire"
    BY <1>1, <1>5 DEF Trusted
  <2>2. ASSUME NEW j \in 1..(i + 1) PROVE reports[e][j].kind # "expire"
    <3>1. CASE j = 1
      BY <3>1, <1>1
    <3>2. CASE j # 1
      <4>1. j - 1 \in 1..i /\ j - 1 \in 1..(n - 1) /\ (j - 1) + 1 = j
        BY <3>2, <2>1, <1>1
      <4>. QED
        BY <4>1, <2>1, <1>1
    <3>. QED
      BY <3>1, <3>2
  <2>. QED
    BY <2>1, <2>2, <1>1, <1>2 DEF Trusted
<1>6. 1 \in Trusted(e)
  BY <1>1 DEF Trusted
<1>7. \A i \in JobReports(e)' : i + 1 \in JobReports(e) /\ i + 1 # 1
  BY <1>1, <1>2 DEF JobReports
<1>8. Head(reports[e]).kind \in {"apply", "measure", "discard"} =>
              1 \in JobReports(e) /\ (JobReports(e) = {1} => JobReports(e)' = {})
  BY <1>1, <1>7 DEF JobReports
<1>9. Head(reports[e]).kind = "absorb" /\ JobReports(e) = {} => JobReports(e)' = {}
  BY <1>7
<1>. QED
  BY <1>1, <1>2, <1>4, <1>5, <1>6, <1>8, <1>9

(* The report that has been read was not that of an absorption either.     *)
LEMMA JobReportRead ==
  ASSUME NEW e \in D!Ends, RoundTypes, AbsorbedOnce(e), reports[e] # <<>>,
         reports' = [reports EXCEPT ![e] = Tail(@)],
         Head(reports[e]).kind \in {"apply", "measure", "discard"},
         \A q : Filed(e, q)' = Filed(e, q), emitted' = emitted, flight' = flight
  PROVE  /\ AbsorbedOnce(e)' /\ \A q, x : q \in 1..2 /\ Lies(e, q, x)' => Lies(e, q, x)
         /\ Present(e)' => Present(e)
<1>0. /\ \A i : i \in Trusted(e)' => i + 1 \in Trusted(e) /\ i \in DOMAIN reports'[e]
      /\ \A i \in DOMAIN reports'[e] : i + 1 \in DOMAIN reports[e] /\ reports'[e][i] = reports[e][i + 1]
                                         /\ i \in Nat
  BY ShiftedReports
<1>1. AbsorbedOnce(e)'
  <2>1. ASSUME NEW i \in DOMAIN reports'[e], reports'[e][i].kind = "absorb"
        PROVE  /\ reports'[e][i].pair \in 1..emitted \ flight[e] /\ Filed(e, reports'[e][i].pair) = D!Nothing
               /\ \A j \in DOMAIN reports'[e] :
                    reports'[e][j].kind = "absorb" /\ reports'[e][j].pair = reports'[e][i].pair => i = j
    <3>1. i + 1 \in DOMAIN reports[e] /\ reports'[e][i] = reports[e][i + 1] /\ i \in Nat
      BY <1>0
    <3>2. ASSUME NEW j \in DOMAIN reports'[e], reports'[e][j].kind = "absorb",
                 reports'[e][j].pair = reports'[e][i].pair
          PROVE  i = j
      <4>1. j + 1 \in DOMAIN reports[e] /\ reports'[e][j] = reports[e][j + 1] /\ j \in Nat
        BY <1>0
      <4>2. i + 1 = j + 1
        BY <2>1, <3>1, <3>2, <4>1 DEF AbsorbedOnce
      <4>. QED
        BY <3>1, <4>1, <4>2
    <3>. QED
      BY <2>1, <3>1, <3>2 DEF AbsorbedOnce
  <2>. QED
    BY <2>1 DEF AbsorbedOnce
<1>2. ASSUME NEW q, NEW x, Lies(e, q, x)' PROVE Lies(e, q, x)
  <2>1. CASE x = Filed(e, q)' /\ x # D!Nothing
    BY <2>1 DEF Lies
  <2>2. CASE \E i \in Trusted(e)' : /\ reports'[e][i].kind = "absorb" /\ reports'[e][i].pair = q
                                    /\ reports'[e][i].position = x
    BY <2>2, <1>0 DEF Lies
  <2>. QED
    BY <1>2, <2>1, <2>2 DEF Lies, D!Nothing
<1>3. Present(e)' => Present(e)
  BY <1>0 DEF Present
<1>. QED
  BY <1>1, <1>2, <1>3

(* A handler of an agent: what remains to be shown of it.                  *)
LEMMA ActKeeps ==
  ASSUME NEW e \in D!Ends, NEW new \in AgentSet, RoundInv, agent' = [agent EXCEPT ![e] = new],
         UNCHANGED <<emitted, flight, memory, delayed, expires, running, joint, gone, expired>>,
         \A f \in D!Ends : f # e => requests'[f] = requests[f] /\ reports'[f] = reports[f],
         DOMAIN requests' = D!Ends, DOMAIN reports' = D!Ends, DOMAIN mail' = D!Ends,
         reports'[e] \in Seq(ReportSet),
         AbsorbedOnce(e)', OneJob(e)', Unexpired(e) => Unexpired(e)', Unexpired(e)' => Unexpired(e),
         \A q, x : q \in 1..2 /\ Lies(e, q, x)' => Lies(e, q, x),
         Measured(e)' <=> Measured(e), Discarded(e)' <=> Discarded(e), Present(e)' => Present(e),
         Told(e)', mail'[D!Peer(e)] \in Seq(MailSet(D!Peer(e))'),
         ReadyAt(e) => ReadyAt(e)' /\ new.source = agent[e].source,
         agent[e].bit # D!NoBit => new.bit = agent[e].bit,
         agent[e].keep = "reject" => new.keep = "reject"
  PROVE  RoundInv'
<1>1. /\ RoundTypes /\ Together
      /\ \A f \in D!Ends : EndInv(f) /\ Told(f) /\ Gone(f) /\ (expired \/ Unexpired(f))
  BY DEF RoundInv, EndInv
<1>2. agent'[e] = new /\ (\A f \in D!Ends : f # e => agent'[f] = agent[f]) /\ agent' \in [D!Ends -> AgentSet]
  BY <1>1 DEF RoundTypes
<1>3. RoundTypes'
  <2>1. \A f \in D!Ends : reports'[f] \in Seq(ReportSet)
    BY <1>1 DEF RoundTypes
  <2>. QED
    BY <1>1, <1>2, <2>1 DEF RoundTypes
<1>4. EndInv(e)'
  BY <1>1, PlacesStay DEF EndInv
<1>5. ASSUME NEW f \in D!Ends, f # e PROVE EndInv(f)' /\ (Unexpired(f)' <=> Unexpired(f)) /\ Told(f)'
                                            /\ (Measured(f)' <=> Measured(f)) /\ (Present(f)' <=> Present(f))
  <2>1. EndInv(f)' /\ (Unexpired(f)' <=> Unexpired(f)) /\ (Measured(f)' <=> Measured(f))
    BY <1>1, <1>2, <1>5, OtherEnd, SameEnd
  <2>2. f = D!Peer(e) /\ e = D!Peer(f)
    BY <1>5 DEF D!Peer, D!Ends
  <2>3. Told(f)'
    <3>1. /\ agent'[f].peerReady => ReadyAt(e)' /\ agent'[f].peerSource = agent'[e].source
          /\ agent'[f].peerBit \in {D!NoBit, agent'[e].bit}
      BY <1>1, <1>2, <1>5, <2>2 DEF Told
    <3>. QED
      BY <2>2, <3>1 DEF Told, D!NoBit
  <2>4. Present(f)' <=> Present(f)
    BY <1>2, <1>5 DEF Present, Filed
  <2>. QED
    BY <2>1, <2>3, <2>4
<1>6. ASSUME NEW f \in D!Ends PROVE EndInv(f)' /\ Told(f)' /\ Gone(f)' /\ (Unexpired(f)' <=> Unexpired(f))
  BY <1>1, <1>4, <1>5 DEF Gone
<1>7. Together'
  <2>1. ASSUME NEW f \in D!Ends, Present(f)', agent'[f].keep # "reject"
        PROVE  Present(f) /\ agent[f].keep # "reject"
    BY <2>1, <1>2, <1>5
  <2>. QED
    BY <2>1, <1>1 DEF Together
<1>. QED
  BY <1>1, <1>3, <1>6, <1>7 DEF RoundInv, EndInv

(* What has been sent to f stays true while its peer keeps what it has.    *)
LEMMA MailSetStays ==
  ASSUME NEW f \in D!Ends,
         ReadyAt(D!Peer(f)) =>
           ReadyAt(D!Peer(f))' /\ agent'[D!Peer(f)].source = agent[D!Peer(f)].source,
         agent[D!Peer(f)].bit # D!NoBit => agent'[D!Peer(f)].bit = agent[D!Peer(f)].bit
  PROVE  Seq(MailSet(f)) \subseteq Seq(MailSet(f)')
<1>1. MailSet(f) \subseteq MailSet(f)'
  <2>. SUFFICES ASSUME NEW m \in MailSet(f) PROVE m \in MailSet(f)'
    OBVIOUS
  <2>1. /\ m \in [type : {"ready"}, source : D!Positions] \cup [type : {"target_result"}, bit : 0..1]
        /\ m.type = "ready" => ReadyAt(D!Peer(f)) /\ m.source = agent[D!Peer(f)].source
        /\ m.type = "target_result" => m.bit = agent[D!Peer(f)].bit
    BY DEF MailSet
  <2>2. m.type = "target_result" => m.bit \in 0..1
    BY <2>1
  <2>3. m.type = "target_result" => agent[D!Peer(f)].bit # D!NoBit
    BY <2>1, <2>2 DEF D!NoBit
  <2>. QED
    BY <2>1, <2>3 DEF MailSet
<1>. QED
  BY <1>1

(* The state of the kept pair: the two halves of pair 1.                   *)
SourceLayout == {<<e, D!SourcePair>> : e \in D!Ends}

(* The coordinator reads the state of the pair that is kept.               *)
LEMMA Recorded ==
  ASSUME RoundInv, NEW a, NEW sent, a.source = agent["alice"].source, a.peerSource = agent["bob"].source,
         \A e \in D!Ends : ReadyAt(e) /\ Measured(e) /\ agent[e].keep # "reject"
  PROVE  \/ D!RecordFinalFidelity("alice", a, sent)
              = D!Outcome([a EXCEPT !.finalLayout = SourceLayout], sent, <<>>)
         \/ D!RecordFinalFidelity("alice", a, sent) = D!Raise(a) /\ expired
<1>. DEFINE myHalf   == D!Half("alice", a.source)
            peerHalf == D!Half("bob", a.peerSource)
            one    == D!StateOf(myHalf)
            other  == D!StateOf(peerHalf)
<1>1. D!Peer("alice") = "bob" /\ "alice" \in D!Ends /\ "bob" \in D!Ends
  BY DEF D!Peer, D!Ends
<1>2. /\ RoundTypes /\ Together
      /\ \A e \in D!Ends : EndInv(e) /\ Told(e) /\ Gone(e) /\ (expired \/ Unexpired(e))
  BY DEF RoundInv, EndInv
<1>3. /\ a.peerSource # D!Nothing /\ emitted = 2
      /\ myHalf \in {<<"alice", 0>>, <<"alice", 1>>} /\ peerHalf \in {<<"bob", 0>>, <<"bob", 1>>}
      /\ ~expired => myHalf = <<"alice", 1>> /\ peerHalf = <<"bob", 1>>
  BY <1>1, <1>2, BothStored DEF D!Half, D!Nothing, D!Positions, Discarded
<1>4. ASSUME NEW state \in joint PROVE state \subseteq {<<"alice", 1>>, <<"bob", 1>>}
  <2>1. state \subseteq D!Ends \X (1..2)
    BY <1>2, <1>3 DEF RoundTypes
  <2>2. <<"alice", 2>> \notin state /\ <<"bob", 2>> \notin state
    BY <1>1, <1>2 DEF Gone
  <2>. QED
    BY <2>1, <2>2 DEF D!Ends
<1>5. ASSUME one # {}, one = other PROVE UNION one = SourceLayout
  <2>1. ASSUME NEW state \in one PROVE state = {<<"alice", 1>>, <<"bob", 1>>}
    <3>1. state \in joint /\ myHalf \in state /\ peerHalf \in state
      BY <1>5, <2>1 DEF D!StateOf
    <3>2. myHalf = <<"alice", 1>> /\ peerHalf = <<"bob", 1>>
      BY <3>1, <1>3, <1>4
    <3>. QED
      BY <3>1, <3>2, <1>4
  <2>2. UNION one = {<<"alice", 1>>, <<"bob", 1>>}
    <3>. HIDE DEF one
    <3>. QED
      BY <2>1, <1>5
  <2>3. SourceLayout = {<<"alice", 1>>, <<"bob", 1>>}
    BY DEF SourceLayout, D!Ends, D!SourcePair
  <2>. QED
    BY <2>2, <2>3
<1>6. ASSUME ~expired PROVE one # {} /\ one = other
  <2>1. \A e \in D!Ends : Present(e)
    BY DEF ReadyAt, Present, Filed, D!SourcePair
  <2>2. /\ \E state \in joint : <<"alice", 1>> \in state
        /\ \A state \in joint : <<"alice", 1>> \in state <=> <<"bob", 1>> \in state
    BY <1>2, <1>6, <2>1 DEF Together
  <2>3. myHalf = <<"alice", 1>> /\ peerHalf = <<"bob", 1>>
    BY <1>3, <1>6
  <2>. HIDE DEF myHalf, peerHalf
  <2>. QED
    BY <2>2, <2>3 DEF D!StateOf
<1>. HIDE DEF one, other
<1>7. CASE one # {} /\ one = other
  <2>1. D!RecordFinalFidelity("alice", a, sent) = D!Outcome([a EXCEPT !.finalLayout = UNION one], sent, <<>>)
    BY <1>1, <1>3, <1>7 DEF D!RecordFinalFidelity, one, other
  <2>. QED
    BY <2>1, <1>5, <1>7
<1>8. CASE ~(one # {} /\ one = other)
  <2>1. D!RecordFinalFidelity("alice", a, sent) = D!Raise(a)
    BY <1>1, <1>8 DEF D!RecordFinalFidelity, one, other
  <2>. QED
    BY <2>1, <1>6, <1>8
<1>. QED
  BY <1>7, <1>8

(* What an agent decides when a bit has become known to it.                *)
LEMMA Decided ==
  ASSUME NEW e \in D!Ends, NEW a \in AgentSet, NEW sent, RoundInv,
         a.source = agent[e].source, a.keep = agent[e].keep,
         a.keep = "open" /\ D!NoBit \notin {a.bit, a.peerBit} =>
           /\ ReadyAt(e) /\ ReadyAt(D!Peer(e)) /\ a.peerSource = agent[D!Peer(e)].source
           /\ Measured(e) /\ agent[D!Peer(e)].bit = a.peerBit
           /\ agent[D!Peer(e)].peerBit \in {D!NoBit, a.bit}
  PROVE  LET o == D!TryDecide(e, a, sent)
             settled == a.keep # "open" \/ D!NoBit \in {a.bit, a.peerBit}
         IN  \/ settled /\ o = D!Outcome(a, sent, <<>>)
             \/ ~settled /\ a.bit # a.peerBit
                  /\ o = D!Outcome([a EXCEPT !.keep = "reject"], sent, <<Job("discard", <<a.source>>)>>)
             \/ ~settled /\ a.bit = a.peerBit /\ \E layout \in {a.finalLayout, SourceLayout} :
                  o = D!Outcome([a EXCEPT !.keep = "keep", !.finalLayout = layout], sent, <<>>)
             \/ ~settled /\ a.bit = a.peerBit /\ expired /\ o = D!Raise([a EXCEPT !.keep = "keep"])
<1>. DEFINE o == D!TryDecide(e, a, sent)
            settled == a.keep # "open" \/ D!NoBit \in {a.bit, a.peerBit}
            kept == [a EXCEPT !.keep = "keep"]
<1>1. CASE settled
  BY <1>1 DEF D!TryDecide
<1>2. CASE ~settled /\ a.bit # a.peerBit
  BY <1>2 DEF D!TryDecide, Job
<1>3. CASE ~settled /\ a.bit = a.peerBit /\ e # "alice"
  <2>1. o = D!Outcome(kept, sent, <<>>)
    BY <1>3 DEF D!TryDecide, D!Coordinator
  <2>2. kept = [a EXCEPT !.keep = "keep", !.finalLayout = a.finalLayout]
    BY DEF AgentSet
  <2>. HIDE DEF o, kept
  <2>3. \E layout \in {a.finalLayout, SourceLayout} :
          o = D!Outcome([a EXCEPT !.keep = "keep", !.finalLayout = layout], sent, <<>>)
    BY <2>1, <2>2
  <2>. QED
    BY <1>3, <2>3 DEF o
<1>4. CASE ~settled /\ a.bit = a.peerBit /\ e = "alice"
  <2>1. o = D!RecordFinalFidelity("alice", kept, sent)
    BY <1>4 DEF D!TryDecide, D!Coordinator
  <2>2. /\ D!Peer("alice") = "bob" /\ D!Ends = {"alice", "bob"}
        /\ kept.source = agent["alice"].source /\ kept.peerSource = agent["bob"].source
    BY <1>4 DEF D!Peer, D!Ends, AgentSet
  <2>3. \A f \in D!Ends : ReadyAt(f) /\ Measured(f) /\ agent[f].keep # "reject"
    <3>1. ReadyAt("alice") /\ ReadyAt("bob") /\ Measured("alice") /\ agent["alice"].keep # "reject"
      BY <1>4, <2>2
    <3>2. agent["bob"].bit = a.bit /\ a.bit # D!NoBit /\ agent["bob"].peerBit \in {D!NoBit, a.bit}
      BY <1>4, <2>2
    <3>3. OneJob("bob")
      BY <2>2 DEF RoundInv
    <3>4. agent["bob"].keep # "reject" /\ Measured("bob")
      BY <3>2, <3>3 DEF OneJob, Measured
    <3>. QED
      BY <2>2, <3>1, <3>4
  <2>4. \/ o = D!Outcome([kept EXCEPT !.finalLayout = SourceLayout], sent, <<>>)
        \/ o = D!Raise(kept) /\ expired
    <3>. HIDE DEF kept, o
    <3>. QED
      BY <2>1, <2>2, <2>3, Recorded
  <2>5. [kept EXCEPT !.finalLayout = SourceLayout] = [a EXCEPT !.keep = "keep", !.finalLayout = SourceLayout]
    BY DEF AgentSet
  <2>6. \/ o = D!Outcome([a EXCEPT !.keep = "keep", !.finalLayout = SourceLayout], sent, <<>>)
        \/ o = D!Raise(kept) /\ expired
    <3>. HIDE DEF kept, o
    <3>. QED
      BY <2>4, <2>5
  <2>. HIDE DEF o
  <2>. QED
    BY <1>4, <2>6 DEF o
<1>. QED
  BY <1>1, <1>2, <1>3, <1>4

(* A handler leaves what its agent has recorded, or records that state.    *)
Layout(e) == agent'[e].finalLayout \in {agent[e].finalLayout, SourceLayout}

(* The first half, or the second, is stored; with the second the agent     *)
(* tells its peer, and asks for the CNOT if the peer is ready too.         *)
LEMMA AbsorptionReported ==
  ASSUME NEW e \in D!Ends, RoundInv, D!DeliverReport(e), Head(reports[e]).kind = "absorb"
  PROVE  RoundInv' /\ Layout(e) /\ ~halted'
<1>. DEFINE r == Head(reports[e])
            a == D!Stored(agent[e], r)
            ready == a.source # 0 /\ a.target # 0
            new == IF ready THEN [a EXCEPT !.readySent = TRUE, !.cnotRequested = a.peerReady] ELSE a
            sent == IF ready THEN <<[type |-> "ready", source |-> a.source]>> ELSE <<>>
            asked == IF ready /\ a.peerReady THEN <<Job("apply", <<a.source, a.target>>)>> ELSE <<>>
            f == D!Peer(e)
<1>1. /\ RoundTypes /\ Together /\ AbsorbedOnce(e) /\ PlacesKnown(e) /\ OneJob(e)
      /\ \A g \in D!Ends : EndInv(g) /\ Told(g) /\ Gone(g) /\ (expired \/ Unexpired(g))
      /\ agent[e] \in AgentSet
  BY DEF RoundInv, EndInv, RoundTypes
<1>2. /\ reports[e] # <<>> /\ reports' = [reports EXCEPT ![e] = Tail(@)]
      /\ UNCHANGED <<emitted, flight, memory, delayed, expires, running, joint, gone, expired>>
  BY DEF D!DeliverReport, D!Act
<1>3. /\ 1 \in DOMAIN (reports[e]) /\ r = reports[e][1] /\ r \in ReportSet
      /\ reports'[e] \in Seq(ReportSet) /\ DOMAIN reports' = D!Ends
      /\ \A g \in D!Ends : g # e => reports'[g] = reports[g]
  BY <1>1, <1>2, ReadReports
<1>4. r.position \in 1..2 /\ r.pair \in 1..2
  BY <1>3 DEF ReportSet, D!Positions
<1>5. /\ Filed(e, r.pair) = 0 /\ r.pair \in 1..emitted \ flight[e]
      /\ \A j \in DOMAIN reports[e] :
           reports[e][j].kind = "absorb" /\ reports[e][j].pair = r.pair => j = 1
  BY <1>1, <1>3 DEF AbsorbedOnce, D!Nothing
<1>6. /\ ~ReadyAt(e) /\ ~agent[e].cnotRequested /\ ~agent[e].readySent /\ AtRest(e)
      /\ ~agent[e].measureRequested /\ agent[e].bit = D!NoBit /\ agent[e].keep = "open"
      /\ \A p \in 1..2 : ~Taken(e, p)
  <2>1. ~ReadyAt(e)
    BY <1>4, <1>5 DEF Filed, ReadyAt, D!Nothing
  <2>. QED
    BY <1>1, <1>4, <1>5, <2>1, UnreadyUntaken DEF OneJob, D!Nothing, AgentSet
<1>7. /\ a \in AgentSet
      /\ a.source = IF r.pair = 1 THEN r.position ELSE agent[e].source
      /\ a.target = IF r.pair = 1 THEN agent[e].target ELSE r.position
      /\ a.peerReady = agent[e].peerReady /\ a.peerSource = agent[e].peerSource
      /\ a.cnotRequested = agent[e].cnotRequested /\ a.readySent = agent[e].readySent
      /\ a.measureRequested = agent[e].measureRequested
      /\ a.bit = agent[e].bit /\ a.peerBit = agent[e].peerBit /\ a.keep = agent[e].keep
      /\ a.finalLayout = agent[e].finalLayout
  <2>. HIDE DEF r
  <2>1. CASE r.pair = 1
    BY <1>1, <1>4, <2>1 DEF D!Stored, D!SourcePair, AgentSet
  <2>2. CASE r.pair # 1
    BY <1>1, <1>4, <2>2 DEF D!Stored, D!SourcePair, AgentSet
  <2>. QED
    BY <2>1, <2>2
<1>. HIDE DEF a
<1>8. D!OnReport(e, r) = D!Outcome(new, sent, asked)
  <2>1. D!OnReport(e, r) = D!OnAbsorbReport(e, r)
    BY DEF D!OnReport
  <2>2. CASE ready /\ a.peerReady
    <3>1. ~[a EXCEPT !.readySent = TRUE].cnotRequested
      BY <1>6, <1>7
    <3>2. D!StartsCnot([a EXCEPT !.readySent = TRUE])
      BY <2>2, <3>1, <1>7 DEF D!StartsCnot, D!LocallyReady, D!Nothing, AgentSet
    <3>3. D!OnAbsorbReport(e, r) = D!TryStartCnot([a EXCEPT !.readySent = TRUE], sent)
      BY <2>2, <1>6, <1>7 DEF D!OnAbsorbReport, D!LocallyReady, D!Nothing, a
    <3>4. /\ [[a EXCEPT !.readySent = TRUE] EXCEPT !.cnotRequested = TRUE] = new
          /\ [a EXCEPT !.readySent = TRUE].source = a.source /\ [a EXCEPT !.readySent = TRUE].target = a.target
      BY <2>2, <1>7 DEF AgentSet
    <3>5. asked = <<[op |-> "apply", positions |-> <<a.source, a.target>>]>>
      BY <2>2 DEF Job
    <3>. HIDE DEF new, sent, asked, ready
    <3>. QED
      BY <2>1, <3>2, <3>3, <3>4, <3>5 DEF D!TryStartCnot
  <2>3. CASE ready /\ ~a.peerReady
    <3>1. ~D!StartsCnot([a EXCEPT !.readySent = TRUE])
      BY <2>3, <1>7 DEF D!StartsCnot, AgentSet
    <3>2. D!OnAbsorbReport(e, r) = D!TryStartCnot([a EXCEPT !.readySent = TRUE], sent)
      BY <2>3, <1>6, <1>7 DEF D!OnAbsorbReport, D!LocallyReady, D!Nothing, a
    <3>3. new = [a EXCEPT !.readySent = TRUE]
      BY <2>3, <1>6, <1>7 DEF AgentSet
    <3>4. asked = <<>>
      BY <2>3
    <3>. HIDE DEF new, sent, asked, ready
    <3>. QED
      BY <2>1, <3>1, <3>2, <3>3, <3>4 DEF D!TryStartCnot
  <2>4. CASE ~ready
    BY <2>1, <2>4 DEF D!OnAbsorbReport, D!LocallyReady, D!Nothing, D!TryStartCnot, D!StartsCnot, a
  <2>. QED
    BY <2>2, <2>3, <2>4
<1>9. /\ agent' = [agent EXCEPT ![e] = new] /\ ~halted'
      /\ requests' = [requests EXCEPT ![e] = @ \o asked]
      /\ mail' = [mail EXCEPT ![f] = @ \o sent]
  <2>. DEFINE o == D!OnReport(e, r)
  <2>1. /\ agent' = [agent EXCEPT ![e] = o.agent] /\ halted' = o.raised
        /\ requests' = [requests EXCEPT ![e] = @ \o o.asked]
        /\ mail' = [mail EXCEPT ![f] = @ \o o.sent]
    BY DEF D!DeliverReport, D!Act
  <2>. HIDE DEF new, sent, asked, o, f
  <2>2. o = D!Outcome(new, sent, asked)
    BY <1>8 DEF o
  <2>3. o.agent = new /\ o.raised = FALSE /\ o.asked = asked /\ o.sent = sent
    BY <2>2 DEF D!Outcome
  <2>. QED
    BY <2>1, <2>3
<1>10. /\ new \in AgentSet /\ new.source = a.source /\ new.target = a.target
       /\ new.peerReady = agent[e].peerReady /\ new.peerSource = agent[e].peerSource
       /\ new.cnotRequested = (ready /\ agent[e].peerReady) /\ new.readySent = ready
       /\ new.measureRequested = agent[e].measureRequested
       /\ new.bit = agent[e].bit /\ new.peerBit = agent[e].peerBit /\ new.keep = agent[e].keep
       /\ new.finalLayout = agent[e].finalLayout
  <2>1. CASE ready
    BY <2>1, <1>6, <1>7 DEF AgentSet
  <2>2. CASE ~ready
    BY <2>2, <1>6, <1>7 DEF AgentSet
  <2>. QED
    BY <2>1, <2>2
<1>. HIDE DEF new
<1>11. /\ agent'[e] = new /\ \A g \in D!Ends : g # e => agent'[g] = agent[g]
       /\ f \in D!Ends /\ f # e /\ D!Peer(f) = e
  BY <1>1, <1>9 DEF RoundTypes, D!Peer, D!Ends
<1>12. /\ requests'[e] = asked /\ DOMAIN requests' = D!Ends /\ \A g \in D!Ends : g # e => requests'[g] = requests[g]
  <2>1. requests[e] = <<>> /\ DOMAIN requests = D!Ends
    BY <1>1, <1>6 DEF AtRest, RoundTypes
  <2>2. <<>> \o asked = asked
    BY SmallSequences
  <2>. HIDE DEF asked
  <2>. QED
    BY <1>9, <2>1, <2>2
<1>13. /\ ReadyAt(e)' <=> ready
       /\ \A q \in 1..2 : Filed(e, q)' = IF q = r.pair THEN r.position ELSE Filed(e, q)
  <2>1. ReadyAt(e)' <=> ready
    BY <1>10, <1>11 DEF ReadyAt, D!Nothing
  <2>2. Filed(e, 1)' = a.source /\ Filed(e, 2)' = a.target
    BY <1>10, <1>11 DEF Filed, D!SourcePair
  <2>3. Filed(e, 1) = agent[e].source /\ Filed(e, 2) = agent[e].target
    BY DEF Filed, D!SourcePair
  <2>. QED
    BY <2>1, <2>2, <2>3, <1>4, <1>7
<1>14. /\ Unexpired(e)' <=> Unexpired(e)
       /\ \A i : i \in Trusted(e)' => i + 1 \in Trusted(e) /\ i \in DOMAIN reports'[e]
       /\ 1 \in Trusted(e)
       /\ \A i \in DOMAIN reports'[e] : i + 1 \in DOMAIN reports[e] /\ reports'[e][i] = reports[e][i + 1]
                                          /\ i + 1 # 1 /\ i \in Nat
       /\ JobReports(e)' = {}
  <2>1. JobReports(e) = {}
    BY <1>6 DEF AtRest
  <2>. QED
    BY <2>1, <1>1, <1>2, ShiftedReports
<1>15. AbsorbedOnce(e)'
  <2>1. ASSUME NEW i \in DOMAIN reports'[e], reports'[e][i].kind = "absorb"
        PROVE  /\ reports'[e][i].pair \in 1..emitted \ flight[e] /\ (IF reports'[e][i].pair = D!SourcePair THEN agent'[e].source ELSE agent'[e].target) = 0
               /\ \A j \in DOMAIN reports'[e] :
                    reports'[e][j].kind = "absorb" /\ reports'[e][j].pair = reports'[e][i].pair => i = j
    <3>1. i + 1 \in DOMAIN reports[e] /\ reports'[e][i] = reports[e][i + 1] /\ i \in Nat /\ i + 1 # 1
      BY <1>14
    <3>2. /\ reports[e][i + 1].pair \in 1..emitted \ flight[e] /\ Filed(e, reports[e][i + 1].pair) = 0
          /\ reports[e][i + 1].pair # r.pair
      BY <2>1, <3>1, <1>1, <1>5 DEF AbsorbedOnce, D!Nothing
    <3>3. reports[e][i + 1].pair \in 1..2
      BY <3>2, <1>1 DEF RoundTypes
    <3>4. ASSUME NEW j \in DOMAIN reports'[e], reports'[e][j].kind = "absorb",
                 reports'[e][j].pair = reports'[e][i].pair
          PROVE  i = j
      <4>1. j + 1 \in DOMAIN reports[e] /\ reports'[e][j] = reports[e][j + 1] /\ j \in Nat
        BY <1>14
      <4>2. i + 1 = j + 1
        BY <2>1, <3>1, <3>4, <4>1, <1>1 DEF AbsorbedOnce
      <4>. QED
        BY <3>1, <4>1, <4>2
    <3>5. (IF reports'[e][i].pair = D!SourcePair THEN agent'[e].source ELSE agent'[e].target) = 0
      BY <3>1, <3>2, <3>3, <1>13 DEF Filed
    <3>. QED
      BY <3>1, <3>2, <3>4, <3>5
  <2>2. \A q \in 1..2 : Filed(e, q)' # 0 => q \in 1..emitted \ flight[e]
    BY <1>1, <1>5, <1>13 DEF AbsorbedOnce, D!Nothing
  <2>. QED
    BY <1>2, <2>1, <2>2 DEF AbsorbedOnce, Filed, D!Nothing
<1>16. ASSUME NEW q \in 1..2, NEW x, Lies(e, q, x)' PROVE Lies(e, q, x)
  <2>1. CASE x = Filed(e, q)' /\ x # D!Nothing
    <3>1. CASE q = r.pair
      <4>1. x = r.position
        BY <2>1, <3>1, <1>13
      <4>. QED
        BY <3>1, <4>1, <1>3, <1>14 DEF Lies
    <3>2. CASE q # r.pair
      BY <2>1, <3>2, <1>13 DEF Lies
    <3>. QED
      BY <3>1, <3>2
  <2>2. CASE \E i \in Trusted(e)' : /\ reports'[e][i].kind = "absorb" /\ reports'[e][i].pair = q
                                    /\ reports'[e][i].position = x
    BY <2>2, <1>14 DEF Lies
  <2>. QED
    BY <1>16, <2>1, <2>2 DEF Lies, D!Nothing
<1>17. OneJob(e)'
  <2>1. ready /\ agent[e].peerReady => Doing(e, "apply", <<agent[e].source, agent[e].target>>)'
    <3>1. ready /\ agent[e].peerReady => asked = <<Job("apply", <<new.source, new.target>>)>>
      BY <1>7, <1>10
    <3>2. ready /\ agent[e].peerReady =>
            requests'[e] = <<Job("apply", <<agent'[e].source, agent'[e].target>>)>>
      <4>. HIDE DEF asked, ready
      <4>. QED
        BY <3>1, <1>11, <1>12
    <3>3. running'[e] = D!NoOperation /\ JobReports(e)' = {}
      BY <1>2, <1>6, <1>14 DEF AtRest
    <3>. HIDE DEF ready, asked
    <3>. QED
      BY <3>2, <3>3 DEF Doing, Job
  <2>2. ~(ready /\ agent[e].peerReady) => AtRest(e)'
    BY <1>2, <1>6, <1>7, <1>12, <1>14 DEF AtRest
  <2>3. /\ memory'[e].busy = D!ToSet(running'[e].positions)
        /\ \A p \in memory'[e].busy : memory'[e].at[p] # D!Nothing
    BY <1>1, <1>2 DEF OneJob
  <2>. HIDE DEF ready, asked
  <2>. QED
    BY <1>6, <1>10, <1>11, <1>13, <2>1, <2>2, <2>3 DEF OneJob
<1>18. Measured(e)' <=> Measured(e)
  BY <1>6, <1>10, <1>11 DEF Measured
<1>19. Discarded(e)' <=> Discarded(e)
  BY <1>6, <1>10, <1>11 DEF Discarded
<1>20. Present(e)' => Present(e)
  <2>1. CASE r.pair = 1
    BY <2>1, <1>3 DEF Present
  <2>2. CASE r.pair # 1
    BY <2>2, <1>2, <1>13, <1>14 DEF Present
  <2>. QED
    BY <2>1, <2>2
<1>21. Told(e)'
  <2>1. mail'[e] = mail[e]
    BY <1>1, <1>9, <1>11 DEF RoundTypes
  <2>. QED
    BY <2>1, <1>1, <1>10, <1>11, ToldStays DEF ReadyAt
<1>22. mail'[f] \in Seq(MailSet(f)')
  <2>1. mail[f] \in Seq(MailSet(f)')
    BY <1>1, <1>6, <1>11, MailSetStays DEF Told
  <2>2. sent \in Seq(MailSet(f)')
    <3>1. CASE ready
      <4>1. [type |-> "ready", source |-> a.source] \in MailSet(f)'
        <5>1. a.source \in D!Positions /\ a.source = agent'[e].source /\ ReadyAt(e)'
          BY <3>1, <1>7, <1>10, <1>11, <1>13 DEF AgentSet, D!Positions
        <5>. QED
          BY <5>1, <1>11 DEF MailSet
      <4>. QED
        BY <3>1, <4>1
    <3>2. CASE ~ready
      BY <3>2
    <3>. QED
      BY <3>1, <3>2
  <2>3. mail'[f] = mail[f] \o sent
    BY <1>1, <1>9, <1>11 DEF RoundTypes
  <2>. HIDE DEF sent
  <2>. QED
    BY <2>1, <2>2, <2>3
<1>23. RoundInv'
  <2>1. DOMAIN mail' = D!Ends
    BY <1>1, <1>9 DEF RoundTypes
  <2>2. \A q, x : q \in 1..2 /\ Lies(e, q, x)' => Lies(e, q, x)
    BY <1>16
  <2>. QED
    BY <2>1, <2>2, <1>2, <1>3, <1>6, <1>9, <1>10, <1>11, <1>12, <1>14, <1>15, <1>17, <1>18, <1>19, <1>20,
       <1>21, <1>22, ActKeeps
<1>. QED
  BY <1>9, <1>10, <1>11, <1>23 DEF Layout

(* Where an end stands when the report of its job is read.                 *)
LEMMA ReportedJob ==
  ASSUME NEW e \in D!Ends, RoundInv, reports[e] # <<>>,
         reports' = [reports EXCEPT ![e] = Tail(@)],
         Head(reports[e]).kind \in {"apply", "measure", "discard"}
  PROVE  LET r == Head(reports[e])
             a == agent[e]
         IN  /\ requests[e] = <<>> /\ running[e] = D!NoOperation /\ JobReports(e) = {1}
             /\ JobReports(e)' = {} /\ ReadyAt(e) /\ a.cnotRequested /\ a.peerReady /\ r \in ReportSet
             /\ r.kind = "apply" => ~a.measureRequested /\ a.bit = D!NoBit /\ a.keep = "open"
             /\ r.kind = "measure" => /\ a.measureRequested /\ a.bit = D!NoBit /\ a.keep = "open"
                                      /\ r.bit \in 0..1
             /\ r.kind = "discard" => a.measureRequested /\ a.bit # D!NoBit /\ a.keep = "reject"
<1>. DEFINE r == Head(reports[e])
            a == agent[e]
<1>1. RoundTypes /\ OneJob(e) /\ a \in AgentSet
  BY DEF RoundInv, RoundTypes
<1>2. /\ 1 \in JobReports(e) /\ (JobReports(e) = {1} => JobReports(e)' = {})
      /\ r = reports[e][1] /\ r \in ReportSet
  BY <1>1, ShiftedReports, ReadReports
<1>. HIDE DEF r
<1>3. /\ a.keep # "open" => a.bit # D!NoBit
      /\ a.bit # D!NoBit => a.measureRequested
      /\ a.measureRequested => a.cnotRequested
      /\ a.cnotRequested => ReadyAt(e) /\ a.peerReady
  BY <1>1 DEF OneJob
<1>4. \/ Doing(e, "apply", <<a.source, a.target>>) /\ a.cnotRequested /\ ~a.measureRequested
      \/ Doing(e, "measure", <<a.target>>) /\ a.measureRequested /\ a.bit = D!NoBit
      \/ Doing(e, "discard", <<a.source>>) /\ a.keep = "reject"
  BY <1>1, <1>2, <1>3 DEF OneJob, AgentSet, AtRest
<1>5. /\ requests[e] = <<>> /\ running[e] = D!NoOperation /\ JobReports(e) = {1}
      /\ \/ r.kind = "apply" /\ a.cnotRequested /\ ~a.measureRequested
         \/ r.kind = "measure" /\ r.bit # D!NoBit /\ a.measureRequested /\ a.bit = D!NoBit
         \/ r.kind = "discard" /\ a.keep = "reject"
  BY <1>2, <1>4 DEF Doing
<1>6. r.kind = "measure" => r.bit \in 0..1
  <2>1. r.kind = "measure" => r.bit \in 0..2
    BY <1>2 DEF ReportSet
  <2>. QED
    BY <2>1, <1>5 DEF D!NoBit
<1>7. a.keep \in {"open", "keep", "reject"}
  BY <1>1 DEF AgentSet
<1>. QED
  BY <1>2, <1>3, <1>5, <1>6, <1>7 DEF r

(* The report of a job: what remains to be shown of its handler.           *)
LEMMA ReportActs ==
  ASSUME NEW e \in D!Ends, NEW new \in AgentSet, NEW sent, RoundInv, reports[e] # <<>>,
         reports' = [reports EXCEPT ![e] = Tail(@)],
         Head(reports[e]).kind \in {"apply", "measure", "discard"},
         UNCHANGED <<emitted, flight, memory, delayed, expires, running, joint, gone, expired>>,
         agent' = [agent EXCEPT ![e] = new], mail' = [mail EXCEPT ![D!Peer(e)] = @ \o sent],
         DOMAIN requests' = D!Ends, \A f \in D!Ends : f # e => requests'[f] = requests[f],
         new.source = agent[e].source, new.target = agent[e].target,
         new.peerReady = agent[e].peerReady, new.peerSource = agent[e].peerSource,
         new.peerBit = agent[e].peerBit,
         agent[e].bit # D!NoBit => new.bit = agent[e].bit,
         agent[e].keep = "reject" => new.keep = "reject",
         Measured(e)' <=> Measured(e), Discarded(e)' <=> Discarded(e), OneJob(e)',
         sent \in Seq(MailSet(D!Peer(e))')
  PROVE  RoundInv'
<1>. DEFINE f == D!Peer(e)
<1>1. /\ RoundTypes /\ AbsorbedOnce(e) /\ Told(e) /\ Told(f) /\ f \in D!Ends /\ f # e /\ D!Peer(f) = e
  BY DEF RoundInv, D!Peer, D!Ends
<1>2. agent'[e] = new /\ (\A g \in D!Ends : g # e => agent'[g] = agent[g]) /\ agent'[f] = agent[f]
  BY <1>1 DEF RoundTypes
<1>3. \A q : Filed(e, q)' = Filed(e, q)
  BY <1>2 DEF Filed
<1>4. ReadyAt(e)' <=> ReadyAt(e)
  BY <1>2 DEF ReadyAt
<1>5. /\ AbsorbedOnce(e)'
      /\ Present(e)' => Present(e)
      /\ \A q, x : q \in 1..2 /\ Lies(e, q, x)' => Lies(e, q, x)
  BY <1>1, <1>3, JobReportRead
<1>6. Unexpired(e)' <=> Unexpired(e)
  BY <1>1, ShiftedReports
<1>7. reports'[e] \in Seq(ReportSet) /\ DOMAIN reports' = D!Ends /\ \A g \in D!Ends : g # e => reports'[g] = reports[g]
  BY <1>1, ReadReports
<1>8. mail'[e] = mail[e] /\ mail'[f] = mail[f] \o sent /\ DOMAIN mail' = D!Ends
  BY <1>1 DEF RoundTypes
<1>9. Told(e)'
  BY <1>1, <1>2, <1>8, ToldStays DEF ReadyAt
<1>10. mail'[f] \in Seq(MailSet(f)')
  <2>1. mail[f] \in Seq(MailSet(f)')
    BY <1>1, <1>2, <1>4, MailSetStays DEF Told
  <2>. QED
    BY <2>1, <1>8
<1>11. \A g \in D!Ends : g # e => requests'[g] = requests[g] /\ reports'[g] = reports[g]
  BY <1>7
<1>12. ReadyAt(e) => ReadyAt(e)' /\ new.source = agent[e].source
  BY <1>4
<1>13. mail'[D!Peer(e)] \in Seq(MailSet(D!Peer(e))')
  BY <1>10
<1>. HIDE DEF f
<1>. QED
  BY <1>5, <1>6, <1>7, <1>8, <1>9, <1>11, <1>12, <1>13, ActKeeps

(* What the reading of a report makes of the state, by its outcome.        *)
LEMMA Delivered ==
  ASSUME NEW e \in D!Ends, RoundInv, D!DeliverReport(e)
  PROVE  LET o == D!OnReport(e, Head(reports[e]))
         IN  /\ reports[e] # <<>> /\ reports' = [reports EXCEPT ![e] = Tail(@)]
             /\ UNCHANGED <<emitted, flight, memory, delayed, expires, running, joint, gone, expired>>
             /\ agent' = [agent EXCEPT ![e] = o.agent] /\ agent'[e] = o.agent /\ halted' = o.raised
             /\ mail' = [mail EXCEPT ![D!Peer(e)] = @ \o o.sent]
             /\ requests'[e] = requests[e] \o o.asked /\ DOMAIN requests' = D!Ends
             /\ \A f \in D!Ends : f # e => requests'[f] = requests[f]
<1>. DEFINE o == D!OnReport(e, Head(reports[e]))
<1>1. /\ reports[e] # <<>> /\ reports' = [reports EXCEPT ![e] = Tail(@)]
      /\ UNCHANGED <<emitted, flight, memory, delayed, expires, running, joint, gone, expired>>
      /\ agent' = [agent EXCEPT ![e] = o.agent] /\ halted' = o.raised
      /\ requests' = [requests EXCEPT ![e] = @ \o o.asked]
      /\ mail' = [mail EXCEPT ![D!Peer(e)] = @ \o o.sent]
  BY DEF D!DeliverReport, D!Act
<1>2. DOMAIN requests = D!Ends /\ DOMAIN agent = D!Ends
  BY DEF RoundInv, RoundTypes
<1>. HIDE DEF o
<1>3. /\ requests'[e] = requests[e] \o o.asked /\ DOMAIN requests' = D!Ends
      /\ \A f \in D!Ends : f # e => requests'[f] = requests[f]
  BY <1>1, <1>2
<1>4. agent'[e] = o.agent
  BY <1>1, <1>2
<1>. QED
  BY <1>1, <1>3, <1>4 DEF o

(* The CNOT is done: the measurement is asked for.                         *)
LEMMA OperatorReported ==
  ASSUME NEW e \in D!Ends, RoundInv, D!DeliverReport(e), Head(reports[e]).kind = "apply"
  PROVE  RoundInv' /\ Layout(e) /\ ~halted'
<1>. DEFINE r == Head(reports[e])
            a == agent[e]
            new == [a EXCEPT !.measureRequested = TRUE]
            job == Job("measure", <<a.target>>)
<1>1. /\ reports[e] # <<>> /\ reports' = [reports EXCEPT ![e] = Tail(@)]
      /\ OneJob(e) /\ a \in AgentSet
  BY DEF D!DeliverReport, RoundInv, RoundTypes
<1>2. /\ requests[e] = <<>> /\ running[e] = D!NoOperation /\ JobReports(e)' = {} /\ ReadyAt(e)
      /\ a.cnotRequested /\ a.peerReady /\ ~a.measureRequested /\ a.bit = D!NoBit /\ a.keep = "open"
  BY <1>1, ReportedJob
<1>3. D!OnReport(e, r) = [agent |-> new, sent |-> <<>>, asked |-> <<job>>, raised |-> FALSE]
  <2>1. D!OnReport(e, r) = D!OnOperatorReport(e)
    BY DEF D!OnReport
  <2>. HIDE DEF r
  <2>. QED
    BY <2>1, <1>2 DEF D!OnOperatorReport, D!Outcome, D!Measurement, Job
<1>4. /\ new \in AgentSet /\ new.source = a.source /\ new.target = a.target
      /\ new.peerReady = a.peerReady /\ new.peerSource = a.peerSource
      /\ new.readySent = a.readySent /\ new.cnotRequested = a.cnotRequested
      /\ new.measureRequested = TRUE /\ new.bit = a.bit /\ new.peerBit = a.peerBit
      /\ new.keep = a.keep /\ new.finalLayout = a.finalLayout
  BY <1>1 DEF AgentSet
<1>. HIDE DEF new, job, r
<1>5. /\ UNCHANGED <<emitted, flight, memory, delayed, expires, running, joint, gone, expired>>
      /\ agent' = [agent EXCEPT ![e] = new] /\ ~halted' /\ agent'[e] = new
      /\ mail' = [mail EXCEPT ![D!Peer(e)] = @ \o <<>>]
      /\ requests'[e] = requests[e] \o <<job>> /\ DOMAIN requests' = D!Ends
      /\ \A f \in D!Ends : f # e => requests'[f] = requests[f]
  <2>. DEFINE o == D!OnReport(e, Head(reports[e]))
  <2>1. o.agent = new /\ o.sent = <<>> /\ o.asked = <<job>> /\ o.raised = FALSE
    BY <1>3 DEF r
  <2>. HIDE DEF o
  <2>. QED
    BY <2>1, Delivered DEF o
<1>6. requests'[e] = <<job>>
  BY <1>2, <1>5, SmallSequences
<1>7. OneJob(e)'
  <2>1. Doing(e, "measure", <<agent[e].target>>)'
    BY <1>2, <1>4, <1>5, <1>6 DEF Doing, Job, job
  <2>2. ReadyAt(e)'
    BY <1>2, <1>4, <1>5 DEF ReadyAt
  <2>. QED
    BY <1>1, <1>2, <1>4, <1>5, <2>1, <2>2 DEF OneJob
<1>8. Measured(e)' <=> Measured(e)
  BY <1>2, <1>4, <1>5 DEF Measured
<1>9. Discarded(e)' <=> Discarded(e)
  BY <1>2, <1>4, <1>5 DEF Discarded
<1>10. <<>> \in Seq(MailSet(D!Peer(e))')
  OBVIOUS
<1>11. RoundInv'
  BY <1>1, <1>2, <1>4, <1>5, <1>7, <1>8, <1>9, <1>10, ReportActs
<1>. QED
  BY <1>4, <1>5, <1>11 DEF Layout

(* The half of a rejected pair has been discarded: nothing is left to do.  *)
LEMMA DiscardReported ==
  ASSUME NEW e \in D!Ends, RoundInv, D!DeliverReport(e), Head(reports[e]).kind = "discard"
  PROVE  RoundInv' /\ Layout(e) /\ ~halted'
<1>. DEFINE r == Head(reports[e])
            a == agent[e]
<1>1. /\ reports[e] # <<>> /\ reports' = [reports EXCEPT ![e] = Tail(@)]
      /\ OneJob(e) /\ a \in AgentSet
  BY DEF D!DeliverReport, RoundInv, RoundTypes
<1>2. /\ requests[e] = <<>> /\ running[e] = D!NoOperation /\ JobReports(e)' = {} /\ ReadyAt(e)
      /\ a.cnotRequested /\ a.peerReady /\ a.measureRequested /\ a.bit # D!NoBit /\ a.keep = "reject"
  BY <1>1, ReportedJob
<1>3. D!OnReport(e, r) = [agent |-> a, sent |-> <<>>, asked |-> <<>>, raised |-> FALSE]
  BY DEF D!OnReport, D!Outcome
<1>. HIDE DEF r
<1>5. /\ UNCHANGED <<emitted, flight, memory, delayed, expires, running, joint, gone, expired>>
      /\ agent' = [agent EXCEPT ![e] = a] /\ ~halted' /\ agent'[e] = a
      /\ mail' = [mail EXCEPT ![D!Peer(e)] = @ \o <<>>]
      /\ requests'[e] = requests[e] \o <<>> /\ DOMAIN requests' = D!Ends
      /\ \A f \in D!Ends : f # e => requests'[f] = requests[f]
  <2>. DEFINE o == D!OnReport(e, Head(reports[e]))
  <2>1. o.agent = a /\ o.sent = <<>> /\ o.asked = <<>> /\ o.raised = FALSE
    BY <1>3 DEF r
  <2>. HIDE DEF o
  <2>. QED
    BY <2>1, Delivered DEF o
<1>6. requests'[e] = <<>>
  BY <1>2, <1>5, SmallSequences
<1>7. OneJob(e)'
  <2>1. AtRest(e)'
    BY <1>2, <1>5, <1>6 DEF AtRest
  <2>2. ReadyAt(e)'
    BY <1>2, <1>5 DEF ReadyAt
  <2>. QED
    BY <1>1, <1>2, <1>5, <2>1, <2>2 DEF OneJob
<1>8. Measured(e)' <=> Measured(e)
  BY <1>2, <1>5 DEF Measured
<1>9. Discarded(e)' <=> Discarded(e)
  BY <1>2, <1>5, <1>6 DEF Discarded
<1>10. <<>> \in Seq(MailSet(D!Peer(e))')
  OBVIOUS
<1>11. RoundInv'
  BY <1>1, <1>2, <1>5, <1>7, <1>8, <1>9, <1>10, ReportActs
<1>. QED
  BY <1>5, <1>11 DEF Layout

(* The agent has no case for an expiry.                                    *)
LEMMA ExpiryReported ==
  ASSUME NEW e \in D!Ends, RoundInv, D!DeliverReport(e), Head(reports[e]).kind = "expire"
  PROVE  halted' /\ expired' /\ Layout(e)
<1>. DEFINE r == Head(reports[e])
<1>1. D!OnReport(e, r) = [agent |-> agent[e], sent |-> <<>>, asked |-> <<>>, raised |-> TRUE]
  BY DEF D!OnReport, D!Raise
<1>. HIDE DEF r
<1>2. halted' /\ agent'[e] = agent[e] /\ expired' = expired /\ reports[e] # <<>>
  <2>. DEFINE o == D!OnReport(e, Head(reports[e]))
  <2>1. o.agent = agent[e] /\ o.raised = TRUE
    BY <1>1 DEF r
  <2>. HIDE DEF o
  <2>. QED
    BY <2>1, Delivered DEF o
<1>3. reports[e] \in Seq(ReportSet) /\ (expired \/ Unexpired(e))
  BY DEF RoundInv, RoundTypes
<1>4. 1 \in DOMAIN reports[e] /\ Head(reports[e]) = reports[e][1]
  BY <1>2, <1>3
<1>. QED
  BY <1>2, <1>3, <1>4 DEF Unexpired, Layout

(* The target half has been measured: the peer is told, and the round is   *)
(* decided if the peer's bit is known.                                     *)
LEMMA MeasurementReported ==
  ASSUME NEW e \in D!Ends, RoundInv, D!DeliverReport(e), Head(reports[e]).kind = "measure"
  PROVE  (RoundInv' \/ (halted' /\ expired')) /\ Layout(e) /\ (halted' => expired')
<1>. DEFINE r == Head(reports[e])
            f == D!Peer(e)
            bit == r.bit
            a == [agent[e] EXCEPT !.bit = bit]
            sent == <<[type |-> "target_result", bit |-> bit]>>
            o == D!TryDecide(e, a, sent)
            settled == a.keep # "open" \/ D!NoBit \in {a.bit, a.peerBit}
<1>1. /\ reports[e] # <<>> /\ reports' = [reports EXCEPT ![e] = Tail(@)]
      /\ OneJob(e) /\ agent[e] \in AgentSet /\ Told(e) /\ Told(f) /\ f \in D!Ends /\ f # e /\ D!Peer(f) = e
  BY DEF D!DeliverReport, RoundInv, RoundTypes, D!Peer, D!Ends
<1>2. /\ requests[e] = <<>> /\ running[e] = D!NoOperation /\ JobReports(e) = {1}
      /\ JobReports(e)' = {} /\ ReadyAt(e)
      /\ agent[e].cnotRequested /\ agent[e].peerReady /\ agent[e].measureRequested
      /\ agent[e].bit = D!NoBit /\ agent[e].keep = "open" /\ bit \in 0..1
  BY <1>1, ReportedJob
<1>3. D!OnReport(e, r) = o
  BY DEF D!OnReport, D!OnMeasurementReport, D!TargetResult
<1>. HIDE DEF r, bit
<1>4. /\ a \in AgentSet /\ a.source = agent[e].source /\ a.target = agent[e].target
      /\ a.peerReady = agent[e].peerReady /\ a.peerSource = agent[e].peerSource
      /\ a.readySent = agent[e].readySent /\ a.cnotRequested = agent[e].cnotRequested
      /\ a.measureRequested = agent[e].measureRequested /\ a.bit = bit
      /\ a.peerBit = agent[e].peerBit /\ a.keep = "open" /\ a.finalLayout = agent[e].finalLayout
  <2>1. bit \in 0..2
    BY <1>2
  <2>2. a \in AgentSet
    BY <1>1, <2>1 DEF AgentSet
  <2>. QED
    BY <1>1, <1>2, <2>2 DEF AgentSet
<1>. HIDE DEF a
<1>5. /\ ReadyAt(f) /\ a.peerSource = agent[f].source /\ agent[f].peerBit = D!NoBit
      /\ D!NoBit # a.peerBit => agent[f].bit = a.peerBit
      /\ Measured(e) /\ a.bit # D!NoBit
  BY <1>1, <1>2, <1>4 DEF Told, Measured, D!NoBit
<1>6. \/ settled /\ o = D!Outcome(a, sent, <<>>)
      \/ ~settled /\ a.bit # a.peerBit
           /\ o = D!Outcome([a EXCEPT !.keep = "reject"], sent, <<Job("discard", <<a.source>>)>>)
      \/ ~settled /\ a.bit = a.peerBit /\ \E layout \in {a.finalLayout, SourceLayout} :
           o = D!Outcome([a EXCEPT !.keep = "keep", !.finalLayout = layout], sent, <<>>)
      \/ ~settled /\ a.bit = a.peerBit /\ expired /\ o = D!Raise([a EXCEPT !.keep = "keep"])
  <2>1. a.keep = "open" /\ D!NoBit \notin {a.bit, a.peerBit} =>
           /\ ReadyAt(e) /\ ReadyAt(f) /\ a.peerSource = agent[f].source
           /\ Measured(e) /\ agent[f].bit = a.peerBit
           /\ agent[f].peerBit \in {D!NoBit, a.bit}
    BY <1>2, <1>5
  <2>2. a.keep = agent[e].keep
    BY <1>2, <1>4
  <2>. HIDE DEF sent
  <2>. QED
    BY <1>4, <2>1, <2>2, Decided
<1>7. /\ UNCHANGED <<emitted, flight, memory, delayed, expires, running, joint, gone, expired>>
      /\ agent' = [agent EXCEPT ![e] = o.agent] /\ agent'[e] = o.agent /\ halted' = o.raised
      /\ mail' = [mail EXCEPT ![f] = @ \o o.sent]
      /\ requests'[e] = requests[e] \o o.asked /\ DOMAIN requests' = D!Ends
      /\ \A g \in D!Ends : g # e => requests'[g] = requests[g]
  <2>1. o = D!OnReport(e, Head(reports[e]))
    BY <1>3 DEF r
  <2>. HIDE DEF o
  <2>. QED
    BY <2>1, Delivered
<1>. HIDE DEF o, sent, settled
<1>8. CASE expired /\ o = D!Raise([a EXCEPT !.keep = "keep"])
  BY <1>4, <1>7, <1>8 DEF D!Raise, Layout, AgentSet
<1>9. ASSUME NEW keep \in {"open", "keep", "reject"}, NEW layout \in {a.finalLayout, SourceLayout}, NEW asked,
             o = D!Outcome([a EXCEPT !.keep = keep, !.finalLayout = layout], sent, asked),
             \/ keep # "reject" /\ asked = <<>>
             \/ keep = "reject" /\ asked = <<Job("discard", <<a.source>>)>>
                  /\ a.bit # a.peerBit /\ a.peerBit # D!NoBit
      PROVE  RoundInv' /\ Layout(e) /\ ~halted'
  <2>. DEFINE new == [a EXCEPT !.keep = keep, !.finalLayout = layout]
  <2>1. o.agent = new /\ o.sent = sent /\ o.asked = asked /\ o.raised = FALSE
    BY <1>9 DEF D!Outcome
  <2>2. layout \in SUBSET (D!Ends \X (1..2))
    BY <1>4 DEF AgentSet, SourceLayout, D!SourcePair
  <2>3. /\ new \in AgentSet /\ new.source = a.source /\ new.target = a.target
        /\ new.peerReady = a.peerReady /\ new.peerSource = a.peerSource
        /\ new.readySent = a.readySent /\ new.cnotRequested = a.cnotRequested
        /\ new.measureRequested = a.measureRequested /\ new.bit = a.bit /\ new.peerBit = a.peerBit
        /\ new.keep = keep /\ new.finalLayout = layout
    BY <1>4, <2>2 DEF AgentSet
  <2>. HIDE DEF new
  <2>4. agent' = [agent EXCEPT ![e] = new] /\ agent'[e] = new /\ ~halted' /\ mail' = [mail EXCEPT ![f] = @ \o sent]
    BY <1>7, <2>1
  <2>5. requests'[e] = asked
    <3>1. <<>> \o asked = asked
      BY <1>9, SmallSequences
    <3>. QED
      BY <1>2, <1>7, <2>1, <3>1
  <2>6. OneJob(e)'
    <3>1. ReadyAt(e)'
      BY <1>2, <1>4, <2>3, <2>4 DEF ReadyAt
    <3>2. keep # "reject" => AtRest(e)'
      BY <1>2, <1>7, <1>9, <2>5 DEF AtRest
    <3>3. keep = "reject" => Doing(e, "discard", <<agent[e].source>>)'
      <4>1. keep = "reject" => requests'[e] = <<Job("discard", <<agent'[e].source>>)>>
        BY <1>9, <2>3, <2>4, <2>5
      <4>2. running'[e] = D!NoOperation /\ JobReports(e)' = {}
        BY <1>2, <1>7
      <4>. QED
        BY <4>1, <4>2 DEF Doing, Job
    <3>4. /\ memory'[e].busy = D!ToSet(running'[e].positions)
          /\ \A p \in memory'[e].busy : memory'[e].at[p] # D!Nothing
          /\ agent[e].readySent
      BY <1>1, <1>2, <1>7 DEF OneJob
    <3>5. /\ new.readySent /\ new.cnotRequested /\ new.peerReady /\ new.measureRequested
          /\ new.bit # D!NoBit /\ (keep = "reject" => new.peerBit \notin {new.bit, D!NoBit})
      BY <1>2, <1>4, <1>5, <1>9, <2>3, <3>4
    <3>. QED
      BY <2>3, <2>4, <3>1, <3>2, <3>3, <3>4, <3>5 DEF OneJob
  <2>7. Measured(e)' <=> Measured(e)
    BY <1>2, <1>4, <1>5, <2>3, <2>4 DEF Measured
  <2>8. Discarded(e)' <=> Discarded(e)
    <3>1. keep = "reject" => requests'[e] # <<>>
      BY <1>9, <2>5, SmallSequences
    <3>. QED
      BY <1>2, <2>3, <2>4, <3>1 DEF Discarded
  <2>9. sent \in Seq(MailSet(f)')
    <3>1. [type |-> "target_result", bit |-> bit] \in MailSet(f)'
      BY <1>1, <1>2, <1>4, <2>3, <2>4 DEF MailSet
    <3>. QED
      BY <3>1 DEF sent
  <2>10. agent[e].bit # D!NoBit => new.bit = agent[e].bit
    BY <1>2
  <2>11. /\ new.source = agent[e].source /\ new.target = agent[e].target
         /\ new.peerReady = agent[e].peerReady /\ new.peerSource = agent[e].peerSource
         /\ new.peerBit = agent[e].peerBit /\ (agent[e].keep = "reject" => new.keep = "reject")
    BY <1>2, <1>4, <2>3
  <2>12. RoundInv'
    BY <1>1, <1>7, <2>3, <2>4, <2>6, <2>7, <2>8, <2>9, <2>10, <2>11, ReportActs
  <2>. QED
    BY <1>4, <2>3, <2>4, <2>12 DEF Layout
<1>10. CASE settled /\ o = D!Outcome(a, sent, <<>>)
  <2>1. a = [a EXCEPT !.keep = "open", !.finalLayout = a.finalLayout]
    BY <1>4 DEF AgentSet
  <2>2. o = D!Outcome([a EXCEPT !.keep = "open", !.finalLayout = a.finalLayout], sent, <<>>)
    BY <1>10, <2>1
  <2>. QED
    BY <2>2, <1>9
<1>11. CASE ~settled /\ a.bit # a.peerBit
            /\ o = D!Outcome([a EXCEPT !.keep = "reject"], sent, <<Job("discard", <<a.source>>)>>)
  <2>1. [a EXCEPT !.keep = "reject"] = [a EXCEPT !.keep = "reject", !.finalLayout = a.finalLayout]
    BY <1>4 DEF AgentSet
  <2>2. o = D!Outcome([a EXCEPT !.keep = "reject", !.finalLayout = a.finalLayout], sent,
                      <<Job("discard", <<a.source>>)>>)
    BY <1>11, <2>1
  <2>3. a.bit # a.peerBit /\ a.peerBit # D!NoBit
    BY <1>11 DEF settled
  <2>. QED
    BY <2>2, <2>3, <1>9
<1>12. CASE \E layout \in {a.finalLayout, SourceLayout} :
              o = D!Outcome([a EXCEPT !.keep = "keep", !.finalLayout = layout], sent, <<>>)
  BY <1>12, <1>9
<1>. QED
  BY <1>6, <1>8, <1>10, <1>11, <1>12

(* What the reading of a message makes of the state, by its outcome.       *)
LEMMA MailRead ==
  ASSUME NEW e \in D!Ends, RoundInv, D!DeliverMessage(e)
  PROVE  LET o == D!OnMessage(e, Head(mail[e]))
             f == D!Peer(e)
         IN  /\ Head(mail[e]) \in MailSet(e) /\ mail'[e] \in Seq(MailSet(e)) /\ DOMAIN mail' = D!Ends
             /\ mail'[f] = mail[f] \o o.sent
             /\ UNCHANGED <<emitted, flight, memory, delayed, expires, running, joint, gone, expired, reports>>
             /\ agent' = [agent EXCEPT ![e] = o.agent] /\ agent'[e] = o.agent /\ halted' = o.raised
             /\ requests'[e] = requests[e] \o o.asked /\ DOMAIN requests' = D!Ends
             /\ \A g \in D!Ends : g # e => requests'[g] = requests[g]
<1>. DEFINE o == D!OnMessage(e, Head(mail[e]))
            f == D!Peer(e)
<1>1. /\ mail[e] # <<>> /\ mail' = [mail EXCEPT ![e] = Tail(@), ![f] = @ \o o.sent]
      /\ UNCHANGED <<emitted, flight, memory, delayed, expires, running, joint, gone, expired, reports>>
      /\ agent' = [agent EXCEPT ![e] = o.agent] /\ halted' = o.raised
      /\ requests' = [requests EXCEPT ![e] = @ \o o.asked]
  BY DEF D!DeliverMessage, D!Act
<1>2. /\ DOMAIN requests = D!Ends /\ DOMAIN agent = D!Ends /\ DOMAIN mail = D!Ends
      /\ mail[e] \in Seq(MailSet(e)) /\ f \in D!Ends /\ f # e
  BY DEF RoundInv, RoundTypes, Told, D!Peer, D!Ends
<1>. HIDE DEF o, f
<1>3. mail'[e] = Tail(mail[e]) /\ mail'[f] = mail[f] \o o.sent /\ DOMAIN mail' = D!Ends
  BY <1>1, <1>2
<1>4. Head(mail[e]) \in MailSet(e) /\ mail'[e] \in Seq(MailSet(e))
  <2>1. ASSUME NEW S, NEW s \in Seq(S), s # <<>> PROVE Head(s) \in S /\ Tail(s) \in Seq(S)
    BY <2>1
  <2>2. Head(mail[e]) \in MailSet(e) /\ Tail(mail[e]) \in Seq(MailSet(e))
    BY <2>1, <1>1, <1>2
  <2>. QED
    BY <2>2, <1>3
<1>5. /\ requests'[e] = requests[e] \o o.asked /\ DOMAIN requests' = D!Ends
      /\ \A g \in D!Ends : g # e => requests'[g] = requests[g]
  BY <1>1, <1>2
<1>6. agent'[e] = o.agent
  BY <1>1, <1>2
<1>. QED
  BY <1>1, <1>3, <1>4, <1>5, <1>6 DEF o, f

(* A message: what remains to be shown of its handler.                     *)
LEMMA MessageActs ==
  ASSUME NEW e \in D!Ends, NEW new \in AgentSet, RoundInv,
         UNCHANGED <<emitted, flight, memory, delayed, expires, running, joint, gone, expired, reports>>,
         agent' = [agent EXCEPT ![e] = new], DOMAIN requests' = D!Ends,
         \A f \in D!Ends : f # e => requests'[f] = requests[f],
         mail'[e] \in Seq(MailSet(e)), DOMAIN mail' = D!Ends, mail'[D!Peer(e)] = mail[D!Peer(e)],
         new.source = agent[e].source, new.target = agent[e].target, new.bit = agent[e].bit,
         new.measureRequested = agent[e].measureRequested,
         agent[e].keep = "reject" => new.keep = "reject",
         new.peerReady => ReadyAt(D!Peer(e)) /\ new.peerSource = agent[D!Peer(e)].source,
         new.peerBit \in {D!NoBit, agent[D!Peer(e)].bit},
         Discarded(e)' <=> Discarded(e), OneJob(e)'
  PROVE  RoundInv'
<1>. DEFINE f == D!Peer(e)
<1>1. /\ RoundTypes /\ AbsorbedOnce(e) /\ Told(e) /\ Told(f) /\ f \in D!Ends /\ f # e /\ D!Peer(f) = e
  BY DEF RoundInv, D!Peer, D!Ends
<1>2. agent'[e] = new /\ (\A g \in D!Ends : g # e => agent'[g] = agent[g]) /\ agent'[f] = agent[f]
  BY <1>1 DEF RoundTypes
<1>3. \A q : Filed(e, q)' = Filed(e, q)
  BY <1>2 DEF Filed
<1>4. (ReadyAt(e)' <=> ReadyAt(e)) /\ (ReadyAt(f)' <=> ReadyAt(f))
  BY <1>2 DEF ReadyAt
<1>5. /\ Trusted(e)' = Trusted(e) /\ JobReports(e)' = JobReports(e)
      /\ Unexpired(e)' <=> Unexpired(e)
  BY DEF Trusted, JobReports, Unexpired
<1>6. AbsorbedOnce(e)'
  BY <1>1, <1>3 DEF AbsorbedOnce
<1>7. \A q, x : q \in 1..2 /\ Lies(e, q, x)' => Lies(e, q, x)
  BY <1>3, <1>5 DEF Lies
<1>8. Present(e)' <=> Present(e)
  BY <1>3 DEF Present
<1>9. Measured(e)' <=> Measured(e)
  BY <1>2, <1>5 DEF Measured
<1>10. Told(e)'
  <2>1. Seq(MailSet(e)) \subseteq Seq(MailSet(e)')
    BY <1>1, <1>2, <1>4, MailSetStays
  <2>. QED
    BY <2>1, <1>1, <1>2, <1>4 DEF Told
<1>11. mail'[D!Peer(e)] \in Seq(MailSet(D!Peer(e))')
  BY <1>1, <1>2, <1>4, MailSetStays DEF Told
<1>12. \A g \in D!Ends : g # e => requests'[g] = requests[g] /\ reports'[g] = reports[g]
  OBVIOUS
<1>13. /\ reports'[e] \in Seq(ReportSet) /\ DOMAIN reports' = D!Ends
       /\ ReadyAt(e) => ReadyAt(e)' /\ new.source = agent[e].source
  BY <1>1, <1>4 DEF RoundTypes
<1>. HIDE DEF f
<1>. QED
  BY <1>5, <1>6, <1>7, <1>8, <1>9, <1>10, <1>11, <1>12, <1>13, ActKeeps

(* OneJob, if the agent's job and its end's memory are as they were.       *)
LEMMA OneJobKept ==
  ASSUME NEW e \in D!Ends, OneJob(e), requests'[e] = requests[e],
         UNCHANGED <<memory, running, reports>>,
         agent'[e].source = agent[e].source, agent'[e].target = agent[e].target,
         agent[e].peerReady => agent'[e].peerReady, agent'[e].readySent = agent[e].readySent,
         agent'[e].cnotRequested = agent[e].cnotRequested,
         agent'[e].measureRequested = agent[e].measureRequested, agent'[e].bit = agent[e].bit,
         agent'[e].keep = agent[e].keep \/ (agent'[e].keep = "keep" /\ agent[e].keep = "open" /\ agent[e].bit # D!NoBit),
         agent[e].keep = "reject" => agent'[e].peerBit = agent[e].peerBit
  PROVE  OneJob(e)'
<1>1. (ReadyAt(e)' <=> ReadyAt(e)) /\ JobReports(e)' = JobReports(e)
  BY DEF ReadyAt, JobReports
<1>2. \A op, positions : Doing(e, op, positions)' <=> Doing(e, op, positions)
  BY <1>1 DEF Doing
<1>3. AtRest(e)' <=> AtRest(e)
  BY <1>1 DEF AtRest
<1>. QED
  BY <1>1, <1>2, <1>3 DEF OneJob

(* The peer has both halves: the CNOT is asked for, if this end has both.  *)
LEMMA ReadyArrived ==
  ASSUME NEW e \in D!Ends, RoundInv, D!DeliverMessage(e), Head(mail[e]).type = "ready"
  PROVE  RoundInv' /\ Layout(e) /\ ~halted'
<1>. DEFINE m == Head(mail[e])
            f == D!Peer(e)
            a == [agent[e] EXCEPT !.peerReady = TRUE, !.peerSource = m.source]
            starts == ReadyAt(e) /\ ~agent[e].cnotRequested
            o == D!OnMessage(e, m)
            new == [a EXCEPT !.cnotRequested = starts \/ agent[e].cnotRequested]
            job == Job("apply", <<agent[e].source, agent[e].target>>)
<1>1. /\ m \in MailSet(e) /\ mail'[e] \in Seq(MailSet(e)) /\ DOMAIN mail' = D!Ends
      /\ mail'[f] = mail[f] \o o.sent
      /\ UNCHANGED <<emitted, flight, memory, delayed, expires, running, joint, gone, expired, reports>>
      /\ agent' = [agent EXCEPT ![e] = o.agent] /\ agent'[e] = o.agent /\ halted' = o.raised
      /\ requests'[e] = requests[e] \o o.asked /\ DOMAIN requests' = D!Ends
      /\ \A g \in D!Ends : g # e => requests'[g] = requests[g]
  BY MailRead
<1>2. /\ RoundTypes /\ OneJob(e) /\ agent[e] \in AgentSet /\ Told(e) /\ Told(f) /\ f \in D!Ends /\ f # e
      /\ D!Peer(f) = e
  BY DEF RoundInv, RoundTypes, D!Peer, D!Ends
<1>3. /\ m.source \in D!Positions /\ ReadyAt(f) /\ m.source = agent[f].source
  BY <1>1 DEF MailSet
<1>4. D!OnMessage(e, m) = D!TryStartCnot(a, <<>>)
  BY DEF D!OnMessage, D!OnReady
<1>. HIDE DEF m
<1>5. /\ a \in AgentSet /\ a.source = agent[e].source /\ a.target = agent[e].target
      /\ a.peerReady = TRUE /\ a.peerSource = m.source
      /\ a.readySent = agent[e].readySent /\ a.cnotRequested = agent[e].cnotRequested
      /\ a.measureRequested = agent[e].measureRequested /\ a.bit = agent[e].bit
      /\ a.peerBit = agent[e].peerBit /\ a.keep = agent[e].keep /\ a.finalLayout = agent[e].finalLayout
  <2>1. m.source \in 0..2
    BY <1>3 DEF D!Positions
  <2>. QED
    BY <1>2, <2>1 DEF AgentSet
<1>. HIDE DEF a
<1>6. starts \in BOOLEAN /\ agent[e].cnotRequested \in BOOLEAN
  BY <1>2 DEF AgentSet, ReadyAt
<1>7. D!StartsCnot(a) <=> starts
  BY <1>5 DEF D!StartsCnot, D!LocallyReady, ReadyAt
<1>8. /\ new \in AgentSet /\ new.source = agent[e].source /\ new.target = agent[e].target
      /\ new.peerReady = TRUE /\ new.peerSource = m.source
      /\ new.readySent = agent[e].readySent
      /\ new.cnotRequested = (starts \/ agent[e].cnotRequested)
      /\ new.measureRequested = agent[e].measureRequested /\ new.bit = agent[e].bit
      /\ new.peerBit = agent[e].peerBit /\ new.keep = agent[e].keep /\ new.finalLayout = agent[e].finalLayout
  BY <1>5, <1>6 DEF AgentSet
<1>9. o = D!Outcome(new, <<>>, IF starts THEN <<job>> ELSE <<>>)
  <2>1. CASE starts
    <3>1. new = [a EXCEPT !.cnotRequested = TRUE]
      BY <2>1
    <3>. HIDE DEF new, starts
    <3>. QED
      BY <2>1, <3>1, <1>4, <1>5, <1>7 DEF D!TryStartCnot, Job
  <2>2. CASE ~starts
    <3>1. new = a
      BY <2>2, <1>5 DEF AgentSet
    <3>. HIDE DEF new, starts
    <3>. QED
      BY <2>2, <3>1, <1>4, <1>7 DEF D!TryStartCnot
  <2>. QED
    BY <2>1, <2>2
<1>. HIDE DEF new, o
<1>10. /\ o.agent = new /\ o.sent = <<>> /\ o.raised = FALSE
       /\ o.asked = IF starts THEN <<job>> ELSE <<>>
  BY <1>9 DEF D!Outcome
<1>11. agent' = [agent EXCEPT ![e] = new] /\ agent'[e] = new /\ ~halted' /\ mail'[f] = mail[f]
  <2>1. mail[f] \o <<>> = mail[f]
    BY <1>2 DEF Told
  <2>. QED
    BY <2>1, <1>1, <1>10
<1>12. CASE starts
  <2>1. /\ AtRest(e) /\ ~agent[e].measureRequested /\ agent[e].bit = D!NoBit /\ agent[e].keep = "open"
    BY <1>2, <1>12 DEF OneJob, AgentSet
  <2>2. requests'[e] = <<job>>
    BY <1>1, <1>10, <1>12, <2>1, SmallSequences DEF AtRest
  <2>3. OneJob(e)'
    <3>1. ReadyAt(e)'
      BY <1>8, <1>11, <1>12 DEF ReadyAt
    <3>2. Doing(e, "apply", <<agent[e].source, agent[e].target>>)'
      <4>1. requests'[e] = <<Job("apply", <<agent'[e].source, agent'[e].target>>)>>
        BY <1>8, <1>11, <2>2
      <4>2. running'[e] = D!NoOperation /\ JobReports(e)' = {}
        BY <1>1, <2>1 DEF AtRest, JobReports
      <4>. QED
        BY <4>1, <4>2 DEF Doing, Job
    <3>3. /\ memory'[e].busy = D!ToSet(running'[e].positions)
          /\ \A p \in memory'[e].busy : memory'[e].at[p] # D!Nothing
          /\ agent[e].readySent
      BY <1>1, <1>2, <1>12 DEF OneJob
    <3>. QED
      BY <1>8, <1>11, <1>12, <2>1, <3>1, <3>2, <3>3 DEF OneJob
  <2>4. Discarded(e)' <=> Discarded(e)
    BY <1>8, <1>11, <2>1 DEF Discarded
  <2>5. /\ new.peerReady => ReadyAt(f) /\ new.peerSource = agent[f].source
        /\ new.peerBit \in {D!NoBit, agent[f].bit}
    BY <1>2, <1>3, <1>8 DEF Told
  <2>6. RoundInv'
    BY <1>1, <1>8, <1>11, <2>3, <2>4, <2>5, MessageActs
  <2>. QED
    BY <1>8, <1>11, <2>6 DEF Layout
<1>13. CASE ~starts
  <2>2. requests'[e] = requests[e]
    <3>1. requests[e] \o <<>> = requests[e]
      <4>1. \/ requests[e] = <<>> \/ \E x : requests[e] = <<x>>
        BY <1>2, CurrentJob
      <4>. QED
        BY <4>1, SmallSequences
    <3>. QED
      BY <1>1, <1>10, <1>13, <3>1
  <2>3. OneJob(e)'
    <3>1. (starts \/ agent[e].cnotRequested) = agent[e].cnotRequested
      BY <1>6, <1>13
    <3>2. agent'[e].cnotRequested = agent[e].cnotRequested
      BY <1>8, <1>11, <3>1
    <3>. QED
      BY <1>1, <1>2, <1>8, <1>11, <2>2, <3>2, OneJobKept
  <2>4. Discarded(e)' <=> Discarded(e)
    BY <1>8, <1>11, <2>2 DEF Discarded
  <2>5. /\ new.peerReady => ReadyAt(f) /\ new.peerSource = agent[f].source
        /\ new.peerBit \in {D!NoBit, agent[f].bit}
    BY <1>2, <1>3, <1>8 DEF Told
  <2>6. RoundInv'
    BY <1>1, <1>8, <1>11, <2>3, <2>4, <2>5, MessageActs
  <2>. QED
    BY <1>8, <1>11, <2>6 DEF Layout
<1>. QED
  BY <1>12, <1>13

(* The peer's bit is known: the round is decided if this end's bit is too. *)
LEMMA ResultArrived ==
  ASSUME NEW e \in D!Ends, RoundInv, D!DeliverMessage(e), Head(mail[e]).type = "target_result"
  PROVE  (RoundInv' \/ (halted' /\ expired')) /\ Layout(e) /\ (halted' => expired')
<1>. DEFINE m == Head(mail[e])
            f == D!Peer(e)
            bit == m.bit
            a == [agent[e] EXCEPT !.peerBit = bit]
            o == D!TryDecide(e, a, <<>>)
            settled == a.keep # "open" \/ D!NoBit \in {a.bit, a.peerBit}
<1>1. /\ m \in MailSet(e) /\ mail'[e] \in Seq(MailSet(e)) /\ DOMAIN mail' = D!Ends
      /\ UNCHANGED <<emitted, flight, memory, delayed, expires, running, joint, gone, expired, reports>>
      /\ DOMAIN requests' = D!Ends
      /\ \A g \in D!Ends : g # e => requests'[g] = requests[g]
  BY MailRead
<1>2. /\ RoundTypes /\ OneJob(e) /\ OneJob(f) /\ agent[e] \in AgentSet /\ Told(e) /\ Told(f) /\ f \in D!Ends
      /\ f # e /\ D!Peer(f) = e
  BY DEF RoundInv, RoundTypes, D!Peer, D!Ends
<1>3. bit \in 0..1 /\ bit = agent[f].bit
  BY <1>1 DEF MailSet
<1>4. D!OnMessage(e, m) = o
  BY DEF D!OnMessage, D!OnTargetResult
<1>5. /\ agent' = [agent EXCEPT ![e] = o.agent] /\ agent'[e] = o.agent /\ halted' = o.raised
      /\ mail'[f] = mail[f] \o o.sent /\ requests'[e] = requests[e] \o o.asked
  <2>. HIDE DEF o
  <2>. QED
    BY <1>4, MailRead
<1>. HIDE DEF m, bit
<1>6. /\ a \in AgentSet /\ a.source = agent[e].source /\ a.target = agent[e].target
      /\ a.peerReady = agent[e].peerReady /\ a.peerSource = agent[e].peerSource
      /\ a.readySent = agent[e].readySent /\ a.cnotRequested = agent[e].cnotRequested
      /\ a.measureRequested = agent[e].measureRequested /\ a.bit = agent[e].bit
      /\ a.peerBit = bit /\ a.keep = agent[e].keep /\ a.finalLayout = agent[e].finalLayout
  <2>1. bit \in 0..2
    BY <1>3
  <2>. QED
    BY <1>2, <2>1 DEF AgentSet
<1>. HIDE DEF a
<1>7. agent[e].bit # D!NoBit =>
        /\ agent[e].measureRequested /\ agent[e].cnotRequested /\ agent[e].peerReady /\ Measured(e)
        /\ ReadyAt(e) /\ ReadyAt(f) /\ agent[e].peerSource = agent[f].source
        /\ agent[f].peerBit \in {D!NoBit, agent[e].bit}
        /\ agent[e].keep # "reject" => AtRest(e)
  BY <1>2 DEF OneJob, Told, Measured
<1>8. agent[e].keep = "reject" => a.peerBit = agent[e].peerBit
  BY <1>2, <1>3, <1>6 DEF Told, OneJob
<1>9. \/ settled /\ o = D!Outcome(a, <<>>, <<>>)
      \/ ~settled /\ a.bit # a.peerBit
           /\ o = D!Outcome([a EXCEPT !.keep = "reject"], <<>>, <<Job("discard", <<a.source>>)>>)
      \/ ~settled /\ a.bit = a.peerBit /\ \E layout \in {a.finalLayout, SourceLayout} :
           o = D!Outcome([a EXCEPT !.keep = "keep", !.finalLayout = layout], <<>>, <<>>)
      \/ ~settled /\ a.bit = a.peerBit /\ expired /\ o = D!Raise([a EXCEPT !.keep = "keep"])
  <2>1. a.keep = "open" /\ D!NoBit \notin {a.bit, a.peerBit} =>
           /\ ReadyAt(e) /\ ReadyAt(f) /\ a.peerSource = agent[f].source
           /\ Measured(e) /\ agent[f].bit = a.peerBit
           /\ agent[f].peerBit \in {D!NoBit, a.bit}
    BY <1>3, <1>6, <1>7
  <2>. QED
    BY <1>6, <2>1, Decided
<1>10. CASE expired /\ o = D!Raise([a EXCEPT !.keep = "keep"])
  BY <1>1, <1>5, <1>6, <1>10 DEF D!Raise, Layout, AgentSet
<1>. HIDE DEF o
(* A decision, or none: what it keeps, where it is recorded, what it asks. *)
<1>11. ASSUME NEW keep \in {"open", "keep", "reject"}, NEW layout \in {a.finalLayout, SourceLayout}, NEW asked,
              o = D!Outcome([a EXCEPT !.keep = keep, !.finalLayout = layout], <<>>, asked),
              \/ asked = <<>> /\ \/ keep = agent[e].keep
                                 \/ keep = "keep" /\ agent[e].keep = "open" /\ agent[e].bit # D!NoBit
              \/ /\ keep = "reject" /\ asked = <<Job("discard", <<a.source>>)>> /\ a.bit # a.peerBit
                 /\ agent[e].keep = "open" /\ agent[e].bit # D!NoBit
       PROVE  RoundInv' /\ Layout(e) /\ ~halted'
  <2>. DEFINE new == [a EXCEPT !.keep = keep, !.finalLayout = layout]
  <2>1. o.agent = new /\ o.sent = <<>> /\ o.asked = asked /\ o.raised = FALSE
    BY <1>11 DEF D!Outcome
  <2>2. layout \in SUBSET (D!Ends \X (1..2))
    BY <1>6 DEF AgentSet, SourceLayout, D!SourcePair
  <2>3. /\ new \in AgentSet /\ new.source = agent[e].source /\ new.target = agent[e].target
        /\ new.peerReady = agent[e].peerReady /\ new.peerSource = agent[e].peerSource
        /\ new.readySent = agent[e].readySent /\ new.cnotRequested = agent[e].cnotRequested
        /\ new.measureRequested = agent[e].measureRequested /\ new.bit = agent[e].bit
        /\ new.peerBit = bit /\ new.keep = keep /\ new.finalLayout = layout
    BY <1>6, <2>2 DEF AgentSet
  <2>. HIDE DEF new
  <2>4. agent' = [agent EXCEPT ![e] = new] /\ agent'[e] = new /\ ~halted' /\ mail'[f] = mail[f]
    <3>1. mail[f] \o <<>> = mail[f]
      BY <1>2 DEF Told
    <3>. QED
      BY <3>1, <1>5, <2>1
  <2>5. OneJob(e)' /\ (Discarded(e)' <=> Discarded(e))
    <3>1. CASE asked = <<>>
      <4>1. requests'[e] = requests[e]
        <5>1. \/ requests[e] = <<>> \/ \E x : requests[e] = <<x>>
          BY <1>2, CurrentJob
        <5>. QED
          BY <5>1, <3>1, <1>5, <2>1, SmallSequences
      <4>2. \/ keep = agent[e].keep
            \/ keep = "keep" /\ agent[e].keep = "open" /\ agent[e].bit # D!NoBit
        BY <1>11, <3>1, SmallSequences
      <4>3. Discarded(e)' <=> Discarded(e)
        BY <2>3, <2>4, <4>1, <4>2 DEF Discarded
      <4>4. agent[e].keep = "reject" => agent'[e].peerBit = agent[e].peerBit
        BY <1>6, <1>8, <2>3, <2>4
      <4>5. OneJob(e)'
        BY <1>1, <1>2, <2>3, <2>4, <4>1, <4>2, <4>4, OneJobKept
      <4>. QED
        BY <4>3, <4>5
    <3>2. CASE asked # <<>>
      <4>1. /\ keep = "reject" /\ asked = <<Job("discard", <<a.source>>)>> /\ a.bit # a.peerBit
            /\ agent[e].keep = "open" /\ agent[e].bit # D!NoBit
        BY <1>11, <3>2
      <4>2. AtRest(e) /\ ReadyAt(e)
        BY <1>7, <4>1
      <4>3. requests'[e] = <<Job("discard", <<agent'[e].source>>)>>
        <5>1. requests'[e] = asked
          BY <4>1, <4>2, <1>5, <2>1, SmallSequences DEF AtRest
        <5>. QED
          BY <5>1, <4>1, <1>6, <2>3, <2>4
      <4>4. running'[e] = D!NoOperation /\ JobReports(e)' = {}
        BY <4>2, <1>1 DEF AtRest, JobReports
      <4>5. Doing(e, "discard", <<agent[e].source>>)'
        BY <4>3, <4>4 DEF Doing, Job
      <4>6. ReadyAt(e)'
        BY <4>2, <2>3, <2>4 DEF ReadyAt
      <4>7. /\ memory'[e].busy = D!ToSet(running'[e].positions)
            /\ \A p \in memory'[e].busy : memory'[e].at[p] # D!Nothing
            /\ agent[e].readySent
        BY <1>1, <1>2, <4>2 DEF OneJob
      <4>8. /\ new.readySent /\ new.cnotRequested /\ new.peerReady /\ new.measureRequested
            /\ new.bit # D!NoBit /\ new.peerBit \notin {new.bit, D!NoBit}
        BY <1>3, <1>6, <1>7, <2>3, <4>1, <4>7 DEF D!NoBit
      <4>9. OneJob(e)'
        BY <2>3, <2>4, <4>1, <4>5, <4>6, <4>7, <4>8 DEF OneJob
      <4>10. Discarded(e)' <=> Discarded(e)
        BY <4>1, <4>3, SmallSequences DEF Discarded
      <4>. QED
        BY <4>9, <4>10
    <3>. QED
      BY <3>1, <3>2
  <2>6. /\ new.peerReady => ReadyAt(f) /\ new.peerSource = agent[f].source
        /\ new.peerBit \in {D!NoBit, agent[f].bit}
    BY <1>2, <1>3, <2>3 DEF Told
  <2>7. agent[e].keep = "reject" => new.keep = "reject"
    BY <1>11, <2>3
  <2>8. RoundInv'
    BY <1>1, <2>3, <2>4, <2>5, <2>6, <2>7, MessageActs
  <2>. QED
    BY <1>6, <2>3, <2>4, <2>8 DEF Layout
<1>12. CASE settled /\ o = D!Outcome(a, <<>>, <<>>)
  <2>1. a = [a EXCEPT !.keep = agent[e].keep, !.finalLayout = a.finalLayout]
    BY <1>6 DEF AgentSet
  <2>2. o = D!Outcome([a EXCEPT !.keep = agent[e].keep, !.finalLayout = a.finalLayout], <<>>, <<>>)
    BY <1>12, <2>1
  <2>3. agent[e].keep \in {"open", "keep", "reject"}
    BY <1>2 DEF AgentSet
  <2>. QED
    BY <2>2, <2>3, <1>11
<1>13. CASE ~settled /\ a.bit # a.peerBit
            /\ o = D!Outcome([a EXCEPT !.keep = "reject"], <<>>, <<Job("discard", <<a.source>>)>>)
  <2>1. [a EXCEPT !.keep = "reject"] = [a EXCEPT !.keep = "reject", !.finalLayout = a.finalLayout]
    BY <1>6 DEF AgentSet
  <2>2. o = D!Outcome([a EXCEPT !.keep = "reject", !.finalLayout = a.finalLayout], <<>>,
                      <<Job("discard", <<a.source>>)>>)
    BY <1>13, <2>1
  <2>3. agent[e].keep = "open" /\ agent[e].bit # D!NoBit /\ a.bit # a.peerBit
    BY <1>6, <1>13
  <2>. QED
    BY <2>2, <2>3, <1>11
<1>14. CASE ~settled /\ \E layout \in {a.finalLayout, SourceLayout} :
              o = D!Outcome([a EXCEPT !.keep = "keep", !.finalLayout = layout], <<>>, <<>>)
  <2>1. agent[e].keep = "open" /\ agent[e].bit # D!NoBit
    BY <1>6, <1>14
  <2>. QED
    BY <2>1, <1>14, <1>11
<1>. QED
  BY <1>9, <1>10, <1>12, <1>13, <1>14

(* The round, with what an exception leaves.                               *)
Sound == (~halted => RoundInv) /\ D!KeptIsTheSourcePair /\ D!RaisesOnlyAfterExpiry

(* Every step of the round keeps the invariant, and the two promises.      *)
LEMMA RoundStepKeeps == Sound /\ [D!Next]_(D!vars) => Sound'
<1>. SUFFICES ASSUME Sound, [D!Next]_(D!vars) PROVE Sound'
  OBVIOUS
<1>1. CASE UNCHANGED D!vars
  <2>1. UNCHANGED <<emitted, flight, memory, delayed, expires, requests, running, reports,
                    mail, agent, joint, gone, expired, halted>>
    BY <1>1 DEF D!vars
  <2>2. RoundInv => RoundInv'
    <3>. SUFFICES ASSUME RoundInv PROVE RoundInv'
      OBVIOUS
    <3>1. RoundTypes'
      BY <2>1 DEF RoundInv, RoundTypes
    <3>2. Together'
      BY <2>1 DEF RoundInv, Together, Present, Filed
    <3>3. ASSUME NEW e \in D!Ends
          PROVE  EndInv(e)' /\ Told(e)' /\ Gone(e)' /\ (expired' \/ Unexpired(e)')
      <4>1. EndInv(e) /\ Told(e) /\ Gone(e) /\ (expired \/ Unexpired(e))
        BY DEF RoundInv, EndInv
      <4>2. Told(e)'
        BY <2>1, <4>1, ToldStays DEF ReadyAt
      <4>. QED
        BY <2>1, <4>1, <4>2, SameEnd, OtherEnd DEF Gone
    <3>. QED
      BY <3>1, <3>2, <3>3 DEF RoundInv, EndInv
  <2>. QED
    BY <2>1, <2>2 DEF Sound, D!KeptIsTheSourcePair, D!RaisesOnlyAfterExpiry
<1>2. CASE D!Next
  <2>1. ~halted /\ RoundInv /\ D!KeptIsTheSourcePair
    BY <1>2 DEF D!Next, Sound
  <2>. SUFFICES /\ RoundInv' \/ (halted' /\ expired')
                /\ halted' => expired'
                /\ agent'["alice"].finalLayout \in {agent["alice"].finalLayout, SourceLayout}
    BY <2>1 DEF Sound, D!KeptIsTheSourcePair, D!RaisesOnlyAfterExpiry, D!Coordinator, SourceLayout
  <2>2. CASE D!Emit
    BY <2>1, <2>2, EmitKeeps DEF D!Emit
  <2>3. ASSUME NEW e \in D!Ends, D!Lose(e) \/ D!Absorb(e) \/ D!Complete(e) \/ D!Expire(e)
        PROVE  RoundInv' /\ ~halted' /\ agent' = agent
    <3>1. CASE D!Lose(e)
      BY <2>1, <3>1, LoseKeeps DEF D!Lose
    <3>2. CASE D!Absorb(e)
      <4>1. halted' = halted /\ agent' = agent
        BY <3>2 DEF D!Absorb
      <4>. QED
        BY <2>1, <3>2, <4>1, AbsorbKeeps
    <3>3. CASE D!Complete(e)
      BY <2>1, <3>3, CompleteKeeps DEF D!Complete
    <3>4. CASE D!Expire(e)
      BY <2>1, <3>4, ExpireKeeps DEF D!Expire
    <3>. QED
      BY <2>3, <3>1, <3>2, <3>3, <3>4
  <2>4. ASSUME NEW e \in D!Ends, D!HandleRequest(e)
        PROVE  (RoundInv' \/ (halted' /\ expired')) /\ (halted' => expired') /\ agent' = agent
    BY <2>1, <2>4, RequestKeeps DEF D!HandleRequest
  <2>5. ASSUME NEW e \in D!Ends, D!DeliverReport(e) \/ D!DeliverMessage(e)
        PROVE  /\ RoundInv' \/ (halted' /\ expired')
               /\ halted' => expired'
               /\ Layout(e) /\ \A f \in D!Ends : f # e => agent'[f] = agent[f]
    <3>1. \A f \in D!Ends : f # e => agent'[f] = agent[f]
      <4>1. PICK x : agent' = [agent EXCEPT ![e] = x]
        BY <2>5 DEF D!DeliverReport, D!DeliverMessage, D!Act
      <4>2. DOMAIN agent = D!Ends
        BY <2>1 DEF RoundInv, RoundTypes
      <4>. QED
        BY <4>1, <4>2
    <3>2. CASE D!DeliverReport(e)
      <4>1. Head(reports[e]).kind \in {"absorb", "apply", "measure", "discard", "expire"}
        <5>1. Head(reports[e]) \in ReportSet
          <6>1. reports[e] \in Seq(ReportSet) /\ reports[e] # <<>>
            BY <2>1, <3>2 DEF RoundInv, RoundTypes, D!DeliverReport
          <6>. QED
            BY <6>1
        <5>. QED
          BY <5>1 DEF ReportSet
      <4>. QED
        BY <2>1, <3>1, <3>2, <4>1, AbsorptionReported, OperatorReported, MeasurementReported, DiscardReported,
           ExpiryReported
    <3>3. CASE D!DeliverMessage(e)
      <4>1. Head(mail[e]).type \in {"ready", "target_result"}
        <5>1. Head(mail[e]) \in MailSet(e)
          BY <2>1, <3>3, MailRead
        <5>. QED
          BY <5>1 DEF MailSet
      <4>. QED
        BY <2>1, <3>1, <3>3, <4>1, ReadyArrived, ResultArrived
    <3>. QED
      BY <2>5, <3>2, <3>3
  <2>6. "alice" \in D!Ends
    BY DEF D!Ends
  <2>7. ASSUME NEW e \in D!Ends, D!DeliverReport(e) \/ D!DeliverMessage(e)
        PROVE  agent'["alice"].finalLayout \in {agent["alice"].finalLayout, SourceLayout}
    <3>1. Layout(e) /\ \A f \in D!Ends : f # e => agent'[f] = agent[f]
      BY <2>5, <2>7
    <3>. QED
      BY <2>6, <3>1 DEF Layout
  <2>. QED
    BY <1>2, <2>2, <2>3, <2>4, <2>5, <2>7 DEF D!Next
<1>. QED
  BY <1>1, <1>2

(* A round of distillation, run by itself or among the protocols: what     *)
(* alice records as the kept pair is the state of the two halves of pair   *)
(* 1, and nothing raises unless a qubit has expired                        *)
(* (_record_final_fidelity, _try_decide, _handle_request).                 *)
THEOREM DistillationSound ==
  ProtocolsSpec => [](D!KeptIsTheSourcePair /\ D!RaisesOnlyAfterExpiry)
<1>1. ProtocolsInit => Sound
  <2>. SUFFICES ASSUME D!Init PROVE Sound
    BY DEF ProtocolsInit
  <2>1. RoundInv
    BY RoundInit
  <2>2. D!KeptIsTheSourcePair /\ D!RaisesOnlyAfterExpiry
    BY DEF D!Init, D!KeptIsTheSourcePair, D!RaisesOnlyAfterExpiry, D!Agent, D!Coordinator, D!Ends
  <2>. QED
    BY <2>1, <2>2 DEF Sound
<1>2. Sound /\ [ProtocolsNext]_allVars => Sound'
  <2>1. [ProtocolsNext]_allVars => [D!Next]_(D!vars)
    BY DEF ProtocolsNext, SessionStep, RoundStep, TeleportStep, PairStep, PlanningStep, RuntimeStep, PrepareStep,
       allVars, roundVars, D!vars
  <2>. QED
    BY <2>1, RoundStepKeeps
<1>3. Sound => D!KeptIsTheSourcePair /\ D!RaisesOnlyAfterExpiry
  BY DEF Sound
<1>. QED
  BY <1>1, <1>2, <1>3, PTL DEF ProtocolsSpec

-----------------------------------------------------------------------------
(* The preparation of a pair.  Between the start and the last cell the     *)
(* queue tells where the two halves are: on their way, absorbed and to be  *)
(* reported, or reported; and both come before the deadline, or with it.   *)

(* The events of the notebook.                                             *)
PrepEvent(t, what, x) == [at |-> t, what |-> what, end |-> x]
StartEvent     == PrepEvent(0, "start", "controller")
EmitEvent      == PrepEvent(0, "emit", "controller")
DeadlineEvent  == PrepEvent(request.deadline, "deadline", "controller")
Arrival(x)     == C!Delay(C!Span(x))
AbsorbEvent(x) == PrepEvent(Arrival(x), "absorb", x)
ReportEvent(x) == PrepEvent(Arrival(x), "report", x)

(* What has been chosen can be done in time.                               *)
InTime ==
  /\ C!Chosen.fidelity >= request.fidelity
  /\ \A x \in C!Ends : Arrival(x) \in Nat /\ Arrival(x) <= request.deadline

(* What kind of value each variable holds; the clock never passes the     *)
(* deadline.                                                               *)
PrepTypes ==
  /\ route \in MCNetworks /\ request.deadline \in Nat \ {0}
  /\ clock \in Nat /\ clock <= request.deadline
  /\ service \in [reports : SUBSET C!Ends, ready : BOOLEAN, readyTime : Nat]
  /\ DOMAIN share = C!Ends

(* Nothing has been reserved.                                              *)
NotBegun ==
  /\ clock = 0 /\ live = {} /\ record = "none" /\ pauli = C!Unknown
  /\ service.reports = {} /\ ~service.ready
  /\ \A x \in C!Ends : share[x] # "reserved" /\ (share[x] = "free" => x \notin stored)
  /\ stored \subseteq C!Ends

(* The deadline has been handled.                                          *)
Closed == DeadlineEvent \notin due

(* The pair by the agent's notes and the ledgers, before and after.        *)
Noted ==
  /\ stored \subseteq C!Ends
  /\ service.ready <=> service.reports = C!Ends
  /\ service.ready => service.readyTime <= request.deadline
  /\ record = IF service.ready THEN "reserved" ELSE "none"
  /\ share = [x \in C!Ends |-> IF service.ready THEN "occupied"
                               ELSE IF Closed THEN "free" ELSE "reserved"]
  /\ Closed /\ ~service.ready => hold = "released"

(* Before a route has been chosen, and before the slots are reserved.       *)
Waiting == cell = "select" /\ due = {} /\ NotBegun
Beginning == cell = "run" /\ due = {StartEvent} /\ NotBegun /\ InTime

(* The slots are reserved, the pair has not been sent.                      *)
AboutToEmit ==
  /\ cell = "run" /\ InTime /\ Noted
  /\ due = {DeadlineEvent, EmitEvent} /\ clock = 0
  /\ live = {} /\ stored = {} /\ service.reports = {} /\ pauli = C!Unknown

Underway ==
  /\ cell = "run" /\ InTime /\ Noted
  /\ live \subseteq C!Ends /\ stored \subseteq live /\ service.reports \subseteq stored
  /\ due \subseteq {DeadlineEvent} \cup {AbsorbEvent(x) : x \in C!Ends}
                                   \cup {ReportEvent(x) : x \in C!Ends}
  /\ \A x \in C!Ends : /\ AbsorbEvent(x) \in due <=> x \in live \ stored
                       /\ ReportEvent(x) \in due <=> x \in stored \ service.reports
  /\ \A e \in due : clock <= e.at
  /\ pauli = IF live = C!Ends THEN C!LabelBits[C!PhiPlus] ELSE C!Unknown

(* What each cell finds: Bob's half with what the last one has left.       *)
Using ==
  /\ due = {} /\ service.reports = stored /\ stored \subseteq C!Ends
  /\ service.ready <=> stored = C!Ends
  /\ service.ready => service.readyTime <= request.deadline
  /\ \/ /\ cell = "bell" /\ Noted /\ live = stored \cup {C!Payload}
        /\ pauli = IF stored = C!Ends THEN C!LabelBits[C!PhiPlus] ELSE C!Unknown
     \/ /\ cell = "correct" /\ Noted /\ live = stored \cup {C!Payload} /\ "alice" \in stored
        /\ \E label \in C!Labels : bits = C!LabelBits[label]
        /\ pauli = IF stored = C!Ends THEN C!Xor(C!LabelBits[C!PhiPlus], bits) ELSE C!Unknown
     \/ /\ cell = "discard" /\ Noted /\ live = stored \cup {C!Payload}
        /\ stored = C!Ends /\ pauli = <<0, 0>>
     \/ /\ cell = "consume" /\ Noted /\ live = {"bob"} /\ stored = C!Ends /\ pauli = <<0, 0>>
     \/ /\ cell = "done" /\ stored = C!Ends /\ pauli = <<0, 0>>
        /\ record = "consumed" /\ share = [x \in C!Ends |-> IF x = "alice" THEN "consumed" ELSE "occupied"]

PrepInv == PrepTypes /\ (Waiting \/ Beginning \/ AboutToEmit \/ Underway \/ Using)

(* The correction undoes what the label says.                              *)
LEMMA BitsCancel ==
  \A label \in C!Labels :
    /\ C!Xor(C!LabelBits[C!PhiPlus], C!LabelBits[label]) # C!Unknown
    /\ C!Xor(C!Xor(C!Xor(C!LabelBits[C!PhiPlus], C!LabelBits[label]),
                   C!PauliBits[IF C!LabelBits[label][2] = 1 THEN "Z" ELSE "I"]),
             C!PauliBits[IF C!LabelBits[label][1] = 1 THEN "X" ELSE "I"]) = <<0, 0>>
<1>. USE DEF C!Xor, C!LabelBits, C!PauliBits, C!PhiPlus, C!Unknown
<1>. SUFFICES ASSUME NEW label \in C!Labels
              PROVE  /\ C!Xor(C!LabelBits[1], C!LabelBits[label]) # <<2, 2>>
                     /\ C!Xor(C!Xor(C!Xor(C!LabelBits[1], C!LabelBits[label]),
                                    C!PauliBits[IF C!LabelBits[label][2] = 1 THEN "Z" ELSE "I"]),
                              C!PauliBits[IF C!LabelBits[label][1] = 1 THEN "X" ELSE "I"]) = <<0, 0>>
  OBVIOUS
<1>1. CASE label = 1
  BY <1>1
<1>2. CASE label = 2
  BY <1>2
<1>3. CASE label = 3
  BY <1>3
<1>4. CASE label = 4
  BY <1>4
<1>. QED
  BY <1>1, <1>2, <1>3, <1>4 DEF C!Labels

(* What the module promises, while nothing has been raised.                *)
LEMMA PrepInvSuffices == PrepInv /\ ~stopped => C!PreparationSound
<1>. SUFFICES ASSUME PrepInv, ~stopped PROVE C!PreparationSound
  OBVIOUS
<1>. USE DEF C!PreparationSound, C!ReadyIsReal, C!PlanHolds, C!RefusedLeavesNothing, C!HandedOver, C!Settled,
             C!Ends
<1>1. C!LabelBits[C!PhiPlus] # C!Unknown /\ <<0, 0>> # C!Unknown
  BY DEF C!LabelBits, C!PhiPlus, C!Unknown
<1>2. CASE Waiting \/ Beginning
  BY <1>2 DEF Waiting, Beginning, NotBegun, StartEvent
<1>3. CASE AboutToEmit
  BY <1>3 DEF AboutToEmit, Noted, Closed
<1>4. CASE Underway
  <2>1. service.ready => stored = C!Ends /\ live = C!Ends
    BY <1>4 DEF Underway, Noted, Closed
  <2>2. C!ReadyIsReal
    BY <1>1, <1>4, <2>1 DEF Underway, Noted, Closed
  <2>3. due = {} => service.reports = stored
    BY <1>4 DEF Underway
  <2>4. C!PlanHolds
    BY <1>4, <2>3 DEF Underway, Noted, Closed
  <2>. QED
    BY <1>4, <2>2, <2>4 DEF Underway
<1>5. CASE Using
  <2>1. service.ready => pauli # C!Unknown
    BY <1>1, <1>5, BitsCancel DEF Using, Noted, Closed
  <2>2. C!ReadyIsReal
    BY <1>5, <2>1 DEF Using, Noted, Closed
  <2>3. C!HandedOver
    BY <1>5 DEF Using, Noted, Closed
  <2>. QED
    BY <1>5, <2>2, <2>3 DEF Using, Noted, Closed
<1>. QED
  BY <1>2, <1>3, <1>4, <1>5 DEF PrepInv


(* The length of a route of one span (planning).                           *)
LEMMA OneSpan ==
  ASSUME NEW span, span.length \in Int
  PROVE  C!RouteDelay(<<span>>) = span.length
<1>. DEFINE seq == <<span>>
            It(f) == [s \in SUBSET (DOMAIN seq) |->
                        IF s = {} THEN 0
                        ELSE f[s \ {C!Max(s)}] + seq[C!Max(s)].length]
            g == [s \in SUBSET {1} |-> IF s = {} THEN 0 ELSE span.length]
            h == CHOOSE f : f = It(f)
<1>1. DOMAIN seq = {1} /\ seq[1] = span
  OBVIOUS
<1>2. SUBSET {1} = {{}, {1}}
  OBVIOUS
<1>3. C!Max({1}) = 1
  BY DEF C!Max
<1>4. g = It(g)
  <2>1. It(g)[{}] = 0 /\ It(g)[{1}] = g[{1} \ {1}] + span.length
    BY <1>1, <1>2, <1>3
  <2>2. {1} \ {1} = {}
    OBVIOUS
  <2>3. g[{}] = 0 /\ g[{1}] = span.length
    BY <1>2
  <2>4. It(g)[{1}] = span.length
    BY <2>1, <2>2, <2>3
  <2>5. \A s \in SUBSET {1} : It(g)[s] = g[s]
    BY <1>2, <2>1, <2>3, <2>4
  <2>. HIDE DEF g
  <2>6. It(g) = [s \in SUBSET {1} |-> It(g)[s]]
    BY <1>1
  <2>7. g = [s \in SUBSET {1} |-> g[s]]
    BY DEF g
  <2>. HIDE DEF It
  <2>. QED
    BY <2>5, <2>6, <2>7
<1>5. h = It(h)
  BY <1>4
<1>6. h[{1}] = h[{1} \ {1}] + span.length /\ h[{}] = 0
  <2>1. PICK f : f = h
    OBVIOUS
  <2>2. f = It(f)
    BY <1>5, <2>1
  <2>. HIDE DEF h
  <2>3. It(f)[{}] = 0 /\ It(f)[{1}] = f[{1} \ {1}] + span.length
    BY <1>1, <1>2, <1>3
  <2>. HIDE DEF It
  <2>. QED
    BY <2>1, <2>2, <2>3
<1>7. h[{1}] = span.length
  <2>1. {1} \ {1} = {}
    OBVIOUS
  <2>. HIDE DEF h
  <2>. QED
    BY <1>6, <2>1
<1>8. C!RouteDelay(seq) = h[DOMAIN seq]
  BY DEF C!RouteDelay, C!FoldLeft, C!MapThenFoldSet, C!Delay
<1>. QED
  BY <1>1, <1>7, <1>8

(* Every route of the networks is one span.                                *)
LEMMA RoutesOfOneSpan ==
  \A net \in MCNetworks, s \in 1..2, x \in C!Ends :
    \E span : net[s][x] = <<span>> /\ span.length \in Nat
<1>. DEFINE Good(net) == \A s \in 1..2, x \in C!Ends : \E span : net[s][x] = <<span>> /\ span.length \in Nat
<1>1. Good(CapstoneNetwork)
  BY DEF CapstoneNetwork, Spans, C!Ends
<1>2. ASSUME NEW net, net = [CapstoneNetwork EXCEPT ![1].alice[1].length = 24] PROVE Good(net)
  <2>1. net[1] = [CapstoneNetwork[1] EXCEPT !.alice[1].length = 24] /\ net[2] = CapstoneNetwork[2]
    BY <1>2 DEF CapstoneNetwork
  <2>2. net[1].bob = CapstoneNetwork[1].bob /\ net[1].alice = [CapstoneNetwork[1].alice EXCEPT ![1].length = 24]
    BY <2>1 DEF CapstoneNetwork
  <2>3. PICK old : /\ CapstoneNetwork[1].alice = <<old>>
                    /\ old = [length |-> 6, attenuation |-> 90, insertion |-> 150, fidelity |-> 94]
    BY DEF CapstoneNetwork, Spans
  <2>4. \E new : net[1].alice = <<new>> /\ new.length = 24
    <3>1. PICK new : new = [old EXCEPT !.length = 24]
      OBVIOUS
    <3>2. net[1].alice = <<new>>
      BY <2>2, <2>3, <3>1
    <3>3. new.length = 24
      BY <2>3, <3>1
    <3>. QED
      BY <3>2, <3>3
  <2>5. /\ \E span : net[1]["alice"] = <<span>> /\ span.length \in Nat
        /\ \E span : net[1]["bob"] = <<span>> /\ span.length \in Nat
        /\ \A x \in C!Ends : \E span : net[2][x] = <<span>> /\ span.length \in Nat
    <3>1. /\ \E span : CapstoneNetwork[1]["bob"] = <<span>> /\ span.length \in Nat
          /\ \A x \in C!Ends : \E span : CapstoneNetwork[2][x] = <<span>> /\ span.length \in Nat
      BY <1>1 DEF C!Ends
    <3>. QED
      BY <3>1, <2>1, <2>2, <2>4
  <2>. QED
    BY <2>5 DEF C!Ends
<1>3. ASSUME NEW net, net = [CapstoneNetwork EXCEPT ![2] =
                       [alice |-> Spans(6, 90, 150, 94), bob |-> Spans(7, 0, 0, 92)]]
      PROVE  Good(net)
  <2>1. net[1] = CapstoneNetwork[1] /\ net[2] = [alice |-> Spans(6, 90, 150, 94), bob |-> Spans(7, 0, 0, 92)]
    BY <1>3 DEF CapstoneNetwork
  <2>2. \A x \in C!Ends : \E span : net[2][x] = <<span>> /\ span.length \in Nat
    BY <2>1 DEF Spans, C!Ends
  <2>. QED
    BY <1>1, <2>1, <2>2
<1>. HIDE DEF Good
<1>4. \A net \in MCNetworks : Good(net)
  BY <1>1, <1>2, <1>3 DEF MCNetworks
<1>. QED
  BY <1>4 DEF Good

(* A number among finitely many or not: the least one there is.            *)
LEMMA LeastTick ==
  ASSUME NEW ticks \in SUBSET Nat, ticks # {}
  PROVE  /\ C!Min(ticks) \in ticks /\ T!Min(ticks) \in ticks
         /\ \A t \in ticks : C!Min(ticks) <= t /\ T!Min(ticks) <= t
<1>1. PICK t \in ticks : \A u \in ticks : <<u, t>> \notin OpToRel(<, Nat)
  BY WFMin, NatLessThanWellFounded, Zenon
<1>2. \A u \in ticks : t <= u
  <2>1. \A u \in ticks : ~(u < t)
    BY <1>1 DEF OpToRel
  <2>. QED
    BY <2>1
<1>. QED
  BY <1>2 DEF C!Min, T!Min

(* The larger of the two arrivals is no earlier than either.               *)
LEMMA Latest ==
  ASSUME NEW f, NEW S, S = {f[x] : x \in C!Ends}, \A x \in C!Ends : f[x] \in Int
  PROVE  \A x \in C!Ends : f[x] <= C!Max(S) /\ C!Max(S) \in Int
<1>1. \E m \in S : \A n \in S : m >= n
  BY DEF C!Ends
<1>2. C!Max(S) \in S /\ \A n \in S : C!Max(S) >= n
  BY <1>1 DEF C!Max
<1>. QED
  BY <1>2


(* The station is chosen, and the start scheduled.                         *)
LEMMA SelectKeeps ==
  ASSUME PrepInv, ~stopped, C!Select
  PROVE  (PrepInv' /\ ~stopped') \/ (stopped' /\ C!PreparationSound')
<1>1. Waiting /\ PrepTypes
  BY DEF PrepInv, C!Select, Beginning, AboutToEmit, Underway, Using
<1>2. /\ UNCHANGED <<route, request, busy, clock, stored, live, share, hold, record, service, bits, pauli>>
      /\ PrepTypes'
  BY <1>1 DEF C!Select, PrepTypes
<1>3. CASE C!UsableScores = {}
  <2>1. stopped' /\ UNCHANGED <<selected, due, cell>>
    BY <1>3 DEF C!Select
  <2>2. C!PreparationSound'
    BY <1>1, <1>2, <2>1 DEF C!PreparationSound, C!ReadyIsReal, C!PlanHolds, C!RefusedLeavesNothing, C!HandedOver,
                            C!Settled, Waiting, NotBegun
  <2>. QED
    BY <2>1, <2>2
<1>4. CASE C!UsableScores # {}
  <2>1. /\ \E c \in C!UsableScores : selected' = c.source
        /\ due' = {C!After(0, "start", "controller")} /\ cell' = "run" /\ stopped' = stopped
    BY <1>4 DEF C!Select
  <2>2. due' = {StartEvent'}
    BY <1>1, <2>1 DEF C!After, StartEvent, PrepEvent, Waiting, NotBegun
  <2>3. PICK c : c \in C!UsableScores /\ selected' = c.source
    BY <2>1
  <2>4. PICK s \in 1..2 : c = C!ScoreCandidate(s) /\ C!Usable(c)
    BY <2>3 DEF C!UsableScores
  <2>5. selected' = s
    BY <2>3, <2>4 DEF C!ScoreCandidate
  <2>6. C!Chosen' = c
    BY <1>2, <2>4, <2>5 DEF C!Chosen, C!ScoreCandidate
  <2>7. /\ \A x \in C!Ends : C!RouteDelay(route[s][x]) = C!Delay(route[s][x][1])
        /\ \A x \in C!Ends : C!Delay(route[s][x][1]) \in Nat
    <3>. SUFFICES ASSUME NEW x \in C!Ends
                  PROVE  C!RouteDelay(route[s][x]) = C!Delay(route[s][x][1]) /\ C!Delay(route[s][x][1]) \in Nat
      OBVIOUS
    <3>1. PICK span : route[s][x] = <<span>> /\ span.length \in Nat
      BY <1>1, RoutesOfOneSpan DEF PrepTypes
    <3>2. C!RouteDelay(<<span>>) = span.length
      BY <3>1, OneSpan
    <3>. QED
      BY <3>1, <3>2 DEF C!Delay
  <2>8. PICK f : f = [x \in C!Ends |-> C!RouteDelay(route[s][x])]
    OBVIOUS
  <2>9. c.latest = C!Max({f[x] : x \in C!Ends})
    <3>1. {f[x] : x \in C!Ends} = {C!RouteDelay(route[s][x]) : x \in C!Ends}
      BY <2>8
    <3>. QED
      BY <2>4, <3>1 DEF C!ScoreCandidate
  <2>10. \A x \in C!Ends : f[x] <= c.latest /\ c.latest \in Int
    <3>1. \A x \in C!Ends : f[x] \in Int
      BY <2>7, <2>8
    <3>. QED
      BY <2>9, <3>1, Latest
  <2>11. c.latest <= request.deadline /\ c.fidelity >= request.fidelity
    BY <2>4 DEF C!Usable
  <2>12. ASSUME NEW x \in C!Ends PROVE Arrival(x)' \in Nat /\ Arrival(x)' <= request'.deadline
    <3>1. Arrival(x)' = C!Delay(route[s][x][1])
      BY <1>2, <2>5 DEF Arrival, C!Span, C!Delay
    <3>2. f[x] = C!Delay(route[s][x][1]) /\ f[x] \in Nat /\ f[x] <= c.latest /\ c.latest \in Int
      BY <2>7, <2>8, <2>10
    <3>3. request'.deadline = request.deadline /\ request.deadline \in Nat
      BY <1>1, <1>2 DEF PrepTypes
    <3>. QED
      BY <2>11, <3>1, <3>2, <3>3
  <2>13. InTime'
    BY <1>2, <2>6, <2>11, <2>12 DEF InTime
  <2>14. NotBegun'
    BY <1>1, <1>2 DEF Waiting, NotBegun
  <2>. QED
    BY <1>2, <2>1, <2>2, <2>13, <2>14 DEF PrepInv, Beginning
<1>. QED
  BY <1>3, <1>4

(* While the notebook runs it chooses no other station.                    *)
LEMMA TimesStay ==
  ASSUME UNCHANGED <<route, request, selected>>
  PROVE  /\ InTime => InTime'
         /\ \A x : Arrival(x)' = Arrival(x) /\ AbsorbEvent(x)' = AbsorbEvent(x) /\ ReportEvent(x)' = ReportEvent(x)
         /\ DeadlineEvent' = DeadlineEvent /\ C!Chosen' = C!Chosen
<1>1. \A x : Arrival(x)' = Arrival(x)
  BY DEF Arrival, C!Span, C!Delay
<1>2. C!Chosen' = C!Chosen
  BY DEF C!Chosen, C!ScoreCandidate
<1>. QED
  BY <1>1, <1>2 DEF InTime, AbsorbEvent, ReportEvent, DeadlineEvent, PrepEvent

(* An event tells how far the notebook has come.                           *)
LEMMA WhatIsDue ==
  ASSUME PrepInv, NEW e \in due
  PROVE  /\ PrepTypes
         /\ e.what = "start" => Beginning
         /\ e.what = "emit" => AboutToEmit
         /\ e.what \in {"absorb", "report"} => Underway
         /\ e.what = "deadline" /\ e.at = clock => Underway
<1>. USE DEF PrepEvent
<1>1. PrepTypes /\ (Beginning \/ AboutToEmit \/ Underway)
  BY DEF PrepInv, Waiting, Using
<1>2. CASE Beginning
  BY <1>1, <1>2 DEF Beginning, StartEvent
<1>3. CASE AboutToEmit
  <2>1. clock = 0 /\ request.deadline # 0 /\ (e = DeadlineEvent \/ e = EmitEvent)
    BY <1>1, <1>3 DEF AboutToEmit, PrepTypes
  <2>2. e.what = "emit" \/ (e.what = "deadline" /\ e.at # clock)
    BY <2>1 DEF EmitEvent, DeadlineEvent
  <2>. QED
    BY <1>1, <1>3, <2>2
<1>4. CASE Underway
  BY <1>1, <1>4 DEF Underway, AbsorbEvent, ReportEvent, DeadlineEvent
<1>. QED
  BY <1>1, <1>2, <1>3, <1>4

(* Both memories are reserved, or neither.                                 *)
LEMMA StartKeeps ==
  ASSUME PrepInv, ~stopped, NEW e \in due, e.at = clock, C!ReserveSlotAndStart(e),
         UNCHANGED <<route, request, busy, selected, clock, cell, bits>>
  PROVE  (PrepInv' /\ ~stopped') \/ (stopped' /\ C!PreparationSound')
<1>1. Beginning /\ PrepTypes
  BY WhatIsDue DEF C!ReserveSlotAndStart
<1>2. UNCHANGED <<stored, live, record, service, pauli>>
  BY DEF C!ReserveSlotAndStart
<1>3. e = StartEvent /\ due \ {e} = {}
  BY <1>1 DEF Beginning
<1>4. CASE \A x \in C!Ends : share[x] = "free"
  <2>1. /\ share' = [x \in C!Ends |-> "reserved"] /\ stopped' = stopped
        /\ due' = {C!After(request.deadline, "deadline", "controller"), C!After(0, "emit", "controller")}
    BY <1>3, <1>4 DEF C!ReserveSlotAndStart, C!Handle
  <2>2. due' = {DeadlineEvent', EmitEvent'}
    BY <1>1, <2>1 DEF Beginning, NotBegun, PrepTypes, C!After, DeadlineEvent, EmitEvent, PrepEvent
  <2>3. stored = {}
    BY <1>1, <1>4 DEF Beginning, NotBegun
  <2>4. Noted'
    <3>1. ~Closed'
      BY <2>2 DEF Closed
    <3>. QED
      BY <1>1, <1>2, <2>1, <2>3, <3>1 DEF Noted, Beginning, NotBegun, C!Ends
  <2>5. PrepTypes'
    BY <1>1, <1>2, <2>1 DEF PrepTypes
  <2>. QED
    BY <1>1, <1>2, <2>1, <2>2, <2>3, <2>4, <2>5, TimesStay DEF PrepInv, AboutToEmit, Beginning, NotBegun
<1>5. CASE ~\A x \in C!Ends : share[x] = "free"
  <2>1. stopped' /\ share' = share
    BY <1>5 DEF C!ReserveSlotAndStart
  <2>. QED
    BY <1>1, <1>2, <2>1 DEF C!PreparationSound, C!ReadyIsReal, C!PlanHolds, C!RefusedLeavesNothing, C!HandedOver,
                            C!Settled, Beginning, NotBegun
<1>. QED
  BY <1>4, <1>5

(* The source emits one pair; either half may be lost.                     *)
LEMMA PairEmitted ==
  ASSUME PrepInv, ~stopped, NEW e \in due, e.at = clock, C!Emit(e),
         UNCHANGED <<route, request, busy, selected, clock, cell, bits>>
  PROVE  PrepInv' /\ ~stopped'
<1>1. AboutToEmit /\ PrepTypes
  BY WhatIsDue DEF C!Emit
<1>2. UNCHANGED <<stored, share, hold, record, service, stopped>>
  BY DEF C!Emit
<1>3. due \ {e} = {DeadlineEvent}
  BY <1>1 DEF AboutToEmit, C!Emit, DeadlineEvent, EmitEvent, PrepEvent
<1>4. PICK arrives \in SUBSET C!Ends :
        /\ due' = {DeadlineEvent} \cup {C!After(C!Delay(C!Span(x)), "absorb", x) : x \in arrives}
        /\ live' = arrives
        /\ pauli' = IF arrives = C!Ends THEN C!LabelBits[C!PhiPlus] ELSE C!Unknown
  BY <1>3 DEF C!Emit, C!Handle
<1>5. clock = 0 /\ \A x \in C!Ends : Arrival(x) \in Nat
  BY <1>1 DEF AboutToEmit, InTime
<1>6. \A x \in C!Ends : C!After(C!Delay(C!Span(x)), "absorb", x) = AbsorbEvent(x)
  BY <1>5 DEF C!After, AbsorbEvent, PrepEvent, Arrival
<1>7. due' = {DeadlineEvent} \cup {AbsorbEvent(x) : x \in arrives}
  BY <1>4, <1>6
<1>8. PrepTypes'
  BY <1>1, <1>2 DEF PrepTypes
<1>9. /\ InTime' /\ DeadlineEvent' = DeadlineEvent
      /\ \A x : AbsorbEvent(x)' = AbsorbEvent(x) /\ ReportEvent(x)' = ReportEvent(x)
  BY <1>1, TimesStay DEF AboutToEmit
<1>10. Noted' /\ DeadlineEvent \in due'
  <2>1. ~Closed' /\ ~Closed /\ DeadlineEvent \in due'
    BY <1>1, <1>7, <1>9 DEF AboutToEmit, Closed
  <2>. QED
    BY <1>1, <1>2, <2>1 DEF AboutToEmit, Noted
<1>11. \A x \in C!Ends : /\ AbsorbEvent(x) \in due' <=> x \in live' \ stored'
                         /\ ReportEvent(x) \in due' <=> x \in stored' \ service'.reports
  BY <1>1, <1>2, <1>4, <1>7 DEF AboutToEmit, AbsorbEvent, ReportEvent, DeadlineEvent, PrepEvent
<1>12. \A ev \in due' : clock' <= ev.at
  BY <1>1, <1>5, <1>7 DEF AboutToEmit, AbsorbEvent, DeadlineEvent, PrepEvent, PrepTypes
<1>13. Underway'
  <2>1. due' \subseteq {DeadlineEvent} \cup {AbsorbEvent(x) : x \in C!Ends} \cup {ReportEvent(x) : x \in C!Ends}
    BY <1>7
  <2>2. cell' = "run" /\ stored' = {} /\ service'.reports = {}
    BY <1>1, <1>2 DEF AboutToEmit
  <2>. QED
    BY <1>4, <1>9, <1>10, <1>11, <1>12, <2>1, <2>2 DEF Underway
<1>. QED
  BY <1>2, <1>8, <1>13 DEF PrepInv


(* Which events the queue has, by what is in the way of both halves.       *)
LEMMA DueFacts ==
  ASSUME Underway, PrepTypes, NEW e \in due
  PROVE  /\ e.what = "absorb" => e.end \in live \ stored /\ e = AbsorbEvent(e.end)
         /\ e.what = "report" => e.end \in stored \ service.reports /\ e = ReportEvent(e.end)
         /\ e.what = "deadline" => e = DeadlineEvent
         /\ e.what \in {"absorb", "report", "deadline"} /\ clock <= e.at
         /\ e.at \in Nat /\ e.at <= request.deadline
<1>. USE DEF PrepEvent, AbsorbEvent, ReportEvent, DeadlineEvent
<1>1. /\ e \in {DeadlineEvent} \cup {AbsorbEvent(x) : x \in C!Ends} \cup {ReportEvent(x) : x \in C!Ends}
      /\ \A x \in C!Ends : /\ AbsorbEvent(x) \in due <=> x \in live \ stored
                           /\ ReportEvent(x) \in due <=> x \in stored \ service.reports
      /\ \A x \in C!Ends : Arrival(x) \in Nat /\ Arrival(x) <= request.deadline
      /\ request.deadline \in Nat /\ clock <= e.at
  BY DEF Underway, InTime, PrepTypes
<1>2. CASE e = DeadlineEvent
  BY <1>1, <1>2
<1>3. ASSUME NEW x \in C!Ends, e = AbsorbEvent(x) PROVE e.what = "absorb" /\ e.end = x /\ e.at = Arrival(x)
  BY <1>3
<1>4. ASSUME NEW x \in C!Ends, e = ReportEvent(x) PROVE e.what = "report" /\ e.end = x /\ e.at = Arrival(x)
  BY <1>4
<1>. HIDE DEF PrepEvent, AbsorbEvent, ReportEvent, DeadlineEvent
<1>5. ASSUME NEW x \in C!Ends, e = AbsorbEvent(x) PROVE e.end \in live \ stored /\ e.end = x
  BY <1>1, <1>3, <1>5
<1>6. ASSUME NEW x \in C!Ends, e = ReportEvent(x) PROVE e.end \in stored \ service.reports /\ e.end = x
  BY <1>1, <1>4, <1>6
<1>. QED
  BY <1>1, <1>2, <1>3, <1>4, <1>5, <1>6

(* Different events are different.                                         *)
LEMMA EventsDiffer ==
  \A x, y : /\ AbsorbEvent(x) # ReportEvent(y) /\ AbsorbEvent(x) # DeadlineEvent
            /\ ReportEvent(x) # DeadlineEvent
            /\ (AbsorbEvent(x) = AbsorbEvent(y) => x = y) /\ (ReportEvent(x) = ReportEvent(y) => x = y)
BY DEF PrepEvent, AbsorbEvent, ReportEvent, DeadlineEvent

(* A half is absorbed, and the absorption reported in the same tick.       *)
LEMMA HalfAbsorbed ==
  ASSUME PrepInv, ~stopped, NEW e \in due, e.at = clock, C!Absorb(e),
         UNCHANGED <<route, request, busy, selected, clock, cell, bits>>
  PROVE  PrepInv' /\ ~stopped'
<1>. DEFINE x == e.end
<1>1. Underway /\ PrepTypes
  BY WhatIsDue DEF C!Absorb
<1>2. /\ UNCHANGED <<live, share, hold, record, service, pauli, stopped>>
      /\ stored' = stored \cup {x} /\ due' = (due \ {e}) \cup {C!After(0, "report", x)}
  BY DEF C!Absorb, C!Handle
<1>3. x \in live \ stored /\ e = AbsorbEvent(x)
  BY <1>1, DueFacts DEF C!Absorb
<1>4. x \in C!Ends
  BY <1>1, <1>3 DEF Underway
<1>5. clock = Arrival(x) /\ clock \in Nat
  <2>1. e.at = Arrival(x)
    BY <1>3 DEF AbsorbEvent, PrepEvent
  <2>. QED
    BY <1>1, <2>1 DEF PrepTypes
<1>6. due' = (due \ {AbsorbEvent(x)}) \cup {ReportEvent(x)}
  <2>1. C!After(0, "report", x) = ReportEvent(x)
    BY <1>5 DEF C!After, ReportEvent, PrepEvent
  <2>. QED
    BY <1>2, <1>3, <2>1
<1>7. PrepTypes'
  BY <1>1, <1>2 DEF PrepTypes
<1>8. /\ InTime' /\ DeadlineEvent' = DeadlineEvent
      /\ \A y : AbsorbEvent(y)' = AbsorbEvent(y) /\ ReportEvent(y)' = ReportEvent(y)
  BY <1>1, TimesStay DEF Underway
<1>. HIDE DEF x
<1>9. DeadlineEvent \in due' <=> DeadlineEvent \in due
  BY <1>6, EventsDiffer
<1>10. Noted'
  BY <1>1, <1>2, <1>4, <1>8, <1>9 DEF Underway, Noted, Closed
<1>11. ASSUME NEW y \in C!Ends
       PROVE  /\ AbsorbEvent(y) \in due' <=> y \in live' \ stored'
              /\ ReportEvent(y) \in due' <=> y \in stored' \ service'.reports
  <2>1. /\ AbsorbEvent(y) \in due <=> y \in live \ stored
        /\ ReportEvent(y) \in due <=> y \in stored \ service.reports
    BY <1>1 DEF Underway
  <2>2. CASE y = x
    <3>1. x \notin service.reports
      BY <1>1, <1>3 DEF Underway
    <3>2. AbsorbEvent(x) \notin due' /\ ReportEvent(x) \in due'
      BY <1>6, EventsDiffer
    <3>. QED
      BY <1>2, <2>2, <3>1, <3>2
  <2>3. CASE y # x
    <3>1. AbsorbEvent(y) # AbsorbEvent(x) /\ ReportEvent(y) # ReportEvent(x)
      BY <2>3, EventsDiffer
    <3>2. (AbsorbEvent(y) \in due' <=> AbsorbEvent(y) \in due) /\ (ReportEvent(y) \in due' <=> ReportEvent(y) \in due)
      BY <1>6, <3>1, EventsDiffer
    <3>. QED
      BY <1>2, <2>1, <2>3, <3>2
  <2>. QED
    BY <2>2, <2>3
<1>12. \A ev \in due' : clock <= ev.at
  BY <1>1, <1>5, <1>6 DEF Underway, ReportEvent, PrepEvent
<1>13. Underway'
  <2>1. due' \subseteq {DeadlineEvent} \cup {AbsorbEvent(y) : y \in C!Ends} \cup {ReportEvent(y) : y \in C!Ends}
    BY <1>1, <1>4, <1>6 DEF Underway
  <2>2. /\ live' \subseteq C!Ends /\ stored' \subseteq live' /\ service'.reports \subseteq stored'
        /\ cell' = "run" /\ pauli' = IF live' = C!Ends THEN C!LabelBits[C!PhiPlus] ELSE C!Unknown
    BY <1>1, <1>2, <1>3 DEF Underway
  <2>. QED
    BY <1>8, <1>10, <1>11, <1>12, <2>1, <2>2 DEF Underway
<1>. QED
  BY <1>2, <1>7, <1>13 DEF PrepInv

(* An absorption is reported: with the second the pair is recorded, before *)
(* the deadline is over, whether its event has been handled or not.        *)
LEMMA HalfReported ==
  ASSUME PrepInv, ~stopped, NEW e \in due, e.at = clock, C!OnReport(e),
         UNCHANGED <<route, request, busy, selected, clock, cell, bits>>
  PROVE  PrepInv' /\ ~stopped'
<1>. DEFINE x == e.end
            reported == service.reports \cup {x}
<1>1. Underway /\ PrepTypes
  BY WhatIsDue DEF C!OnReport
<1>2. UNCHANGED <<stored, live, hold, pauli>> /\ due' = due \ {e}
  BY DEF C!OnReport, C!Handle
<1>3. x \in stored \ service.reports /\ e = ReportEvent(x) /\ clock <= request.deadline /\ clock \in Nat
  BY <1>1, DueFacts DEF C!OnReport, PrepTypes
<1>4. x \in C!Ends /\ reported \in SUBSET C!Ends /\ reported \subseteq stored
  BY <1>1, <1>3 DEF Underway, PrepTypes
<1>5. ~service.ready /\ service.reports # C!Ends
  BY <1>1, <1>3, <1>4 DEF Underway, Noted, Closed
<1>6. \A y \in C!Ends : share[y] \in {"free", "reserved"}
  BY <1>1, <1>5 DEF Underway, Noted, Closed
<1>7. ~(request.deadline < clock)
  BY <1>1, <1>3 DEF PrepTypes
<1>8. C!MeetsTarget
  BY <1>1, <1>3 DEF Underway, InTime, C!MeetsTarget
<1>9. /\ InTime' /\ DeadlineEvent' = DeadlineEvent
      /\ \A y : AbsorbEvent(y)' = AbsorbEvent(y) /\ ReportEvent(y)' = ReportEvent(y)
  BY <1>1, TimesStay DEF Underway
<1>10. DeadlineEvent \in due' <=> DeadlineEvent \in due
  BY <1>2, <1>3, EventsDiffer
<1>. HIDE DEF x, reported
<1>11. /\ stopped' = FALSE /\ service'.reports = reported /\ PrepTypes'
       /\ Noted'
  <2>1. CASE reported = C!Ends
    <3>1. /\ share' = [y \in C!Ends |-> "occupied"] /\ record' = "reserved" /\ stopped' = FALSE
          /\ service' = [reports |-> reported, ready |-> C!MeetsTarget, readyTime |-> clock]
      BY <1>5, <1>6, <1>7, <2>1 DEF C!OnReport, x, reported
    <3>2. service' = [reports |-> C!Ends, ready |-> TRUE, readyTime |-> clock]
      BY <1>8, <2>1, <3>1
    <3>3. service' \in [reports : SUBSET C!Ends, ready : BOOLEAN, readyTime : Nat] /\ DOMAIN share' = C!Ends
      <4>1. DOMAIN share' = C!Ends
        BY <3>1
      <4>2. clock \in Nat
        BY <1>3
      <4>. QED
        BY <3>2, <4>1, <4>2
    <3>4. PrepTypes'
      BY <1>1, <3>3 DEF PrepTypes
    <3>. QED
      BY <1>1, <1>2, <1>3, <2>1, <3>1, <3>2, <3>4 DEF Noted, Closed, Underway
  <2>2. CASE reported # C!Ends
    <3>1. /\ share' = [y \in C!Ends |-> share[y]] /\ record' = record /\ stopped' = FALSE
          /\ service' = [service EXCEPT !.reports = reported]
      BY <2>2 DEF C!OnReport, x, reported
    <3>2. share' = share
      BY <1>1, <3>1 DEF Underway, Noted, Closed
    <3>3. /\ service'.reports = reported /\ service'.ready = FALSE
          /\ service' \in [reports : SUBSET C!Ends, ready : BOOLEAN, readyTime : Nat]
      BY <1>1, <1>4, <1>5, <3>1 DEF PrepTypes
    <3>4. PrepTypes'
      BY <1>1, <3>2, <3>3 DEF PrepTypes
    <3>. QED
      BY <1>1, <1>2, <1>5, <1>9, <1>10, <2>2, <3>1, <3>2, <3>3, <3>4 DEF Noted, Closed, Underway
  <2>. QED
    BY <2>1, <2>2
<1>12. ASSUME NEW y \in C!Ends
       PROVE  /\ AbsorbEvent(y) \in due' <=> y \in live' \ stored'
              /\ ReportEvent(y) \in due' <=> y \in stored' \ service'.reports
  <2>1. /\ AbsorbEvent(y) \in due <=> y \in live \ stored
        /\ ReportEvent(y) \in due <=> y \in stored \ service.reports
    BY <1>1 DEF Underway
  <2>2. /\ AbsorbEvent(y) \in due' <=> AbsorbEvent(y) \in due
        /\ ReportEvent(y) \in due' <=> ReportEvent(y) \in due /\ y # x
    BY <1>2, <1>3, EventsDiffer DEF x
  <2>. QED
    BY <1>2, <1>11, <2>1, <2>2 DEF reported
<1>13. Underway'
  <2>1. due' \subseteq {DeadlineEvent} \cup {AbsorbEvent(y) : y \in C!Ends} \cup {ReportEvent(y) : y \in C!Ends}
    BY <1>1, <1>2 DEF Underway
  <2>2. /\ live' \subseteq C!Ends /\ stored' \subseteq live' /\ service'.reports \subseteq stored'
        /\ cell' = "run" /\ pauli' = IF live' = C!Ends THEN C!LabelBits[C!PhiPlus] ELSE C!Unknown
        /\ \A ev \in due' : clock' <= ev.at
    BY <1>1, <1>2, <1>4, <1>11 DEF Underway
  <2>. QED
    BY <1>9, <1>11, <1>12, <2>1, <2>2 DEF Underway
<1>. QED
  BY <1>11, <1>13 DEF PrepInv

(* The deadline: what has not come is given back.                          *)
LEMMA DeadlineReached ==
  ASSUME PrepInv, ~stopped, NEW e \in due, e.at = clock, C!MissDeadline(e),
         UNCHANGED <<route, request, busy, selected, clock, cell, bits>>
  PROVE  PrepInv' /\ ~stopped'
<1>1. Underway /\ PrepTypes
  BY WhatIsDue DEF C!MissDeadline
<1>2. UNCHANGED <<stored, live, record, service, pauli, stopped>> /\ due' = due \ {DeadlineEvent}
  BY <1>1, DueFacts DEF C!MissDeadline, C!Handle
<1>3. /\ InTime' /\ DeadlineEvent' = DeadlineEvent
      /\ \A y : AbsorbEvent(y)' = AbsorbEvent(y) /\ ReportEvent(y)' = ReportEvent(y)
  BY <1>1, TimesStay DEF Underway
<1>4. /\ share' = [y \in C!Ends |-> IF service.ready THEN "occupied" ELSE "free"]
      /\ ~service.ready => hold' = "released"
  <2>1. CASE service.ready
    BY <1>1, <2>1 DEF C!MissDeadline, Underway, Noted, Closed
  <2>2. CASE ~service.ready
    BY <1>1, <2>2 DEF C!MissDeadline, Underway, Noted, Closed
  <2>. QED
    BY <2>1, <2>2
<1>5. Noted'
  BY <1>1, <1>2, <1>3, <1>4 DEF Underway, Noted, Closed
<1>6. PrepTypes'
  BY <1>1, <1>2, <1>4 DEF PrepTypes
<1>7. Underway'
  BY <1>1, <1>2, <1>3, <1>5, EventsDiffer DEF Underway
<1>. QED
  BY <1>2, <1>6, <1>7 DEF PrepInv

(* The clock goes to the next event, none of which comes after the deadline. *)
LEMMA ClockGoesOn ==
  ASSUME PrepInv, ~stopped, C!Clock
  PROVE  PrepInv' /\ ~stopped'
<1>1. /\ UNCHANGED <<route, request, busy, selected, due, stored, live, share, hold, record, service,
                     cell, bits, pauli, stopped>>
      /\ due # {} /\ \A e \in due : e.at > clock
      /\ clock' = C!Min({e.at : e \in due})
  BY DEF C!Clock
<1>2. Underway /\ PrepTypes
  <2>1. PICK e \in due : TRUE
    BY <1>1
  <2>2. ~Beginning
    BY <1>1 DEF Beginning, StartEvent, PrepEvent, NotBegun
  <2>3. ~AboutToEmit
    <3>1. AboutToEmit => EmitEvent \in due /\ clock = 0
      BY DEF AboutToEmit
    <3>2. EmitEvent.at = 0
      BY DEF EmitEvent, PrepEvent
    <3>. QED
      BY <1>1, <3>1, <3>2
  <2>. QED
    BY <1>1, <2>2, <2>3 DEF PrepInv, Waiting, Using
<1>3. \A e \in due : e.at \in Nat /\ e.at <= request.deadline
  BY <1>2, DueFacts
<1>4. PICK ticks \in SUBSET Nat : ticks = {e.at : e \in due}
  BY <1>3
<1>5. clock' \in ticks /\ \A t \in ticks : clock' <= t
  <2>1. ticks # {}
    BY <1>1, <1>4
  <2>. QED
    BY <1>1, <1>4, <2>1, LeastTick
<1>6. clock' \in Nat /\ clock' <= request.deadline /\ \A e \in due : clock' <= e.at
  BY <1>3, <1>4, <1>5
<1>7. /\ InTime' /\ DeadlineEvent' = DeadlineEvent
      /\ \A y : AbsorbEvent(y)' = AbsorbEvent(y) /\ ReportEvent(y)' = ReportEvent(y)
  BY <1>1, <1>2, TimesStay DEF Underway
<1>8. PrepTypes'
  BY <1>1, <1>2, <1>6 DEF PrepTypes
<1>9. Noted'
  BY <1>1, <1>2, <1>7 DEF Noted, Closed, Underway
<1>10. Underway'
  BY <1>1, <1>2, <1>6, <1>7, <1>9 DEF Underway
<1>. QED
  BY <1>1, <1>8, <1>10 DEF PrepInv


(* The cells that use the pair, or find that they have none.               *)
LEMMA CellKeeps ==
  ASSUME PrepInv, ~stopped, C!CellStep
  PROVE  (PrepInv' /\ ~stopped') \/ (stopped' /\ C!PreparationSound')
<1>1. UNCHANGED <<route, request, busy, selected, clock, due, stored, hold, service>>
  BY DEF C!CellStep
<1>2. PrepTypes /\ C!PreparationSound
  BY PrepInvSuffices DEF PrepInv
<1>3. ASSUME DOMAIN share' = C!Ends PROVE PrepTypes'
  BY <1>1, <1>2, <1>3 DEF PrepTypes
<1>4. C!Payload \notin C!Ends
  BY DEF C!Payload, C!Ends
<1>5. CASE C!PayloadCell
  <2>1. /\ UNCHANGED <<share, record, bits, pauli, stopped>> /\ cell' = "bell"
        /\ live' = live \cup {C!Payload} /\ due = {} /\ cell = "run"
    BY <1>5 DEF C!PayloadCell, C!Settled
  <2>2. Underway
    BY <2>1 DEF PrepInv, Waiting, Beginning, AboutToEmit, Using
  <2>3. live = stored /\ stored = service.reports /\ stored \subseteq C!Ends
    BY <2>1, <2>2 DEF Underway
  <2>4. Noted'
    BY <1>1, <2>1, <2>2, TimesStay DEF Underway, Noted, Closed
  <2>5. Using'
    <3>1. pauli = IF stored = C!Ends THEN C!LabelBits[C!PhiPlus] ELSE C!Unknown
      BY <2>2, <2>3 DEF Underway
    <3>2. /\ service'.ready <=> stored' = C!Ends
          /\ service'.ready => service'.readyTime <= request'.deadline
      BY <1>1, <2>2, <2>3 DEF Underway, Noted, Closed
    <3>. QED
      BY <1>1, <2>1, <2>3, <2>4, <3>1, <3>2 DEF Using
  <2>6. PrepTypes'
    BY <1>2, <1>3, <2>1 DEF PrepTypes
  <2>. QED
    BY <2>1, <2>5, <2>6 DEF PrepInv
<1>6. ASSUME cell \in {"bell", "correct", "discard", "consume"} PROVE Using /\ Noted /\ Closed
  BY <1>6 DEF PrepInv, Waiting, Beginning, AboutToEmit, Underway, Using, Closed
<1>7. ASSUME UNCHANGED <<live, share, record, cell, bits, pauli>>, stopped', Noted, Closed
      PROVE  C!PreparationSound'
  BY <1>1, <1>2, <1>7 DEF C!PreparationSound, C!ReadyIsReal, C!PlanHolds, C!RefusedLeavesNothing, C!HandedOver, Noted
<1>8. ASSUME UNCHANGED <<share, record>>, Noted PROVE Noted' /\ PrepTypes'
  <2>1. Closed' <=> Closed
    BY <1>1, TimesStay DEF Closed
  <2>2. Noted'
    BY <1>1, <1>8, <2>1 DEF Noted
  <2>. QED
    BY <1>2, <1>3, <1>8, <2>2 DEF PrepTypes
<1>9. CASE C!BellCell
  <2>1. cell = "bell" /\ UNCHANGED <<live, share, record>>
    BY <1>9 DEF C!BellCell
  <2>2. Using /\ Closed /\ Noted /\ Noted' /\ PrepTypes'
    BY <1>6, <1>8, <2>1
  <2>3. CASE "alice" \notin live
    <3>1. stopped' /\ UNCHANGED <<cell, bits, pauli>>
      BY <1>9, <2>3 DEF C!BellCell
    <3>. QED
      BY <1>7, <2>1, <2>2, <3>1
  <2>4. CASE "alice" \in live
    <3>1. PICK label \in C!Labels :
            /\ bits' = C!LabelBits[label]
            /\ pauli' = IF pauli = C!Unknown THEN C!Unknown ELSE C!Xor(pauli, C!LabelBits[label])
            /\ cell' = "correct" /\ stopped' = stopped
      BY <1>9, <2>4 DEF C!BellCell
    <3>2. /\ live = stored \cup {C!Payload} /\ "alice" \in stored
          /\ pauli = IF stored = C!Ends THEN C!LabelBits[C!PhiPlus] ELSE C!Unknown
      BY <2>1, <2>2, <2>4 DEF Using, C!Payload
    <3>3. C!LabelBits[C!PhiPlus] # C!Unknown
      BY DEF C!LabelBits, C!PhiPlus, C!Unknown
    <3>4. pauli' = IF stored = C!Ends THEN C!Xor(C!LabelBits[C!PhiPlus], bits') ELSE C!Unknown
      BY <3>1, <3>2, <3>3
    <3>5. Using'
      <4>1. \E l \in C!Labels : bits' = C!LabelBits[l]
        BY <3>1
      <4>2. /\ due' = {} /\ service'.reports = stored' /\ stored' \subseteq C!Ends
            /\ service'.ready <=> stored' = C!Ends
            /\ service'.ready => service'.readyTime <= request'.deadline
        BY <1>1, <2>2 DEF Using
      <4>. QED
        BY <1>1, <2>1, <2>2, <3>1, <3>2, <3>4, <4>1, <4>2 DEF Using
    <3>. QED
      BY <2>2, <3>1, <3>5 DEF PrepInv
  <2>. QED
    BY <2>3, <2>4
<1>10. CASE C!CorrectionCell
  <2>1. cell = "correct" /\ UNCHANGED <<live, share, record, bits>>
    BY <1>10 DEF C!CorrectionCell
  <2>2. Using /\ Closed /\ Noted /\ Noted' /\ PrepTypes'
    BY <1>6, <1>8, <2>1
  <2>3. /\ live = stored \cup {C!Payload} /\ "alice" \in stored
        /\ \E label \in C!Labels : bits = C!LabelBits[label]
        /\ pauli = IF stored = C!Ends THEN C!Xor(C!LabelBits[C!PhiPlus], bits) ELSE C!Unknown
    BY <2>1, <2>2 DEF Using
  <2>4. CASE "bob" \notin live
    <3>1. stopped' /\ UNCHANGED <<cell, pauli>>
      BY <1>10, <2>4 DEF C!CorrectionCell
    <3>. QED
      BY <1>7, <2>1, <2>2, <3>1
  <2>5. CASE "bob" \in live
    <3>1. stored = C!Ends
      BY <2>2, <2>3, <2>5 DEF Using, C!Ends, C!Payload
    <3>2. PICK label \in C!Labels : bits = C!LabelBits[label]
      BY <2>3
    <3>3. pauli = C!Xor(C!LabelBits[C!PhiPlus], C!LabelBits[label]) /\ pauli # C!Unknown
      BY <2>3, <3>1, <3>2, BitsCancel
    <3>4. /\ cell' = "discard" /\ stopped' = stopped
          /\ pauli' = C!Xor(C!Xor(pauli, C!PauliBits[IF bits[2] = 1 THEN "Z" ELSE "I"]),
                            C!PauliBits[IF bits[1] = 1 THEN "X" ELSE "I"])
      BY <1>10, <2>5, <3>3 DEF C!CorrectionCell
    <3>5. pauli' = <<0, 0>>
      BY <3>2, <3>3, <3>4, BitsCancel
    <3>6. Using'
      BY <1>1, <2>1, <2>2, <2>3, <3>1, <3>4, <3>5 DEF Using
    <3>. QED
      BY <2>2, <3>4, <3>6 DEF PrepInv
  <2>. QED
    BY <2>4, <2>5
<1>11. CASE C!DiscardCell
  <2>1. /\ cell = "discard" /\ UNCHANGED <<share, record, bits, pauli, stopped>>
        /\ live' = live \ {C!Payload, "alice"} /\ cell' = "consume"
    BY <1>11 DEF C!DiscardCell
  <2>2. Using /\ Closed /\ Noted /\ Noted' /\ PrepTypes'
    BY <1>6, <1>8, <2>1
  <2>3. live = stored \cup {C!Payload} /\ stored = C!Ends /\ pauli = <<0, 0>>
    BY <2>1, <2>2 DEF Using
  <2>4. live' = {"bob"}
    BY <2>1, <2>3 DEF C!Ends, C!Payload
  <2>5. Using'
    BY <1>1, <2>1, <2>2, <2>3, <2>4 DEF Using
  <2>. QED
    BY <2>1, <2>2, <2>5 DEF PrepInv
<1>12. CASE C!ConsumeCell
  <2>1. cell = "consume" /\ UNCHANGED <<live, bits, pauli>>
    BY <1>12 DEF C!ConsumeCell
  <2>2. Using /\ Closed /\ Noted
    BY <1>6, <2>1
  <2>3. stored = C!Ends /\ live = {"bob"} /\ pauli = <<0, 0>> /\ service.ready
    BY <2>1, <2>2 DEF Using
  <2>4. record = "reserved" /\ share = [x \in C!Ends |-> "occupied"]
    BY <2>2, <2>3 DEF Noted, Closed
  <2>5. /\ record' = "consumed" /\ share' = [share EXCEPT !["alice"] = "consumed"]
        /\ cell' = "done" /\ stopped' = stopped
    BY <1>12, <2>4 DEF C!ConsumeCell, C!Ends
  <2>6. share' = [x \in C!Ends |-> IF x = "alice" THEN "consumed" ELSE "occupied"]
    BY <2>4, <2>5 DEF C!Ends
  <2>7. Using'
    BY <1>1, <2>1, <2>2, <2>3, <2>5, <2>6 DEF Using
  <2>8. PrepTypes'
    BY <1>3, <2>6
  <2>. QED
    BY <2>5, <2>7, <2>8 DEF PrepInv
<1>. QED
  BY <1>5, <1>9, <1>10, <1>11, <1>12 DEF C!CellStep

(* The preparation, with what a refusal leaves.                            *)
PrepSound == (~stopped => PrepInv) /\ C!PreparationSound

(* Every step of the notebook.                                             *)
LEMMA PrepStepKeeps == PrepSound /\ [C!PrepNext]_(C!prepVars) => PrepSound'
<1>. SUFFICES ASSUME PrepSound, [C!PrepNext]_(C!prepVars) PROVE PrepSound'
  OBVIOUS
<1>1. CASE UNCHANGED C!prepVars
  <2>1. UNCHANGED <<route, request, busy, selected, clock, due, stored, live, share, hold, record, service,
                    cell, bits, pauli, stopped>>
    BY <1>1 DEF C!prepVars
  <2>2. C!PreparationSound'
    BY <2>1 DEF PrepSound, C!PreparationSound, C!ReadyIsReal, C!PlanHolds, C!RefusedLeavesNothing, C!HandedOver,
                C!Settled
  <2>3. PrepInv => PrepInv'
    <3>. SUFFICES ASSUME PrepInv PROVE PrepInv'
      OBVIOUS
    <3>1. PrepTypes'
      BY <2>1 DEF PrepInv, PrepTypes
    <3>2. /\ InTime => InTime' /\ DeadlineEvent' = DeadlineEvent
          /\ \A x : AbsorbEvent(x)' = AbsorbEvent(x) /\ ReportEvent(x)' = ReportEvent(x)
          /\ EmitEvent' = EmitEvent /\ StartEvent' = StartEvent
      BY <2>1, TimesStay DEF EmitEvent, StartEvent, PrepEvent
    <3>3. (NotBegun => NotBegun') /\ (Noted => Noted')
      <4>1. Closed' <=> Closed
        <5>1. due' = due /\ request' = request
          BY <2>1
        <5>. QED
          BY ONLY <5>1 DEF Closed, DeadlineEvent, PrepEvent
      <4>2. NotBegun => NotBegun'
        <5>. SUFFICES ASSUME NotBegun PROVE NotBegun'
          OBVIOUS
        <5>1. /\ clock' = 0 /\ live' = {} /\ record' = "none" /\ pauli' = C!Unknown
              /\ service' = service /\ service.reports = {} /\ ~service.ready
          BY <2>1 DEF NotBegun
        <5>2. /\ \A x \in C!Ends : share[x] # "reserved" /\ (share[x] = "free" => x \notin stored)
              /\ stored \subseteq C!Ends /\ share' = share /\ stored' = stored
          BY <2>1 DEF NotBegun
        <5>3. service'.reports = {} /\ ~service'.ready
          BY ONLY <5>1
        <5>4. /\ \A x \in C!Ends : share'[x] # "reserved" /\ (share'[x] = "free" => x \notin stored')
              /\ stored' \subseteq C!Ends
          BY ONLY <5>2
        <5>. QED
          BY ONLY <5>1, <5>3, <5>4 DEF NotBegun, C!Ends, C!Unknown
      <4>3. Noted => Noted'
        <5>1. CASE Closed
          BY <2>1, <4>1, <5>1 DEF Noted
        <5>2. CASE ~Closed
          BY <2>1, <4>1, <5>2 DEF Noted
        <5>. QED
          BY <5>1, <5>2
      <4>. QED
        BY <4>2, <4>3
    <3>4. (Waiting => Waiting') /\ (Beginning => Beginning') /\ (AboutToEmit => AboutToEmit')
      BY <2>1, <3>2, <3>3 DEF Waiting, Beginning, AboutToEmit
    <3>5. Underway => Underway'
      BY <2>1, <3>2, <3>3 DEF Underway
    <3>6. Using => Using'
      BY <2>1, <3>3 DEF Using
    <3>. QED
      BY <3>1, <3>4, <3>5, <3>6 DEF PrepInv
  <2>. QED
    BY <2>1, <2>2, <2>3 DEF PrepSound
<1>2. CASE C!PrepNext
  <2>1. PrepInv /\ ~stopped
    BY <1>2 DEF PrepSound, C!PrepNext
  <2>. SUFFICES (PrepInv' /\ ~stopped') \/ (stopped' /\ C!PreparationSound')
    <3>1. PrepInv' /\ ~stopped' => C!PreparationSound'
      BY PrepInvSuffices, PTL
    <3>. QED
      BY <3>1 DEF PrepSound
  <2>2. CASE C!Select
    BY <2>1, <2>2, SelectKeeps
  <2>3. CASE C!RunStep
    <3>1. PICK e \in due : /\ e.at = clock
                           /\ \/ C!ReserveSlotAndStart(e) \/ C!Emit(e) \/ C!Absorb(e)
                              \/ C!OnReport(e) \/ C!MissDeadline(e)
      BY <2>3 DEF C!RunStep
    <3>2. UNCHANGED <<route, request, busy, selected, clock, cell, bits>>
      BY <2>3 DEF C!RunStep
    <3>. QED
      BY <2>1, <3>1, <3>2, StartKeeps, PairEmitted, HalfAbsorbed, HalfReported, DeadlineReached
  <2>4. CASE C!Clock
    BY <2>1, <2>4, ClockGoesOn
  <2>5. CASE C!CellStep
    BY <2>1, <2>5, CellKeeps
  <2>. QED
    BY <1>2, <2>2, <2>3, <2>4, <2>5 DEF C!PrepNext
<1>. QED
  BY <1>1, <1>2

(* A pair prepared under a deadline, whatever halves are lost: called      *)
(* ready it is there and came in time; planned and not lost it is ready,   *)
(* and else the slots are given back; and what it teleports arrives        *)
(* (reserve_slot_and_start, complete_pair_if_ready, miss_deadline).        *)
THEOREM PreparationHolds == ProtocolsSpec => []C!PreparationSound
<1>1. ProtocolsInit => PrepSound
  <2>. SUFFICES ASSUME C!PrepInit, ProtocolsInit PROVE PrepSound
    BY DEF ProtocolsInit
  <2>1. request.deadline \in Nat \ {0}
    BY DEF C!PrepInit, MCRequests
  <2>2. PrepTypes
    BY <2>1 DEF C!PrepInit, PrepTypes
  <2>3. Waiting
    BY DEF C!PrepInit, Waiting, NotBegun, C!Ends
  <2>4. C!PreparationSound
    BY <2>2, <2>3, PrepInvSuffices DEF PrepInv, C!PrepInit
  <2>. QED
    BY <2>2, <2>3, <2>4 DEF PrepSound, PrepInv
<1>2. PrepSound /\ [ProtocolsNext]_allVars => PrepSound'
  <2>1. [ProtocolsNext]_allVars => [C!PrepNext]_(C!prepVars)
    BY DEF ProtocolsNext, SessionStep, RoundStep, TeleportStep, PairStep, PlanningStep, RuntimeStep, PrepareStep,
       allVars, prepVars, C!prepVars
  <2>. QED
    BY <2>1, PrepStepKeeps
<1>3. PrepSound => C!PreparationSound
  BY DEF PrepSound
<1>. QED
  BY <1>1, <1>2, <1>3, PTL DEF ProtocolsSpec
=============================================================================

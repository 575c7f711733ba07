----------------------------- MODULE MCProtocols -----------------------------
(* Things a network is used for, none of which reads the others: an E91    *)
(* session, a round of distillation, rounds of teleportation, pairs over a *)
(* route, a pair prepared under a deadline, the planning of routes, and    *)
(* the binding and running of sessions.                                    *)
(* A behaviour is of one of them, and the others stay as they are made.    *)
EXTENDS E91Session, NetworkRoutes, SessionRuntime

CONSTANTS Rounds, Distances   \* of the teleportation

(* Frames of the E91 session: four pairs of the Bell test, four of the     *)
(* key, one of neither; with errors in the key or the test, pairs that one *)
(* side missed, a report that failed and a pair that is reported twice;    *)
(* and one in which the last pair is a fifth of the test, and weakens it.  *)
MCPairs == 1..9

BBasis == <<"B0", "B0", "B2", "B2", "B1", "B2", "B1", "B2", "B1">>
DBasis == <<"D0", "D2", "D0", "D2", "D0", "D1", "D0", "D1", "D1">>

Report(p, basis, outcome) ==
  [pair |-> p, basis |-> basis, outcome |-> outcome, success |-> TRUE]

\* Only the second category has equal outcomes: S is -4.
BFrame == [p \in MCPairs |-> Report(p, BBasis[p], p % 2)]
DFrame(wrong) == [p \in MCPairs |->
                    Report(p, DBasis[p], (p + (IF p = 2 THEN 0 ELSE 1)
                                            + (IF p \in wrong THEN 1 ELSE 0)) % 2)]

MCFrames ==
  {[b |-> BFrame, d |-> DFrame(w)] : w \in {{}, {5}, {6}, {5, 7}, {6, 8}, {1}}} \cup
  { [b |-> [BFrame EXCEPT ![9].basis = "B0"], d |-> [DFrame({9}) EXCEPT ![9].basis = "D0"]] } \cup
  { [b |-> Tail(BFrame), d |-> DFrame({})],
    [b |-> RemoveAt(BFrame, 5), d |-> RemoveAt(DFrame({}), 6)],
    [b |-> [BFrame EXCEPT ![9].success = FALSE],
     d |-> Append(DFrame({7}), [DFrame({})[8] EXCEPT !.outcome = 1 - @])] }

MCSampleChoices(n, size) == {<<1>>, <<3>>}
MCShuffles(n) == {[i \in 1..n |-> i], Reverse([i \in 1..n |-> i])}
MCEveBits(n, s) == IF s = -400 THEN 0 ELSE 2
MCErrorBits(n, errors, size) == n
MCSecurityMargin == -4
-----------------------------------------------------------------------------
(* The network: four nodes; parallel links from 1 to 2, links both ways    *)
(* between 2 and 3, a link from 3 to itself, one of another kind from 1 to *)
(* 4, one back to 1.  In the first table of costs the way with the most    *)
(* hops is the cheapest, in the second links cost nothing or the same.     *)
Quantum(from, to) == [from |-> from, to |-> to, kind |-> "quantum"]

MCLinkEnds == << Quantum(1, 2), Quantum(1, 3), Quantum(1, 2), Quantum(2, 3), Quantum(3, 2),
                 Quantum(2, 4), Quantum(3, 4), Quantum(3, 3), Quantum(2, 1),
                 [from |-> 1, to |-> 4, kind |-> "classical"] >>

MCCosts == { <<2, 5, 1, 1, 1, 5, 1, 0, 0, 1>>, <<1, 0, 1, 1, 0, 1, 1, 0, 0, 1>> }

Ask(source, target, max) ==
  [source |-> source, target |-> target, kind |-> "quantum", max |-> max]

MCQuestions == { Ask(1, 4, 1), Ask(1, 4, 2), Ask(1, 4, 4), Ask(1, 1, 0), Ask(3, 1, 2) }

MCNodes == 1..4
MCLinks == 1..10
-----------------------------------------------------------------------------
(* Two sessions over a memory, a channel and two agents, of which one has  *)
(* random streams of its own.                                              *)
MCSessions    == {"first", "second"}
MCDeviceOrder == <<"memory", "channel">>
MCAgentOrder  == <<"alice", "bob">>
MCStreams     == [x \in {"memory", "channel", "alice", "bob"} |->
                    CASE x = "memory"  -> {"absorb", "emit"}
                      [] x = "channel" -> {"loss"}
                      [] x = "alice"   -> {"choice"}
                      [] x = "bob"     -> {}]
MCStanding    == {"memory", "bob"}
-----------------------------------------------------------------------------
(* One slot at Alice's and at Bob's, two at the relay; three records.      *)
MCRoute     == <<"alice", "relay", "bob">>
MCRouteLinks == <<"alice-relay", "relay-bob">>
MCSlotNodes == <<"alice", "relay", "relay", "bob">>
MCNeeds     == <<1, 2, 1>>
-----------------------------------------------------------------------------
(* The two stations of the capstone; one fiber much longer; and a second   *)
(* station as good as the first, with a fiber that loses nothing.  The     *)
(* deadline is the notebook's, that of the last arrival, or too short.     *)
Spans(length, attenuation, insertion, fidelity) ==
  << [length |-> length, attenuation |-> attenuation, insertion |-> insertion,
      fidelity |-> fidelity] >>

CapstoneNetwork ==
  << [alice |-> Spans(6, 90, 150, 94),    bob |-> Spans(7, 90, 150, 94)],
     [alice |-> Spans(30, 110, 1000, 88), bob |-> Spans(36, 110, 1200, 88)] >>

MCNetworks ==
  { CapstoneNetwork, [CapstoneNetwork EXCEPT ![1].alice[1].length = 24],
    [CapstoneNetwork EXCEPT ![2] = [alice |-> Spans(6, 90, 150, 94), bob |-> Spans(7, 0, 0, 92)]] }

MCRequests == [deadline : {6, 7, 24}, fidelity : {90, 95}]
-----------------------------------------------------------------------------
VARIABLES emitted, flight, memory, delayed, expires, requests, running, reports,
          mail, agent, joint, gone, expired, halted,   \* of the round
          distance, now, events, input, half, held, analyzer, alice, bob, fault,
          rows, broken,                                \* of the teleportation
          tick, registry, slot, readyAt, reservation, holder, nextIndex, about,
          holds, entangled, decayed, plan, theirs, todo, refused,   \* of the pairs
          route, request, busy, selected, clock, due, stored, live, share, hold,
          record, service, cell, bits, pauli, stopped, \* of the preparation
          subject                                      \* which of them

D == INSTANCE Distillation WITH lost <- gone, raised <- halted
T == INSTANCE Teleportation WITH raised <- broken
P == INSTANCE PairService WITH
       now <- tick, pairs <- registry, lost <- decayed, raised <- refused,
       MaxTime <- 1, Never <- -1, PairIds <- 1..3, Slots <- 1..4,
       Nodes <- ToSet(MCRoute), NodeOf <- MCSlotNodes, DeviceOf <- MCSlotNodes,
       RouteNodes <- MCRoute, RouteLinks <- MCRouteLinks, NodeRequirements <- MCNeeds,
       Fidelities <- {1, 2}, MinFidelity <- 2, Lifetime <- 1

C == INSTANCE PairPreparation WITH
       now <- clock, events <- due, memory <- stored, slot <- share, reservation <- hold,
       pair <- record, agent <- service, fault <- pauli, raised <- stopped,
       Stations <- 2, Networks <- MCNetworks, Requests <- MCRequests

roundVars == <<emitted, flight, memory, delayed, expires, requests, running, reports,
               mail, agent, joint, gone, expired, halted>>
portVars  == <<distance, now, events, input, half, held, analyzer, alice, bob, fault,
               rows, broken>>
pairVars  == <<tick, registry, slot, readyAt, reservation, holder, nextIndex, about,
               holds, entangled, decayed, plan, theirs, todo, refused>>
prepVars  == <<route, request, busy, selected, clock, due, stored, live, share, hold,
               record, service, cell, bits, pauli, stopped>>
allVars   == <<vars, roundVars, routesVars, portVars, runtimeVars, pairVars, prepVars, subject>>

ProtocolsInit ==
  /\ subject \in {"e91", "distillation", "teleportation", "pairs", "preparation",
                "routes", "runtime"}
  /\ Init
  /\ subject = "e91" \/ frame = CHOOSE f \in Frames : TRUE
  /\ D!Init
  /\ subject = "distillation" \/ (~delayed /\ ~expires)
  /\ T!Init
  /\ subject = "teleportation" \/ distance = CHOOSE x \in Distances : TRUE
  /\ P!ServiceInit
  /\ subject = "pairs" \/ \A s \in 1..4 : slot[s] = "free"
  /\ C!PrepInit
  /\ \/ subject = "preparation"
     \/ route = CapstoneNetwork /\ request = [deadline |-> 24, fidelity |-> 90] /\ busy = {}
  /\ RuntimeInit
  /\ foreign \in (IF subject = "runtime" THEN {{}, {"channel"}} ELSE {{}})
  /\ RoutesInit

SessionStep  == /\ subject = "e91" /\ Next
                /\ UNCHANGED <<roundVars, routesVars, portVars, runtimeVars, pairVars, prepVars, subject>>
RoundStep    == /\ subject = "distillation" /\ D!Next
                /\ UNCHANGED <<vars, routesVars, portVars, runtimeVars, pairVars, prepVars, subject>>
TeleportStep == /\ subject = "teleportation" /\ T!Next
                /\ UNCHANGED <<vars, roundVars, routesVars, runtimeVars, pairVars, prepVars, subject>>
PairStep     == /\ subject = "pairs" /\ P!ServiceNext
                /\ UNCHANGED <<vars, roundVars, routesVars, portVars, runtimeVars, prepVars, subject>>
PlanningStep == /\ subject = "routes" /\ RoutesNext
                /\ UNCHANGED <<vars, roundVars, portVars, runtimeVars, pairVars, prepVars, subject>>
RuntimeStep  == /\ subject = "runtime" /\ RuntimeNext
                /\ UNCHANGED <<vars, roundVars, routesVars, portVars, pairVars, prepVars, subject>>
PrepareStep  == /\ subject = "preparation" /\ C!PrepNext
                /\ UNCHANGED <<vars, roundVars, routesVars, portVars, runtimeVars, pairVars, subject>>

ProtocolsNext ==
  \/ SessionStep \/ RoundStep \/ TeleportStep \/ PairStep \/ PrepareStep
  \/ PlanningStep \/ RuntimeStep

(* The timeline of a session or a round is drained.                        *)
Drained == SessionStep \/ RoundStep \/ TeleportStep \/ PrepareStep

ProtocolsSpec == ProtocolsInit /\ [][ProtocolsNext]_allVars /\ WF_allVars(Drained)
-----------------------------------------------------------------------------
(* In a round of distillation, the state recorded as the kept one is that   *)
(* of pair 1, and no handler raises but after a qubit has expired           *)
(* (distillation.ipynb); what Bob collects for a round of teleportation is  *)
(* the state Alice has put in (teleportation.ipynb, _try_correction);      *)
(* records of pairs speak of entangled qubits, and the ledger of slots and *)
(* the registry of pairs agree (build.py, queries.py, control/pairs.py);   *)
(* a pair prepared for teleportation is there when it is called ready, in  *)
(* time, and teleports (01_prepare_entanglement_for_teleportation).        *)
RoundsAreSound ==
  /\ D!KeptIsTheSourcePair /\ D!RaisesOnlyAfterExpiry
  /\ T!Teleported
  /\ P!ServiceSound
  /\ C!PreparationSound

(* An E91 session that loses no message ends in a decision of both agents  *)
(* (e91_agents.py), a distillation that loses nothing is settled at both   *)
(* ends (distillation.ipynb), and where a round of teleportation ends      *)
(* before the next half comes all are collected (teleportation.ipynb), and *)
(* the request for a pair is met, refused or given up (capstone).          *)
ProtocolsEnd ==
  <>(\/ subject = "e91" /\ BothDecided
     \/ subject = "distillation" /\ D!RoundSettled
     \/ subject = "teleportation" /\ T!EveryRoundCollected
     \/ subject = "preparation" /\ C!RequestSettled
     \/ subject \in {"pairs", "routes", "runtime"})

(* The single routes found are the best by hops and by cost, and the       *)
(* candidates are all there are, ranked (routing.py, planning.py).         *)
RoutesFound == FewestHopsFound /\ LowestCostFound /\ CandidatesComplete
=============================================================================

----------------------------- MODULE PairService -----------------------------
(***************************************************************************)
(* Entanglement over a route, as a controller makes it with the services   *)
(* of control/resources.py and control/pairs.py: memories reserved along   *)
(* the route, pairs recorded from absorb reports, one pair of each hop     *)
(* chosen by a query, reserved some time later, and swapped into one.      *)
(* Another agent takes pairs between neighbours from the same registry,    *)
(* anybody sweeps it, and a memory may lose a qubit, of which it tells     *)
(* neither ledger.  A handler is a series of calls; one that is refused    *)
(* raises and ends the run, and what the calls before it did stays.        *)
(***************************************************************************)
EXTENDS PairRegistry, SequencesExt

CONSTANTS Nodes, NodeOf, DeviceOf,   \* of the slots, which are in key order
          RouteNodes, RouteLinks,    \* the route
          NodeRequirements,          \* slots wanted at each node of the route
          Fidelities, MinFidelity,
          Lifetime,                  \* ticks until the record of a pair expires
          MaxLost                    \* bound: qubits that memories lose

VARIABLES slot, readyAt, reservation, holder, nextIndex,   \* the ledger of slots
          about,       \* pair id -> the rest of its record
          holds,       \* slot -> occupancy token of the qubit in it, or NoToken
          entangled,   \* the pairs of tokens whose qubits are entangled
          lost,
          plan,        \* the controller
          theirs,      \* the pairs that the other agent has reserved
          todo,        \* the calls that the running handler has still to make
          raised

ledgerVars   == <<slot, readyAt, reservation, holder, nextIndex>>
physicalVars == <<holds, entangled, lost>>
serviceVars  == <<now, pairs, ledgerVars, about, physicalVars, plan, theirs, todo, raised>>

Me == "controller"
Ledger == INSTANCE ResourceManager WITH Owners <- {Me}, MaxReservations <- 1

Hops    == DOMAIN RouteLinks
NoToken == 0
NoLink  == "none"
Blank   == [left |-> Never, right |-> Never, leftToken |-> NoToken, rightToken |-> NoToken,
            fidelity |-> 0, link |-> NoLink]

(* A slot at the route may be occupied before.                             *)
ServiceInit ==
  /\ Init
  /\ \E taken \in {{}} \cup {{s} : s \in Slots} :
       slot = [s \in Slots |-> IF s \in taken THEN "occupied" ELSE "free"]
  /\ readyAt = [s \in Slots |-> Never]
  /\ reservation = [r \in Ledger!ResId |-> Ledger!NoReservation]
  /\ holder = [s \in Slots |-> Ledger!NoHolder]
  /\ nextIndex = 0
  /\ about = [i \in PairIds |-> Blank]
  /\ holds = [s \in Slots |-> NoToken] /\ entangled = {} /\ lost = 0
  /\ plan = [phase |-> "start", answer |-> <<>>, chosen |-> <<>>]
  /\ theirs = {} /\ todo = <<>> /\ raised = FALSE
-----------------------------------------------------------------------------
(* Queries of the registry *)

ConnectsNodes(i, first, second) ==
  {NodeOf[about[i].left], NodeOf[about[i].right]} = {first, second}

PassesMinFidelity(i) == about[i].fidelity >= MinFidelity

AvailableBetween(first, second, link) ==
  {i \in Known : /\ pairs[i].state = "available" /\ ConnectsNodes(i, first, second)
                 /\ PassesMinFidelity(i) /\ about[i].link = link}

(* available_pairs_for_route_hops: each in the order of the ids            *)
RouteHopCandidates ==
  [h \in Hops |->
     SetToSortSeq(AvailableBetween(RouteNodes[h], RouteNodes[h + 1], RouteLinks[h]), <)]

RouteHopsReady == \A h \in Hops : RouteHopCandidates[h] # <<>>
-----------------------------------------------------------------------------
(* Records *)

(* The record of two reports of absorbs, which both must have succeeded.   *)
PairFromAbsorbs(left, right, fidelity, link) ==
  [left |-> left.slot, right |-> right.slot, leftToken |-> left.token,
   rightToken |-> right.token, fidelity |-> fidelity, link |-> link]

OuterToken(i, outer) ==
  IF outer = about[i].left THEN about[i].leftToken ELSE about[i].rightToken

SwappedPairFromBSA(i, j, leftOuter, rightOuter) ==
  [left |-> leftOuter, right |-> rightOuter,
   leftToken |-> OuterToken(i, leftOuter), rightToken |-> OuterToken(j, rightOuter),
   fidelity |-> MinFidelity, link |-> NoLink]
-----------------------------------------------------------------------------
(* Calls *)

(* route_memory_requirements: what is wanted at every visit to a node; a   *)
(* wish per device is the same, since a node has one.                      *)
RouteMemoryRequirements ==
  [n \in Nodes |-> FoldLeft(LAMBDA sum, k : IF RouteNodes[k] = n THEN sum + NodeRequirements[k]
                                            ELSE sum,
                            0, [k \in DOMAIN RouteNodes |-> k])]

(* reserve_route_memories: a route without wishes is refused.              *)
ReserveForRoute ==
  /\ \E n \in Nodes : RouteMemoryRequirements[n] > 0
  /\ Ledger!ReserveMemories(RouteMemoryRequirements, NodeOf, Me, Never)

(* mark_absorb_report *)
MarkAbsorbReport(report) == report.success /\ Ledger!MarkOccupied(report.slot)

LedgerCall(c) ==
  /\ \/ c.call = "reserve_for_route" /\ ReserveForRoute
     \/ c.call = "commit" /\ \E r \in Ledger!Known : Ledger!Commit(r, Me)
     \/ c.call = "mark_absorb_report" /\ MarkAbsorbReport(c.report)
     \/ c.call = "mark_consumed" /\ Ledger!MarkConsumed(c.slot)
     \/ c.call = "mark_free" /\ Ledger!MarkFree(c.slot)
  /\ UNCHANGED <<pairs, about>>

RegistryCall(c) ==
  /\ \/ /\ c.call = "register"
        /\ Register(c.id, [state |-> "available", ends |-> {c.about.left, c.about.right},
                           expires |-> c.expires])
        /\ about' = [about EXCEPT ![c.id] = c.about]
     \/ c.call = "reserve" /\ Reserve(c.id) /\ UNCHANGED about
     \/ c.call = "release" /\ Release(c.id) /\ UNCHANGED about
     \/ c.call = "consume" /\ Consume(c.id) /\ UNCHANGED about
     \/ c.call = "fail" /\ Fail(c.id) /\ UNCHANGED about
  /\ UNCHANGED ledgerVars

Call(c) == LedgerCall(c) \/ RegistryCall(c)

CallReturns ==
  /\ ~raised /\ todo # <<>>
  /\ Call(Head(todo))
  /\ todo' = Tail(todo)
  /\ UNCHANGED <<physicalVars, plan, theirs, raised>>

CallRaises ==
  /\ ~raised /\ todo # <<>>
  /\ ~ENABLED Call(Head(todo))
  /\ raised' = TRUE
  /\ UNCHANGED <<now, pairs, ledgerVars, about, physicalVars, plan, theirs, todo>>
-----------------------------------------------------------------------------
(* Handlers *)

Idle == todo = <<>> /\ ~raised

Calls(calls) == todo' = calls /\ UNCHANGED <<now, pairs, ledgerVars, about, raised>>

Of(call, i) == [call |-> call, id |-> i]
At(call, s) == [call |-> call, slot |-> s]

(* The controller reserves and commits the memories of the route.          *)
PlanRoute ==
  /\ Idle /\ plan.phase = "start"
  /\ Calls(<<[call |-> "reserve_for_route"], [call |-> "commit"]>>)
  /\ plan' = [plan EXCEPT !.phase = "planned"]
  /\ UNCHANGED <<physicalVars, theirs>>

Reserved == UNION {reservation[r].refs : r \in {k \in Ledger!Known : Ledger!Open(k)}}
FreshIds == PairIds \ Known
NextId   == CHOOSE i \in FreshIds : \A j \in FreshIds : i <= j

(* Two memories of a hop absorb the halves of a pair, the second perhaps   *)
(* without success, and report it; either may be the left of the record,   *)
(* here that of the next node in every other one.                          *)
AbsorbPair(h, s, t, fidelity, success) ==
  LET atS == [slot |-> s, token |-> 2 * NextId - 1, success |-> TRUE]
      atT == [slot |-> t, token |-> 2 * NextId, success |-> success]
      record == IF NextId % 2 = 0 THEN PairFromAbsorbs(atT, atS, fidelity, RouteLinks[h])
                ELSE PairFromAbsorbs(atS, atT, fidelity, RouteLinks[h])
  IN  /\ NodeOf[s] = RouteNodes[h] /\ NodeOf[t] = RouteNodes[h + 1]
      /\ holds' = [holds EXCEPT ![s] = atS.token, ![t] = IF success THEN atT.token ELSE @]
      /\ entangled' = entangled \cup (IF success THEN {{atS.token, atT.token}} ELSE {})
      /\ Calls(<<[call |-> "mark_absorb_report", report |-> atS],
                 [call |-> "mark_absorb_report", report |-> atT],
                 [call |-> "register", id |-> NextId, about |-> record,
                  expires |-> now + Lifetime]>>)
      /\ UNCHANGED <<lost, plan, theirs>>

(* route_hops_ready, and the first candidate of each hop is chosen.        *)
AskForHops ==
  /\ Idle /\ plan.phase = "planned" /\ RouteHopsReady
  /\ plan' = [phase |-> "asked", answer |-> RouteHopCandidates,
              chosen |-> [h \in Hops |-> RouteHopCandidates[h][1]]]
  /\ UNCHANGED <<now, pairs, ledgerVars, about, physicalVars, theirs, todo, raised>>

ReserveChosen ==
  /\ Idle /\ plan.phase = "asked"
  /\ Calls([h \in Hops |-> Of("reserve", plan.chosen[h])])
  /\ plan' = [plan EXCEPT !.phase = "reserved"]
  /\ UNCHANGED <<physicalVars, theirs>>

(* A Bell measurement of the two qubits at the middle node, if they are    *)
(* still there; then the pairs are spent, and one over both hops recorded. *)
MiddleOf(i) == CHOOSE s \in pairs[i].ends : NodeOf[s] = RouteNodes[2]
OuterOf(i)  == CHOOSE s \in pairs[i].ends : NodeOf[s] # RouteNodes[2]

Swap(success) ==
  LET i == plan.chosen[1]
      j == plan.chosen[2]
      middles == {MiddleOf(i), MiddleOf(j)}
  IN  /\ Idle /\ plan.phase = "reserved" /\ FreshIds # {}
      /\ \A s \in middles : holds[s] # NoToken
      /\ holds' = [s \in Slots |-> IF s \in middles THEN NoToken ELSE holds[s]]
      /\ entangled' = entangled \cup
           (IF success THEN {{holds[OuterOf(i)], holds[OuterOf(j)]}} ELSE {})
      /\ plan' = [plan EXCEPT !.phase = "swapped"]
      /\ IF success
           THEN Calls(<<Of("consume", i), Of("consume", j), At("mark_consumed", MiddleOf(i)),
                        At("mark_consumed", MiddleOf(j)),
                        [call |-> "register", id |-> NextId, expires |-> Never,
                         about |-> SwappedPairFromBSA(i, j, OuterOf(i), OuterOf(j))]>>)
           ELSE Calls(<<Of("fail", i), Of("fail", j)>>)
      /\ UNCHANGED <<lost, theirs>>
-----------------------------------------------------------------------------
(* Everybody else *)

(* The other agent takes a pair between neighbours as soon as it sees it.  *)
TheyReserve(i) ==
  /\ Idle
  /\ \E h \in Hops : i \in AvailableBetween(RouteNodes[h], RouteNodes[h + 1], RouteLinks[h])
  /\ theirs' = theirs \cup {i}
  /\ Calls(<<Of("reserve", i)>>)
  /\ UNCHANGED <<physicalVars, plan>>

TheyRelease(i) ==
  /\ Idle /\ i \in theirs
  /\ theirs' = theirs \ {i}
  /\ Calls(<<Of("release", i)>>)
  /\ UNCHANGED <<physicalVars, plan>>

(* They measure both qubits and give the slots back.                       *)
TheyUse(i) ==
  /\ Idle /\ i \in theirs
  /\ theirs' = theirs \ {i}
  /\ holds' = [s \in Slots |-> IF s \in pairs[i].ends THEN NoToken ELSE holds[s]]
  /\ LET s == about[i].left
         t == about[i].right
     IN  Calls(<<Of("consume", i), At("mark_consumed", s), At("mark_consumed", t),
                 At("mark_free", s), At("mark_free", t)>>)
  /\ UNCHANGED <<entangled, lost, plan>>

Sweep == /\ Idle /\ ExpireBefore
         /\ UNCHANGED <<ledgerVars, about, physicalVars, plan, theirs, todo, raised>>

Lose(s) ==
  /\ Idle /\ holds[s] # NoToken /\ lost < MaxLost
  /\ holds' = [holds EXCEPT ![s] = NoToken] /\ lost' = lost + 1
  /\ UNCHANGED <<now, pairs, ledgerVars, about, entangled, plan, theirs, todo, raised>>

TimePasses == /\ Idle /\ Tick
              /\ UNCHANGED <<ledgerVars, about, physicalVars, plan, theirs, todo, raised>>

(* Sources feed, at each node, the first slot that the controller has      *)
(* reserved and not filled.                                                *)
Empty ==
  {s \in Reserved : /\ slot[s] = "reserved"
                    /\ \A t \in Reserved :
                         t < s /\ NodeOf[t] = NodeOf[s] => slot[t] # "reserved"}

Absorb ==
  /\ Idle /\ plan.phase # "start" /\ FreshIds # {}
  /\ \E s, t \in Empty, h \in Hops, fidelity \in Fidelities, success \in BOOLEAN :
       AbsorbPair(h, s, t, fidelity, success)

ServiceNext ==
  \/ CallReturns \/ CallRaises
  \/ PlanRoute \/ Absorb
  \/ AskForHops \/ ReserveChosen \/ \E success \in BOOLEAN : Swap(success)
  \/ \E i \in PairIds : TheyReserve(i) \/ TheyRelease(i) \/ TheyUse(i)
  \/ Sweep \/ TimePasses \/ \E s \in Slots : Lose(s)

ServiceSpec == ServiceInit /\ [][ServiceNext]_serviceVars
-----------------------------------------------------------------------------
(* A slot of a pair in use holds the qubit that its record speaks of, or   *)
(* has lost it, and the two qubits are entangled with each other: through  *)
(* swaps, refills of a slot and records stored either way round.           *)
RecordsTrue ==
  \A i \in PairIds : InUse(i) =>
    LET r == about[i] IN
    /\ holds[r.left] \in {r.leftToken, NoToken} /\ holds[r.right] \in {r.rightToken, NoToken}
    /\ NoToken \notin {holds[r.left], holds[r.right]} => {r.leftToken, r.rightToken} \in entangled

(* Whatever pair is taken from each hop of an answer, the pairs use        *)
(* different slots and lead along the route, also when the answer is old.  *)
AnswersAreChains ==
  /\ \A h \in DOMAIN plan.answer : \A i \in ToSet(plan.answer[h]) :
       {NodeOf[s] : s \in pairs[i].ends} = {RouteNodes[h], RouteNodes[h + 1]}
  /\ \A h, g \in DOMAIN plan.answer : h # g =>
       \A i \in ToSet(plan.answer[h]), j \in ToSet(plan.answer[g]) :
         pairs[i].ends \cap pairs[j].ends = {}

(* What the controller has reserved nobody takes; only a sweep ends it.    *)
ChosenStayReserved ==
  Idle /\ plan.phase = "reserved" =>
    \A h \in Hops : plan.chosen[h] \notin theirs
                      /\ pairs[plan.chosen[h]].state \in {"reserved", "expired"}

(* Between handlers the slots of a pair in use are occupied and reserved   *)
(* for the route, which has all of what it wants or nothing.               *)
LedgersAgree ==
  /\ Idle => \A i \in PairIds : InUse(i) =>
       pairs[i].ends \subseteq {s \in Reserved : slot[s] = "occupied"}
  /\ Reserved # {} => \A n \in Nodes :
       Cardinality({s \in Reserved : NodeOf[s] = n}) = RouteMemoryRequirements[n]

ServiceSound == RecordsTrue /\ AnswersAreChains /\ ChosenStayReserved /\ LedgersAgree
=============================================================================

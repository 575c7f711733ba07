--------------------------- MODULE PairPreparation ---------------------------
(***************************************************************************)
(* The entanglement service of tutorials/11_capstone: a controller chooses *)
(* a source that reaches Alice and Bob, reserves a memory at each, starts  *)
(* the source under a deadline, and makes a reserved pair of two absorb    *)
(* reports; when the run is over the pair is used to teleport a state.     *)
(*                                                                         *)
(* Events of one tick come in any order, which includes the engine's.      *)
(* Lengths are in half kilometres, which is also what light takes for a    *)
(* unit of time, losses in thousandths of a decibel, fidelities in percent.*)
(* An exception ends the run, and the notebook.                            *)
(***************************************************************************)
EXTENDS PauliLabels, SequencesExt

CONSTANTS Stations,    \* the candidate sources, in the order of their ids
          Networks,    \* station -> end -> the spans of its route
          Requests     \* what is asked for: the deadline and a fidelity

VARIABLES route, request, busy,   \* the network, the job, memories in use before
          selected,
          now, events,            \* the timeline
          memory,                 \* the ends whose memory holds a qubit
          live,                   \* the qubits that the state store knows
          slot, reservation,      \* the ledger of slots
          pair,                   \* the state of the record, or "none"
          agent,
          cell, bits, fault,      \* the cells that use the pair
          raised

prepVars == <<route, request, busy, selected, now, events, memory, live, slot, reservation,
              pair, agent, cell, bits, fault, raised>>

Ends      == {"alice", "bob"}
Payload   == "payload"
NoStation == 0
Unknown   == <<2, 2>>   \* the qubits are not each other's

After(delay, what, end) == [at |-> now + delay, what |-> what, end |-> end]

(* ResourceManager.from_network: an occupied position is an occupied slot. *)
PrepInit ==
  /\ route \in Networks /\ request \in Requests
  /\ busy \in {{}, {"bob"}}
  /\ selected = NoStation /\ now = 0 /\ events = {}
  /\ memory = busy /\ live = {}
  /\ slot = [x \in Ends |-> IF x \in busy THEN "occupied" ELSE "free"]
  /\ reservation = "none" /\ pair = "none"
  /\ agent = [reports |-> {}, ready |-> FALSE, readyTime |-> 0]
  /\ cell = "select" /\ bits = <<0, 0>> /\ fault = Unknown /\ raised = FALSE
-----------------------------------------------------------------------------
(* Planning *)

Loss(span)  == span.length * span.attenuation + span.insertion
Delay(span) == span.length

RouteLoss(spans)     == FoldLeft(LAMBDA sum, span : sum + Loss(span), 0, spans)
RouteDelay(spans)    == FoldLeft(LAMBDA sum, span : sum + Delay(span), 0, spans)
RouteFidelity(spans) == Min({span.fidelity : span \in ToSet(spans)})

(* Both halves count together.                                             *)
ScoreCandidate(s) ==
  [source   |-> s,
   loss     |-> RouteLoss(route[s].alice) + RouteLoss(route[s].bob),
   latest   |-> Max({RouteDelay(route[s][x]) : x \in Ends}),
   fidelity |-> Min({RouteFidelity(route[s][x]) : x \in Ends})]

(* A joint success of a quarter is a loss of 10 log 4 decibel.             *)
Usable(c) == c.loss <= 6020 /\ c.latest <= request.deadline /\ c.fidelity >= request.fidelity

UsableScores == {c \in {ScoreCandidate(s) : s \in 1..Stations} : Usable(c)}

Better(c, d) ==
  \/ c.loss < d.loss
  \/ c.loss = d.loss /\ c.latest < d.latest
  \/ c.loss = d.loss /\ c.latest = d.latest /\ c.source < d.source

(* The first of the usable candidates, if there is one; then only its path *)
(* is built, and the agent's start scheduled.                              *)
Select ==
  /\ cell = "select"
  /\ IF UsableScores = {}
       THEN raised' = TRUE /\ UNCHANGED <<selected, events, cell>>
       ELSE /\ \E c \in UsableScores :
                 (\A d \in UsableScores \ {c} : Better(c, d)) /\ selected' = c.source
            /\ events' = {After(0, "start", "controller")} /\ cell' = "run"
            /\ UNCHANGED raised
  /\ UNCHANGED <<route, request, busy, now, memory, live, slot, reservation, pair, agent,
                 bits, fault>>
-----------------------------------------------------------------------------
(* The run *)

Chosen == ScoreCandidate(selected)
Span(x) == route[selected][x][1]   \* that of the channel to an end

(* An event is handled: it leaves the queue, and others enter it.          *)
Handle(e, new) == events' = (events \ {e}) \cup new

(* reserve_slot_and_start: no attempt without both memories.               *)
ReserveSlotAndStart(e) ==
  /\ e.what = "start"
  /\ IF \A x \in Ends : slot[x] = "free"
       THEN /\ slot' = [x \in Ends |-> "reserved"] /\ reservation' = "committed"
            /\ Handle(e, {After(request.deadline, "deadline", "controller"),
                          After(0, "emit", "controller")})
            /\ UNCHANGED raised
       ELSE raised' = TRUE /\ Handle(e, {}) /\ UNCHANGED <<slot, reservation>>
  /\ UNCHANGED <<memory, live, pair, agent, fault>>

(* One pair; either half may be lost in its channel, and is then discarded.*)
Emit(e) ==
  /\ e.what = "emit"
  /\ \E arrives \in SUBSET Ends :
       /\ \A x \in Ends \ arrives : Loss(Span(x)) > 0
       /\ Handle(e, {After(Delay(Span(x)), "absorb", x) : x \in arrives})
       /\ live' = arrives
       /\ fault' = IF arrives = Ends THEN LabelBits[PhiPlus] ELSE Unknown
  /\ UNCHANGED <<memory, slot, reservation, pair, agent, raised>>

Absorb(e) ==
  /\ e.what = "absorb"
  /\ memory' = memory \cup {e.end}
  /\ Handle(e, {After(0, "report", e.end)})
  /\ UNCHANGED <<live, slot, reservation, pair, agent, fault, raised>>

(* finish_decision *)
MeetsTarget == Chosen.fidelity >= request.fidelity /\ now <= request.deadline

(* on_report: with the second, complete_pair_if_ready marks both slots,    *)
(* and registers and reserves a pair.  Its record, made now and expiring   *)
(* at the deadline, is refused after that.                                 *)
OnReport(e) ==
  LET reports   == agent.reports \cup {e.end}
      completes == reports = Ends /\ ~agent.ready
      refused   == \/ \E x \in Ends : slot[x] \notin {"free", "reserved"}
                   \/ request.deadline < now
  IN  /\ e.what = "report"
      /\ Handle(e, {})
      /\ slot' = [x \in Ends |-> IF completes THEN "occupied" ELSE slot[x]]
      /\ pair' = IF completes /\ ~refused THEN "reserved" ELSE pair
      /\ raised' = (completes /\ refused)
      /\ agent' = IF completes /\ ~refused
                    THEN [reports |-> reports, ready |-> MeetsTarget, readyTime |-> now]
                    ELSE [agent EXCEPT !.reports = reports]
  /\ UNCHANGED <<memory, live, reservation, fault>>

(* miss_deadline: what is still reserved becomes free.                     *)
MissDeadline(e) ==
  /\ e.what = "deadline"
  /\ Handle(e, {})
  /\ IF agent.ready
       THEN UNCHANGED <<slot, reservation>>
       ELSE /\ reservation' = "released"
            /\ slot' = [x \in Ends |-> IF slot[x] = "reserved" THEN "free" ELSE slot[x]]
  /\ UNCHANGED <<memory, live, pair, agent, fault, raised>>

RunStep ==
  /\ \E e \in events : /\ e.at = now
                       /\ \/ ReserveSlotAndStart(e) \/ Emit(e) \/ Absorb(e)
                          \/ OnReport(e) \/ MissDeadline(e)
  /\ UNCHANGED <<route, request, busy, selected, now, cell, bits>>

(* The clock goes to the next event when none of this tick is left.        *)
Clock ==
  /\ events # {} /\ \A e \in events : e.at > now
  /\ now' = Min({e.at : e \in events})
  /\ UNCHANGED <<route, request, busy, selected, events, memory, live, slot, reservation, pair,
                 agent, cell, bits, fault, raised>>
-----------------------------------------------------------------------------
(* The cells after the run, each of which may raise *)

Settled == cell = "run" /\ events = {}

PayloadCell ==
  /\ Settled
  /\ live' = live \cup {Payload} /\ cell' = "bell"
  /\ UNCHANGED <<slot, pair, bits, fault, raised>>

(* What is left between Bob's half and the payload is the label found.     *)
BellCell ==
  /\ cell = "bell"
  /\ IF "alice" \notin live
       THEN raised' = TRUE /\ UNCHANGED <<cell, bits, fault>>
       ELSE /\ \E label \in Labels :
                 /\ bits' = LabelBits[label]
                 /\ fault' = IF fault = Unknown THEN Unknown ELSE Xor(fault, LabelBits[label])
            /\ cell' = "correct" /\ UNCHANGED raised
  /\ UNCHANGED <<live, slot, pair>>

(* Z, then X; without a half at Bob's the state is asked for in vain.      *)
CorrectionCell ==
  /\ cell = "correct"
  /\ IF "bob" \notin live
       THEN raised' = TRUE /\ UNCHANGED <<cell, fault>>
       ELSE /\ fault' = IF fault = Unknown THEN Unknown
                        ELSE Xor(Xor(fault, PauliBits[IF bits[2] = 1 THEN "Z" ELSE "I"]),
                                 PauliBits[IF bits[1] = 1 THEN "X" ELSE "I"])
            /\ cell' = "discard" /\ UNCHANGED raised
  /\ UNCHANGED <<live, slot, pair, bits>>

DiscardCell ==
  /\ cell = "discard"
  /\ live' = live \ {Payload, "alice"} /\ cell' = "consume"
  /\ UNCHANGED <<slot, pair, bits, fault, raised>>

ConsumeCell ==
  /\ cell = "consume"
  /\ IF pair = "none" \/ slot["alice"] # "occupied"
       THEN raised' = TRUE /\ UNCHANGED <<slot, pair, cell>>
       ELSE /\ pair' = "consumed" /\ slot' = [slot EXCEPT !["alice"] = "consumed"]
            /\ cell' = "done" /\ UNCHANGED raised
  /\ UNCHANGED <<live, bits, fault>>

CellStep ==
  /\ PayloadCell \/ BellCell \/ CorrectionCell \/ DiscardCell \/ ConsumeCell
  /\ UNCHANGED <<route, request, busy, selected, now, events, memory, reservation, agent>>

PrepNext == ~raised /\ (Select \/ RunStep \/ Clock \/ CellStep)

PrepSpec == PrepInit /\ [][PrepNext]_prepVars /\ WF_prepVars(PrepNext)
-----------------------------------------------------------------------------
(* A pair that is called ready is there: both memories hold a half of it,  *)
(* both slots are marked, it came in time, and a record of it is kept.     *)
ReadyIsReal ==
  agent.ready =>
    /\ memory = Ends /\ fault # Unknown /\ pair # "none"
    /\ agent.readyTime <= request.deadline
    /\ \A x \in Ends : slot[x] \in {"occupied", "consumed"}

(* What was planned is what happens: unless a half is lost the pair is     *)
(* ready when the run is over, and if one is the reservation is given back.*)
PlanHolds ==
  Settled /\ ~raised =>
    /\ agent.ready <=> memory = Ends
    /\ agent.ready \/ (reservation = "released" /\ \A x \in Ends : slot[x] = "free")

(* A run that raises has left no slot reserved.                            *)
RefusedLeavesNothing ==
  raised => \A x \in Ends : slot[x] # "reserved"

(* Only a pair that was ready gets as far as its use, and then Bob's half  *)
(* is the payload, his slot occupied and Alice's given up.                 *)
HandedOver ==
  /\ cell = "consume" => agent.ready /\ fault = <<0, 0>> /\ live = {"bob"}
  /\ cell = "done" => pair = "consumed" /\ slot = [alice |-> "consumed", bob |-> "occupied"]

PreparationSound == ReadyIsReal /\ PlanHolds /\ RefusedLeavesNothing /\ HandedOver

(* The run is over, with a pair or without, or a refusal has ended it.     *)
RequestSettled == raised \/ Settled
=============================================================================

---------------------------- MODULE Teleportation ----------------------------
(***************************************************************************)
(* The teleportation rounds of tutorials/protocols/teleportation: Charlie  *)
(* sends the halves of a pair per period to Alice and to Bob, Alice makes  *)
(* a state of her own in the meantime, analyses it with her half, tells    *)
(* Bob the label, and Bob corrects his half.  No message numbers a half:   *)
(* the rounds of Alice, the pairs of Charlie and the halves of Bob are     *)
(* kept in step by nothing but the period.                                 *)
(*                                                                         *)
(* Events of one tick come in any order, which includes the engine's.  The *)
(* delays are the notebook's, in quarters of a nanosecond; a distance is   *)
(* in halves of a metre, and signals travel one in 2.5 ns.  An exception   *)
(* ends the run.                                                           *)
(***************************************************************************)
EXTENDS PauliLabels

CONSTANTS Rounds,      \* num_runs, at least 1
          Distances    \* from Alice to Bob, at least 1; Charlie is half way

VARIABLES distance,
          now, events,   \* the timeline's clock and queue
          input,         \* Alice's input memory: empty, idle or busy
          half,          \* the pair whose half is in Alice's second memory
          held,          \* Bob's memory: the pair whose half it has, and if it is busy
          analyzer,      \* what waits in Alice's analyzer
          alice, bob,    \* the fields of the agents
          fault,         \* pair -> the Pauli between Bob's half and Alice's input
          rows,          \* what Bob has collected
          raised

vars == <<distance, now, events, input, half, held, analyzer, alice, bob, fault, rows, raised>>

PairIds     == 1..Rounds
NoPair      == 0
NoMessage   == [label |-> 0, round |-> 0]
Unmeasured  == <<2, 2>>
Vacant      == [pair |-> NoPair, busy |-> FALSE]

Period(d)         == 50 * d
QuantumDelay(d)   == 5 * d
ClassicalDelay(d) == 10 * d
InitTicks == 12
GateTicks == 4
BellTicks == 76

After(delay, what, arg) == [at |-> now + delay, what |-> what, arg |-> arg]

Init ==
  /\ distance \in Distances /\ now = 0
  /\ events = {After(0, "start alice", 0), After(0, "emit", 1)}
  /\ input = "empty" /\ half = NoPair /\ held = Vacant /\ analyzer = {}
  /\ alice = [round |-> 0, inputReady |-> FALSE, halfReady |-> FALSE,
            inFlight |-> FALSE]
  /\ bob = [halfReady |-> FALSE, pending |-> NoMessage]
  /\ fault = [k \in PairIds |-> Unmeasured] /\ rows = {} /\ raised = FALSE

(* An event is handled: it leaves the queue, and others enter it.          *)
Handle(e, new) == events' = (events \ {e}) \cup new
Raise(e) == raised' = TRUE /\ Handle(e, {}) /\
            UNCHANGED <<distance, now, input, half, held, analyzer, alice, bob, fault, rows>>
-----------------------------------------------------------------------------
(* Charlie's source and the channels *)

(* duration_s is that of Rounds periods: the source stops by itself.       *)
Emit(e) ==
  /\ e.what = "emit"
  /\ Handle(e, {After(QuantumDelay(distance), "half to alice", e.arg),
                After(QuantumDelay(distance), "half to bob", e.arg)}
               \cup {After(Period(distance), "emit", k) : k \in {e.arg + 1} \cap PairIds})
  /\ UNCHANGED <<distance, now, input, half, held, analyzer, alice, bob, fault, rows, raised>>
-----------------------------------------------------------------------------
(* Alice *)

(* A round begins; all that is known of the last one is forgotten.         *)
StartInputPreparation ==
  alice' = [round |-> alice.round + 1, inputReady |-> FALSE, halfReady |-> FALSE,
            inFlight |-> FALSE]

AliceStart(e) ==
  /\ e.what = "start alice"
  /\ StartInputPreparation
  /\ Handle(e, {After(0, "absorb input", alice'.round)})
  /\ UNCHANGED <<distance, now, input, half, held, analyzer, bob, fault, rows, raised>>

AbsorbInput(e) ==
  /\ e.what = "absorb input"
  /\ \/ input # "empty" /\ Raise(e)
     \/ /\ input = "empty" /\ input' = "idle"
        /\ Handle(e, {After(0, "input stored", e.arg)})
        /\ UNCHANGED <<distance, now, half, held, analyzer, alice, bob, fault, rows, raised>>

(* The report sets a timer for the first of the two gates.                 *)
InputStored(e) ==
  /\ e.what = "input stored"
  /\ Handle(e, {After(InitTicks, "apply H", e.arg)})
  /\ UNCHANGED <<distance, now, input, half, held, analyzer, alice, bob, fault, rows, raised>>

ApplyToInput(e) ==
  /\ e.what \in {"apply H", "apply S"}
  /\ \/ input # "idle" /\ Raise(e)
     \/ /\ input = "idle" /\ input' = "busy"
        /\ Handle(e, {After(GateTicks, IF e.what = "apply H" THEN "H done" ELSE "S done", e.arg)})
        /\ UNCHANGED <<distance, now, half, held, analyzer, alice, bob, fault, rows, raised>>

GateDone(e) ==
  /\ e.what \in {"H done", "S done"}
  /\ input' = "idle"
  /\ Handle(e, {After(0, IF e.what = "H done" THEN "apply S" ELSE "input ready", e.arg)})
  /\ UNCHANGED <<distance, now, half, held, analyzer, alice, bob, fault, rows, raised>>

HalfToAlice(e) ==
  /\ e.what = "half to alice"
  /\ \/ half # NoPair /\ Raise(e)
     \/ /\ half = NoPair /\ half' = e.arg
        /\ Handle(e, {After(0, "half ready", e.arg)})
        /\ UNCHANGED <<distance, now, input, held, analyzer, alice, bob, fault, rows, raised>>

(* _try_bell_analysis: both memories are asked to emit into the analyzer.  *)
Ready(e) ==
  /\ e.what \in {"input ready", "half ready"}
  /\ LET a == IF e.what = "input ready" THEN [alice EXCEPT !.inputReady = TRUE]
                                        ELSE [alice EXCEPT !.halfReady = TRUE]
         starts == a.inputReady /\ a.halfReady /\ ~a.inFlight
     IN  /\ alice' = [a EXCEPT !.inFlight = a.inFlight \/ starts]
         /\ Handle(e, IF starts THEN {After(0, "emit input", a.round),
                                      After(0, "emit half", a.round)}
                      ELSE {})
  /\ UNCHANGED <<distance, now, input, half, held, analyzer, bob, fault, rows, raised>>

EmitInput(e) ==
  /\ e.what = "emit input"
  /\ \/ input # "idle" /\ Raise(e)
     \/ /\ input = "idle" /\ input' = "empty"
        /\ Handle(e, {After(0, "to analyzer", [pair |-> NoPair, key |-> e.arg])})
        /\ UNCHANGED <<distance, now, half, held, analyzer, alice, bob, fault, rows, raised>>

EmitHalf(e) ==
  /\ e.what = "emit half"
  /\ \/ half = NoPair /\ Raise(e)
     \/ /\ half # NoPair /\ half' = NoPair
        /\ Handle(e, {After(0, "to analyzer", [pair |-> half, key |-> e.arg])})
        /\ UNCHANGED <<distance, now, input, held, analyzer, alice, bob, fault, rows, raised>>

(* The window of the analyzer is the tick: the two signals of a round come *)
(* in one, or an exception has ended the run.  The label found is what the *)
(* measurement leaves between Bob's half and Alice's input.                *)
Analyse(e) ==
  /\ e.what = "to analyzer"
  /\ IF \E w \in analyzer : w.key = e.arg.key
     THEN \E w \in analyzer, label \in Labels :
            /\ w.key = e.arg.key /\ analyzer' = analyzer \ {w}
            /\ fault' = [fault EXCEPT ![Max({w.pair, e.arg.pair})] = LabelBits[label]]
            /\ Handle(e, {After(BellTicks, "bell report", [label |-> label, round |-> e.arg.key])})
     ELSE analyzer' = analyzer \cup {e.arg} /\ Handle(e, {}) /\ UNCHANGED fault
  /\ UNCHANGED <<distance, now, input, half, held, alice, bob, rows, raised>>

(* _handle_bsa_report: Bob is told, and the next round begins.             *)
BellReport(e) ==
  /\ e.what = "bell report"
  /\ StartInputPreparation
  /\ Handle(e, {After(ClassicalDelay(distance), "message", e.arg),
                After(0, "absorb input", alice'.round)})
  /\ UNCHANGED <<distance, now, input, half, held, analyzer, bob, fault, rows, raised>>
-----------------------------------------------------------------------------
(* Bob *)

HalfToBob(e) ==
  /\ e.what = "half to bob"
  /\ \/ held # Vacant /\ Raise(e)
     \/ /\ held = Vacant /\ held' = [pair |-> e.arg, busy |-> FALSE]
        /\ Handle(e, {After(0, "half at bob", e.arg)})
        /\ UNCHANGED <<distance, now, input, half, analyzer, alice, bob, fault, rows, raised>>

Corrects(b) == b.halfReady /\ b.pending # NoMessage

(* A mistake: the message stays pending.                                   *)
CorrectingKeeping(b) == IF Corrects(b) THEN [b EXCEPT !.halfReady = FALSE] ELSE b

(* _try_correction: half and message are used up at once.                  *)
Correcting(b) == IF Corrects(b) THEN [halfReady |-> FALSE, pending |-> NoMessage] ELSE b

(* on_report of the absorbed half, and on_message: the last message counts *)
BobLearns(e) ==
  /\ e.what \in {"half at bob", "message"}
  /\ LET b == IF e.what = "message" THEN [bob EXCEPT !.pending = e.arg]
                                    ELSE [bob EXCEPT !.halfReady = TRUE]
     IN  /\ bob' = Correcting(b)
         /\ Handle(e, IF Corrects(b) THEN {After(0, "correct", b.pending)} ELSE {})
  /\ UNCHANGED <<distance, now, input, half, held, analyzer, alice, fault, rows, raised>>

Correct(e) ==
  /\ e.what = "correct"
  /\ \/ (held = Vacant \/ held.busy) /\ Raise(e)
     \/ /\ held # Vacant /\ ~held.busy /\ held' = [held EXCEPT !.busy = TRUE]
        /\ Handle(e, {After(GateTicks, "corrected", e.arg)})
        /\ UNCHANGED <<distance, now, input, half, analyzer, alice, bob, fault, rows, raised>>

(* correction_for_bell gives the bits of the label; a half that Alice has  *)
(* not measured stays entangled whatever is done to it.                    *)
Corrected(e) ==
  /\ e.what = "corrected"
  /\ held' = [held EXCEPT !.busy = FALSE]
  /\ fault' = [fault EXCEPT ![held.pair] =
                 IF @ = Unmeasured THEN @ ELSE Xor(@, LabelBits[e.arg.label])]
  /\ Handle(e, {After(0, "collect", e.arg.round)})
  /\ UNCHANGED <<distance, now, input, half, analyzer, alice, bob, rows, raised>>

(* _collect_fidelity reads the state, and asks the memory to discard it.   *)
Collect(e) ==
  /\ e.what = "collect"
  /\ rows' = rows \cup {[round |-> e.arg, pair |-> held.pair, fault |-> fault[held.pair]]}
  /\ Handle(e, {After(0, "discard", e.arg)})
  /\ UNCHANGED <<distance, now, input, half, held, analyzer, alice, bob, fault, raised>>

Discard(e) ==
  /\ e.what = "discard"
  /\ held' = Vacant
  /\ Handle(e, {})
  /\ UNCHANGED <<distance, now, input, half, analyzer, alice, bob, fault, rows, raised>>
-----------------------------------------------------------------------------
AliceHandles(e) ==
  AliceStart(e) \/ AbsorbInput(e) \/ InputStored(e) \/ ApplyToInput(e) \/ GateDone(e)
  \/ HalfToAlice(e) \/ Ready(e) \/ EmitInput(e) \/ EmitHalf(e) \/ Analyse(e) \/ BellReport(e)

BobHandles(e) ==
  HalfToBob(e) \/ BobLearns(e) \/ Correct(e) \/ Corrected(e) \/ Collect(e) \/ Discard(e)

(* The clock goes to the next event when none of this tick is left.        *)
Tick ==
  /\ events # {} /\ \A e \in events : e.at > now
  /\ now' = Min({e.at : e \in events})
  /\ UNCHANGED <<distance, events, input, half, held, analyzer, alice, bob, fault, rows, raised>>

Next ==
  /\ ~raised
  /\ \/ \E e \in events : e.at = now /\ (Emit(e) \/ AliceHandles(e) \/ BobHandles(e))
     \/ Tick

Spec == Init /\ [][Next]_vars /\ WF_vars(Next)
-----------------------------------------------------------------------------
(* What Bob collects for a round is what Alice has put in: his correction  *)
(* is that of the label found with the other half of the pair he holds, in *)
(* whatever tick halves, reports and messages come                         *)
(* (_try_correction, _handle_bsa_report).                                  *)
Teleported ==
  \A row \in rows : row.fault = <<0, 0>> /\ row.round = row.pair

(* A round, the first and longest one included, ends before the next half. *)
RoundsFit ==
  distance \in {d \in Distances :
    LET rest == BellTicks + ClassicalDelay(d) + GateTicks
    IN  /\ rest < Period(d)
        /\ InitTicks + 2 * GateTicks + rest < Period(d) + QuantumDelay(d)}

(* Where rounds end before the next half arrives, as at the notebook's     *)
(* distance, every round is collected and nothing raises (its assertion    *)
(* len(baseline_table) == 10).                                             *)
EveryRoundCollected == RoundsFit => {row.round : row \in rows} = PairIds
=============================================================================

------------------------------- MODULE Readout -------------------------------
(***************************************************************************)
(* From a quantum state to a report: the detector array (detector_array.py *)
(* with primitives/measurement.py, readout.py and click.py), the station   *)
(* of a linear optical Bell measurement (bell_analyzer.py) and the device  *)
(* that reads stored qubits (qubit_readout.py).  The channels behind the   *)
(* first two are those of DetectorChannel, and stay dead or may pulse      *)
(* again when the next signal comes; their gates are open.  What a         *)
(* measurement finds is a choice.  Detectors are numbered as their ids     *)
(* are ordered.                                                            *)
(***************************************************************************)
EXTENDS DetectorChannel, FiniteSets, Functions

CONSTANTS MaxSignals,   \* bound: signals, pairs or jobs that come
          Gaps,         \* the times between two of them
          Detectors,    \* the detectors of the device
          Settings,     \* how the device is made: see ReadoutInit
          Measurements, \* what the measurement of a device may choose
          Outcomes,     \* measurement label -> the labels it may find
          Wiring,       \* readout map: measurement label -> label -> detector
          Patterns,     \* click patterns of a Bell station: [outcome, detectors]
          Confusion,    \* label -> the labels read in its place
          Window, DeadTime, Resolving

(* A map gives its labels different detectors, patterns of the same pair   *)
(* of detectors have the same outcome, and a job of the qubit readout      *)
(* consumes nothing.                                                       *)
ASSUME ReadoutAssumption ==
  /\ MaxSignals \in Nat /\ Window \in Nat /\ Detectors \subseteq Nat /\ Gaps \subseteq Nat
  /\ \A s \in Settings : s.kind = "qubit readout" => ~s.consume
  /\ \A label \in DOMAIN Wiring : IsInjective(Wiring[label])
  /\ \A p \in Patterns : p.detectors # {}
  /\ \A p, q \in Patterns : p.detectors = q.detectors => p.outcome = q.outcome

VARIABLES device,    \* its settings, for the whole behaviour
          clock,
          channel,   \* detector -> [dead, last]
          stored,    \* <<signal, member>> the qstate store owns
          current,   \* the signal to come, from 1
          answer     \* what became of the one before it, {} before the first

readoutVars == <<device, clock, channel, stored, current, answer>>

Members   == {1, 2}                       \* targets of a signal, in order
NoOutcome == "None"
BellLabels    == {"phi+", "phi-", "psi+", "psi-"}
LinearOptical == {"psi+", "psi-"}         \* _LINEAR_OPTICAL_LABELS

ReadoutInit ==
  /\ device \in Settings    \* [kind, consume, resolver]
  /\ clock = 0 /\ channel = [d \in Detectors |-> Fresh]
  /\ stored = (1..MaxSignals) \X Members /\ current = 1 /\ answer = {}

Signal == {<<current, m>> : m \in Members}

(* resolve_measurement_targets: "signal", or some members it names.        *)
TargetsOf(call) == IF call.whole THEN Signal ELSE {<<current, m>> : m \in call.named}

(* execute_measurement_call with discard_after: what the store owns then.  *)
MeasuredAtOnce(call) == call.method = "projective" /\ call.whole
Unmeasured(call)     == call.method = "none" /\ call.discard

AfterMeasurement(call) ==
  IF \/ Unmeasured(call)
     \/ device.consume /\ MeasuredAtOnce(call) THEN stored \ TargetsOf(call)
  ELSE stored

(* _consume_signal_if_configured                                           *)
AfterDetection(call) ==
  IF ~device.consume \/ Unmeasured(call) \/ MeasuredAtOnce(call)
  THEN AfterMeasurement(call) ELSE stored \ Signal

(* result_label of what a call finds; None when nothing is measured.       *)
Found(call) == IF call.method = "none" THEN {NoOutcome} ELSE Outcomes[call.label]
-----------------------------------------------------------------------------
(* BasisOutcomeMapReadout, and normalize_readout_exposures: the detector   *)
(* of what was found sees the signal, those of the same measurement have a *)
(* label, the others have none.  What is not in the map raises.            *)
Mapped(call, found) == call.label \in DOMAIN Wiring /\ found \in DOMAIN Wiring[call.label]

LabelOf(call, d) ==
  LET labels == {o \in DOMAIN Wiring[call.label] : Wiring[call.label][o] = d}
  IN  IF labels = {} THEN NoOutcome ELSE CHOOSE o \in labels : TRUE

(* evaluate_detector_windows: every detector is watched, lit or not, and   *)
(* each goes its own way.                                                  *)
Watched(lit) ==
  LET ways == [d \in Detectors |->
                 EvaluateWindow(channel[d], clock, Window, d \in lit, DeadTime, Resolving)]
  IN  {w \in [Detectors -> UNION {ways[d] : d \in Detectors}] :
         \A d \in Detectors : w[d] \in ways[d]}

ClicksIn(seen) == UNION {{[time |-> t, at |-> d] : t \in seen[d].clicks} : d \in Detectors}

Earliest(clicks) ==
  CHOOSE c \in clicks : \A e \in clicks \ {c} :
    c.time < e.time \/ (c.time = e.time /\ c.at < e.at)

(* ThresholdClickResolver with its policy for several clicks, and          *)
(* POVMLabelClickResolver with and without require_click: what the report  *)
(* may say.                                                                *)
Failed == [success |-> FALSE, outcome |-> NoOutcome]
Raised == [success |-> FALSE, outcome |-> "raised"]
Says(outcome)      == [success |-> TRUE, outcome |-> outcome]
SaysIfAny(outcome) == [success |-> outcome # NoOutcome, outcome |-> outcome]

Resolved(call, found, clicks) ==
  IF device.resolver = "povm unclicked" THEN {SaysIfAny(found)}
  ELSE IF clicks = {} THEN {Failed}
  ELSE IF device.resolver = "povm" THEN {SaysIfAny(found)}
  ELSE IF Cardinality(clicks) = 1 \/ device.resolver = "random"
       THEN {Says(LabelOf(call, c.at)) : c \in clicks}
  ELSE IF device.resolver = "first" THEN {Says(LabelOf(call, Earliest(clicks).at))}
  ELSE {Failed}   \* "fail"

(* A signal is done with, and the next one comes some time later.          *)
Done(says, call, found, lit, clicks) ==
  /\ current' = current + 1
  /\ clock' \in {clock + gap : gap \in Gaps}
  /\ answer' = {[to |-> current, success |-> says.success, outcome |-> says.outcome,
                 raised |-> says = Raised, call |-> call, found |-> found,
                 lit |-> lit, dark |-> {c.at : c \in clicks} \ lit]}
  /\ UNCHANGED device

Seen(seen) == channel' = [d \in Detectors |-> [dead |-> seen[d].dead, last |-> seen[d].last]]

(* _handle_detect_signal of a signal that meets an open gate.              *)
DetectSignal ==
  /\ device.kind = "array" /\ current <= MaxSignals
  /\ \E call \in Measurements : \E found \in Found(call) :
       /\ Mapped(call, found)
       /\ LET lit == {Wiring[call.label][found]}
          IN  \E seen \in Watched(lit) : \E says \in Resolved(call, found, ClicksIn(seen)) :
                Done(says, call, found, lit, ClicksIn(seen)) /\ Seen(seen)
       /\ stored' = AfterDetection(call)

(* What was found is not in the readout map: the handler raises with the   *)
(* measurement done, and the next signal finds the array as it was.        *)
DetectUnmapped ==
  /\ device.kind = "array" /\ current <= MaxSignals
  /\ \E call \in Measurements : \E found \in Found(call) :
       ~Mapped(call, found) /\ Done(Raised, call, found, {}, {}) /\ stored' = AfterMeasurement(call)
  /\ UNCHANGED channel
-----------------------------------------------------------------------------
BellCall == [method |-> "bell", label |-> "bell", whole |-> TRUE, named |-> {}, discard |-> FALSE]

(* A mistake: one click of a pattern is enough.                            *)
MatchesAny(clicks, pattern) == clicks # {} /\ {c.at : c \in clicks} \subseteq pattern.detectors

(* resolve_click_pattern: each of its detectors once, and no other.        *)
Matches(clicks, pattern) ==
  /\ {c.at : c \in clicks} = pattern.detectors
  /\ Cardinality(clicks) = Cardinality(pattern.detectors)

Observed(clicks) ==
  LET found == {p \in Patterns : Matches(clicks, p)}
  IN  IF found = {} THEN Failed ELSE Says((CHOOSE p \in found : TRUE).outcome)

(* _decide_bsm and _select_signal_pattern: the detectors a Bell state may  *)
(* light, none if it cannot be told or is missed.                          *)
LitBy(found) ==
  {{}} \cup {p.detectors : p \in {q \in Patterns : q.outcome = found /\ found \in LinearOptical}}

(* _run_linear_optical_bsm, and the consumption of the pair.               *)
AnalysePair ==
  /\ device.kind = "station" /\ current <= MaxSignals
  /\ \E found \in BellLabels : \E lit \in LitBy(found) : \E seen \in Watched(lit) :
       Done(Observed(ClicksIn(seen)), BellCall, found, lit, ClicksIn(seen)) /\ Seen(seen)
  /\ stored' = IF device.consume THEN stored \ Signal ELSE stored

(* _run_bell_analysis of the ideal model                                   *)
AnalyseIdeally ==
  /\ device.kind = "ideal station" /\ current <= MaxSignals
  /\ \E found \in BellLabels : \E says \in {Failed, Says(found)} :
       Done(says, BellCall, found, {}, {})
  /\ stored' = IF device.consume THEN stored \ Signal ELSE stored
  /\ UNCHANGED channel
-----------------------------------------------------------------------------
(* run_qubit_readout: IdentityQubitReadout reads what is not in the map of *)
(* ConfusionMapQubitReadout.                                               *)
Read(found) == IF found \in DOMAIN Confusion THEN Confusion[found] ELSE {found}

ReadQubit ==
  /\ device.kind = "qubit readout" /\ current <= MaxSignals
  /\ \E call \in Measurements : \E found \in Found(call) : \E read \in Read(found) :
       Done(SaysIfAny(read), call, found, {}, {}) /\ stored' = AfterMeasurement(call)
  /\ UNCHANGED channel

ReadoutNext == DetectSignal \/ DetectUnmapped \/ AnalysePair \/ AnalyseIdeally \/ ReadQubit
-----------------------------------------------------------------------------
(* An outcome other than the one found, or none at all in a report that    *)
(* claims success, takes clicks that no light has caused: for a pattern of *)
(* a Bell station a click at each of its detectors that was not lit,       *)
(* whatever the signals before have left dead.                             *)
FalseOutcomesAreDark ==
  \A r \in answer : r.success /\ r.outcome # r.found =>
    \/ device.kind = "array" /\ r.dark # {}
    \/ device.kind = "station"
       /\ \E p \in Patterns :
            p.outcome = r.outcome /\ p.detectors # r.lit /\ p.detectors \ r.lit = r.dark
    \/ device.kind = "qubit readout" /\ r.found \in DOMAIN Confusion

(* A device that consumes its signals frees all their qubits, however they *)
(* were measured, and one that does not frees none: but for a call that    *)
(* measures nothing and discards the targets it names, and for what a      *)
(* handler that raised has left (detector_array.rst:509).                  *)
SignalsFreed ==
  \A r \in answer :
    LET left == {m \in Members : <<r.to, m>> \in stored}
    IN  r.raised \/ Unmeasured(r.call) \/ left = (IF device.consume THEN {} ELSE Members)

(* What the devices report, and what they leave behind.                    *)
ReportsTrue == FalseOutcomesAreDark /\ SignalsFreed
=============================================================================

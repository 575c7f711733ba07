-------------------------- MODULE DetectorChannel ---------------------------
(***************************************************************************)
(* One detector channel and its gate: SinglePhotonDetector.evaluate_window *)
(* and the gate arithmetic of primitives/window.py and gate.py.  Times are *)
(* ticks.  A detector is [dead, last]: its dead_until and last_click_time. *)
(***************************************************************************)
EXTENDS Integers

CONSTANTS MaxClickJitter,   \* bound: jitter of a click, jitter_stddev_ticks
          NoClick           \* last_click_time before the first click

ASSUME DetectorAssumption == MaxClickJitter \in Nat /\ NoClick \notin Int

LatestOf(S) == CHOOSE t \in S : \A u \in S : t >= u

Fresh == [dead |-> 0, last |-> NoClick]

(* A gate is open for good, or for the first open ticks of every period.   *)
PeriodicGate(period, open, first) == [period |-> period, open |-> open, first |-> first]
AlwaysOpenGate == PeriodicGate(1, 1, 0)
Gates == [period : Nat \ {0}, open : Nat \ {0}, first : Nat]

Offset(gate, t) == (t - gate.first) % gate.period
IsOpen(gate, t) == t >= gate.first /\ Offset(gate, t) < gate.open

(* The end of the gate window that contains t. *)
WindowEnd(gate, t) == (t - Offset(gate, t)) + gate.open

ActiveUntil(gate, t) ==
  IF t <= gate.first THEN 0
  ELSE ((t - gate.first) \div gate.period) * gate.open
         + (IF IsOpen(gate, t) THEN Offset(gate, t) ELSE gate.open)

ActiveBetween(gate, start, end) == ActiveUntil(gate, end) - ActiveUntil(gate, start)

(* active_detection_duration_at_arrival: the whole window when the gate is *)
(* open throughout, else what is left of the gate window t falls in.       *)
ActiveDuration(gate, t, window) ==
  IF ActiveBetween(gate, t, t + window) >= window THEN window
  ELSE IF ~IsOpen(gate, t) THEN 0
  ELSE LET left == WindowEnd(gate, t) - t IN IF left < window THEN left ELSE window
-----------------------------------------------------------------------------
(* The ticks a candidate may have after its jitter; or no candidate at all. *)
Perhaps(bases) == {{}} \cup {{b + j} : b \in bases, j \in 0..MaxClickJitter}

(* At most one candidate of each kind                                      *)
Together(signal, dark, pulse) == {a \cup b \cup c : a \in signal, b \in dark, c \in pulse}

(* _build_click_candidates: a signal click, a dark count, an afterpulse.   *)
(* evaluate_detector_windows asks for no dark count policy of its own, so  *)
(* a dark count stands at the start of the window.  What triggered a click *)
(* only orders clicks of the same tick, which are one click here.          *)
ClickCandidates(detector, start, end, present) ==
  Together(Perhaps(IF present THEN {start} ELSE {}),
           Perhaps({start}),
           Perhaps(IF detector.last # NoClick /\ detector.last <= start
                   THEN start..(end - 1) ELSE {}))

InWindow(times, start, end) == {t \in times : start <= t /\ t < end}

(* A mistake: the dead time is counted from the start of the window.       *)
DeadAfterStart(click, start, deadTime) == start + deadTime

DeadAfter(click, start, deadTime) == click + deadTime

(* The candidates that become clicks, taken in the order of their times:   *)
(* none before the detector lives, and after a click only once it lives    *)
(* again, if it resolves photon numbers at all.                            *)
Accepted(detector, times, start, deadTime, resolving) ==
  {clicks \in SUBSET times :
     \A t \in times :
       t \in clicks <=> /\ t >= detector.dead
                       /\ \A u \in clicks : u < t => /\ resolving
                                                    /\ t >= DeadAfter(u, start, deadTime)}

(* The detector after them, with its clicks: [dead, last, clicks].         *)
Clicked(detector, clicks, start, deadTime) ==
  IF clicks = {} THEN [dead |-> detector.dead, last |-> detector.last, clicks |-> {}]
  ELSE [dead |-> DeadAfter(LatestOf(clicks), start, deadTime),
        last |-> LatestOf(clicks), clicks |-> clicks]

(* A detector that is dead when the window opens sees nothing of it.       *)
EvaluateWindow(detector, start, duration, present, deadTime, resolving) ==
  IF duration <= 0 \/ start < detector.dead THEN {Clicked(detector, {}, start, deadTime)}
  ELSE LET end == start + duration
       IN {Clicked(detector, clicks, start, deadTime) :
             clicks \in UNION {Accepted(detector, times, start, deadTime, resolving) :
                                 times \in {InWindow(c, start, end) :
                                              c \in ClickCandidates(detector, start, end,
                                                                    present)}}}
=============================================================================

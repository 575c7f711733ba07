---------------------------- MODULE BellAnalyzer ----------------------------
(***************************************************************************)
(* The Bell state analyzer, components/detectors/bell_analyzer.py: signals *)
(* arrive on a left and a right port, wait in the buffer of their side for *)
(* a partner, and are analysed in pairs or time out.  The engine is taken  *)
(* as module EventSchedule promises it; arrivals are deliveries of other   *)
(* components and come in any order with the timeouts of their tick, the   *)
(* priorities of both being parameters of the components.                  *)
(*                                                                         *)
(* What a measurement finds is left out: a report is the pair it is about. *)
(***************************************************************************)
EXTENDS Integers, FiniteSets

CONSTANTS MaxInputs,    \* bound: signals that arrive
          Keys,         \* values of the pairing key
          NoKey,        \* of a signal that carries none
          Configs,      \* the settings the analyzer may be built with
          LastArrival,  \* bound: the last tick a signal arrives at
          Nothing       \* a signal that has not arrived; the other side of a timeout

ASSUME BellAssumption ==
  /\ MaxInputs \in Nat
  /\ NoKey \notin Keys
  /\ Configs \subseteq [window : Nat, fifo : BOOLEAN,
                        consumeMatched : BOOLEAN, consumeUnmatched : BOOLEAN]
  /\ LastArrival \in Nat

VARIABLES
  config,      \* the settings of this analyzer; never change
  now,         \* the timeline's clock
  input,       \* input -> its BufferedBellInput, or Nothing
  waiting,     \* _buffers, both sides; their order is that of the inputs
  timeouts,    \* the coincidence timeouts on the timeline
  reports,     \* reports: the pair analysed, or one signal and Nothing
  owned,       \* inputs whose target the qstate store owns
  lost,        \* inputs a failed analysis or timeout has taken along
  aborted      \* an exception has left the timeline's run method

vars == <<config, now, input, waiting, timeouts, reports, owned, lost, aborted>>

Input    == 0..(MaxInputs - 1)
Sides    == {"left", "right"}
Arrivals == [side : Sides, time : 0..LastArrival, key : Keys \cup {NoKey}]

ASSUME NothingAssumption == Nothing \notin Input \cup Arrivals

Arrived    == {s \in Input : input[s] # Nothing}
Side(side) == {s \in Arrived : input[s].side = side}
Reports    == [left : Side("left") \cup {Nothing}, right : Side("right") \cup {Nothing}]

Reported   == UNION {{r.left, r.right} \ {Nothing} : r \in reports}
Paired(r)  == r.left # Nothing /\ r.right # Nothing

-----------------------------------------------------------------------------

Init ==
  /\ config \in Configs
  /\ now = 0
  /\ input = [s \in Input |-> Nothing]
  /\ waiting = {} /\ timeouts = {} /\ reports = {} /\ owned = {} /\ lost = {}
  /\ aborted = FALSE

(* The clock never passes a timeout. *)
Tick ==
  /\ \A t \in timeouts : t.time > now
  /\ now < LastArrival \/ timeouts # {}
  /\ now' = now + 1
  /\ UNCHANGED <<config, input, waiting, timeouts, reports, owned, lost, aborted>>

(* Two keys match if they are equal; two signals without a key match when  *)
(* the analyzer falls back to the order of arrivals.                       *)
KeysMatch(k, l) == IF k = NoKey /\ l = NoKey THEN config.fifo ELSE k = l

(* The inputs that would do for a signal of the given side and key now.    *)
Candidates(side, key) ==
  {c \in waiting : /\ input[c].side # side
                   /\ now - input[c].time <= config.window
                   /\ KeysMatch(key, input[c].key)}

(* _pop_match_for: the buffer of the other side is searched from its head. *)
Chosen(c, C) == c \in C /\ \A d \in C : c <= d

(* _ordered_pair, and the report of the pair. *)
PairReport(s, c, side) ==
  IF side = "left" THEN [left |-> s, right |-> c]
                        ELSE [left |-> c, right |-> s]

TimeoutReport(s) ==
  IF input[s].side = "left" THEN [left |-> s, right |-> Nothing]
                        ELSE [left |-> Nothing, right |-> s]

(* A mistake: the timeout does not leave the last tick of the window to a  *)
(* partner.                                                                *)
TimeoutOfEarly(s) == [signal |-> s, time |-> now + config.window]

(* _schedule_timeout: one tick after the window, so that a partner at its  *)
(* end comes first.                                                        *)
TimeoutOf(s) == [signal |-> s, time |-> now + config.window + 1]

(* Exceptions leave the run method; what the engine had popped for this    *)
(* tick is lost with them (EventSchedule!Fail).                            *)
Aborting(rest) ==
  /\ aborted' = TRUE
  /\ \E gone \in SUBSET {t \in rest : t.time = now} : timeouts' = rest \ gone

(* The next input is the one with the lowest number that is unused. *)
Recorded(s, side, key) ==
  /\ now <= LastArrival
  /\ input[s] = Nothing
  /\ \A d \in Input : d < s => input[d] # Nothing
  /\ input' = [input EXCEPT ![s] = [side |-> side, time |-> now, key |-> key]]
  /\ UNCHANGED <<config, now>>

(* An arrival without a partner is buffered. *)
ArriveAlone(s, side, key) ==
  /\ Candidates(side, key) = {}
  /\ Recorded(s, side, key)
  /\ waiting' = waiting \cup {s}
  /\ timeouts' = timeouts \cup {TimeoutOf(s)}
  /\ owned' = owned \cup {s}
  /\ UNCHANGED <<reports, lost, aborted>>

(* A mistake: the partner stays in its buffer. *)
ArriveAndMatchKeeping(s, side, key) ==
  \E c \in waiting :
    /\ Chosen(c, Candidates(side, key))
    /\ Recorded(s, side, key)
    /\ reports' = reports \cup {PairReport(s, c, side)}
    /\ owned' = IF config.consumeMatched THEN owned \ {c} ELSE owned \cup {s}
    /\ UNCHANGED <<waiting, timeouts, lost, aborted>>

(* An arrival with a partner is analysed with it at once. *)
ArriveAndMatch(s, side, key) ==
  \E c \in waiting :
    /\ Chosen(c, Candidates(side, key))
    /\ Recorded(s, side, key)
    /\ waiting' = waiting \ {c}
    /\ reports' = reports \cup {PairReport(s, c, side)}
    /\ owned' = IF config.consumeMatched THEN owned \ {c} ELSE owned \cup {s}
    /\ UNCHANGED <<timeouts, lost, aborted>>

(* The measurement raises: the partner has left its buffer already.        *)
ArriveAndFail(s, side, key) ==
  \E c \in waiting :
    /\ Chosen(c, Candidates(side, key))
    /\ Recorded(s, side, key)
    /\ waiting' = waiting \ {c}
    /\ lost' = lost \cup {s, c}
    /\ owned' = owned \cup {s}
    /\ Aborting(timeouts)
    /\ UNCHANGED reports

(* The timeout of an input that has found its partner is ignored. *)
TimeoutStale(t) ==
  /\ t.time = now
  /\ t.signal \notin waiting
  /\ timeouts' = timeouts \ {t}
  /\ UNCHANGED <<config, now, input, waiting, reports, owned, lost, aborted>>

(* A mistake: the target is discarded and reported, the input kept. *)
TimeoutFiresKeeping(t) ==
  /\ t.time = now
  /\ t.signal \in waiting
  /\ timeouts' = timeouts \ {t}
  /\ reports' = reports \cup {TimeoutReport(t.signal)}
  /\ owned' = IF config.consumeUnmatched THEN owned \ {t.signal} ELSE owned
  /\ UNCHANGED <<config, now, input, waiting, lost, aborted>>

TimeoutFires(t) ==
  /\ t.time = now
  /\ t.signal \in waiting
  /\ waiting' = waiting \ {t.signal}
  /\ timeouts' = timeouts \ {t}
  /\ reports' = reports \cup {TimeoutReport(t.signal)}
  /\ owned' = IF config.consumeUnmatched THEN owned \ {t.signal} ELSE owned
  /\ UNCHANGED <<config, now, input, lost, aborted>>

(* The target is gone from the store: the input has left its buffer.       *)
TimeoutFails(t) ==
  /\ t.time = now
  /\ t.signal \in waiting
  /\ config.consumeUnmatched
  /\ waiting' = waiting \ {t.signal}
  /\ lost' = lost \cup {t.signal}
  /\ owned' = owned \ {t.signal}
  /\ Aborting(timeouts \ {t})
  /\ UNCHANGED <<config, now, input, reports>>

(* A delivery that is refused, a report that cannot be sent once it is in  *)
(* reports, or an event of another component that fails.                   *)
OtherRaises ==
  /\ Aborting(timeouts)
  /\ UNCHANGED <<config, now, input, waiting, reports, owned, lost>>

-----------------------------------------------------------------------------

Timeout == \E t \in timeouts : TimeoutStale(t) \/ TimeoutFires(t)

Next ==
  \/ Tick
  \/ \E s \in Input, side \in Sides, key \in Keys \cup {NoKey} :
       \/ ArriveAlone(s, side, key)
       \/ ArriveAndMatch(s, side, key)
       \/ ArriveAndFail(s, side, key)
  \/ Timeout
  \/ \E t \in timeouts : TimeoutFails(t)
  \/ OtherRaises

Spec == Init /\ [][Next]_vars

(* The engine runs until its queue is empty. *)
FairSpec == Spec /\ WF_vars(Tick) /\ WF_vars(Timeout)

-----------------------------------------------------------------------------
(* Properties *)

TypeOK ==
  /\ config \in Configs
  /\ now \in Nat
  /\ input \in [Input -> Arrivals \cup {Nothing}]
  /\ waiting \subseteq Input
  /\ timeouts \subseteq [signal : Input, time : Nat]
  /\ reports \subseteq Reports
  /\ owned \subseteq Input
  /\ lost \subseteq Input
  /\ aborted \in BOOLEAN

(* Every signal that has arrived waits in its buffer, is in one report and *)
(* only one, or was lost with an exception: a late timeout never reports a *)
(* signal that was analysed, and no signal is analysed twice.              *)
EachSignalOnce ==
  /\ Arrived = waiting \cup Reported \cup lost
  /\ waiting \cap (Reported \cup lost) = {} /\ Reported \cap lost = {}
  /\ \A r, q \in reports : r # q =>
       {r.left, r.right} \cap {q.left, q.right} \subseteq {Nothing}

TimedOut == {s \in Input : \E r \in reports : ~Paired(r) /\ s \in {r.left, r.right}}

(* Two signals could have been analysed together. *)
Partners(a, b) ==
  /\ input[a].side # input[b].side
  /\ input[a].time - input[b].time <= config.window
  /\ input[b].time - input[a].time <= config.window
  /\ KeysMatch(input[a].key, input[b].key)

(* No two signals wait, or were given up, that could have been analysed    *)
(* together, the last tick of the window included; and no two were         *)
(* analysed that could not.                                                *)
NoMissedPair ==
  /\ \A a, b \in waiting \cup TimedOut : ~Partners(a, b)
  /\ \A r \in reports : Paired(r) => Partners(r.left, r.right)

(* A signal is analysed with the one that has waited longest of those that *)
(* would do.                                                               *)
LongestWaitFirst ==
  [][\A r \in reports' \ reports, c \in waiting :
       (Paired(r) /\ c \in {r.left, r.right}) =>
         \A s \in {r.left, r.right} \ {c}, d \in waiting :
           Partners(s, d)' => c <= d]_vars

(* No signal, and with it no target in the qstate store, stays in a buffer *)
(* for ever, unless an exception takes its timeout away.                   *)
WaitingEnds == \A s \in Input : (s \in waiting) ~> (s \notin waiting \/ aborted)

=============================================================================

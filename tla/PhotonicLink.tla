---------------------------- MODULE PhotonicLink ----------------------------
(***************************************************************************)
(* A photon source, and a quantum channel and a detector array on each     *)
(* side it sends to: entangled_pair_source.py, single_photon_source.py,    *)
(* channels/quantum.py, connections.py and detector_array.py, composed     *)
(* over the timeline and over the ownership of subsystem names             *)
(* (SubsystemOwnership).  A signal is an event that waits at a component;  *)
(* events of one tick may run in any order, which covers every choice of   *)
(* delivery priorities.                                                    *)
(***************************************************************************)
EXTENDS DetectorChannel

CONSTANTS Sides,          \* output ports of a pair source: left and right
          Single,         \* where the port of a single photon source leads
          Start, Period,  \* start tick, emission_period_ticks
          Stop,           \* exclusive stop tick
          MaxDelay,       \* max_emission_delay_ticks
          Delay,          \* resolved_delay_ticks of a channel
          MaxJitter,      \* bound: timing jitter of a channel
          Window,         \* detection_window_ticks
          Latency,        \* output_latency_ticks
          DeadTime,       \* dead_time_ticks
          MaxOffset,      \* side -> bound: time_offset_ticks of an exposure
          DetectorsOf,    \* side -> detector ids of its array
          GateOf,         \* side -> gate model
          Resolving       \* the sides whose detectors resolve photon numbers

ASSUME LinkAssumption == /\ Single \in Sides
                         /\ MaxDelay \in Nat /\ Period \in Nat /\ MaxDelay < Period
                         /\ Start \in Nat /\ Stop \in Nat /\ Stop >= Start
                         /\ Delay \in Nat /\ Latency \in Nat /\ DeadTime \in Nat
                         /\ Window \in Nat \ {0}
                         /\ MaxJitter \in Nat /\ MaxOffset \in [Sides -> Nat]
                         /\ GateOf \in [Sides -> Gates]

VARIABLES kind,      \* of the source: "pair" or "single", for the whole run
          now,       \* the timeline's current time
          source,    \* the source's pending event: [action, slot, at]
          attempts,  \* _attempt_count
          pairs,     \* _emitted_pair_count, or _emitted_count
          signals,   \* <<its index, side>> -> [stage, at, clicks]
          groups,    \* the joint states of qstate, by names
          counters,  \* side -> [received, lost, delivered]
          detector   \* <<side, detector>> -> [dead, last]

vars == <<kind, now, source, attempts, pairs, signals, groups, counters, detector>>

Qstate == INSTANCE SubsystemOwnership WITH Label <- Nat \X Sides

Idle     == [action |-> "none", slot |-> 0, at |-> 0]
Waiting  == {"sent", "flying", "measured"}
Channels == {<<s, d>> : s \in Sides, d \in UNION {DetectorsOf[x] : x \in Sides}}

Init == /\ kind \in {"pair", "single"} /\ now = 0
        /\ source = [action |-> "start", slot |-> Start, at |-> Start]
        /\ attempts = 0 /\ pairs = 0 /\ signals = <<>> /\ groups = {}
        /\ counters = [s \in Sides |-> [received |-> 0, lost |-> 0, delivered |-> 0]]
        /\ detector = [c \in Channels |-> Fresh]

Pending == {signals[x].at : x \in {y \in DOMAIN signals : signals[y].stage \in Waiting}}
             \cup (IF source.action = "none" THEN {} ELSE {source.at})

(* The timeline moves on to the earliest event. *)
Advance == /\ \E t \in Pending : /\ \A u \in Pending : t <= u
                                 /\ t > now /\ now' = t
           /\ UNCHANGED <<source, attempts, pairs, signals, groups, counters, detector>>

Due(x, stage) == /\ x \in DOMAIN signals
                 /\ signals[x].stage = stage /\ signals[x].at = now
-----------------------------------------------------------------------------
(* The source. *)

(* A mistake: the next slot is counted from the emission, not the slot.    *)
NextSlotFromNow(slot) == now + Period

NextSlot(slot) == slot + Period

(* schedule_next_emission_event: slot and emission both lie before Stop.   *)
ScheduleNextEmission(slot) ==
  IF slot >= Stop THEN source' = Idle
  ELSE \E delay \in 0..MaxDelay :
         source' = IF slot + delay >= Stop THEN Idle
                   ELSE [action |-> "emit", slot |-> slot, at |-> slot + delay]

SourceStart ==
  /\ source.action = "start" /\ source.at = now
  /\ ScheduleNextEmission(now)
  /\ UNCHANGED <<now, attempts, pairs, signals, groups, counters, detector>>

SourceDue == source.action = "emit" /\ source.at = now

SourceSkip ==
  /\ SourceDue
  /\ attempts' = attempts + 1
  /\ ScheduleNextEmission(NextSlot(source.slot))
  /\ UNCHANGED <<now, pairs, signals, groups, counters, detector>>

(* One state of the new names is prepared, and its members leave at once.  *)
Launch(members) ==
  /\ Qstate!Create(members)
  /\ signals' = [x \in DOMAIN signals \cup members |->
                   IF x \in members THEN [stage |-> "sent", at |-> now, clicks |-> {}]
                   ELSE signals[x]]

SourceEmit ==
  /\ SourceDue /\ kind = "pair"
  /\ attempts' = attempts + 1 /\ pairs' = pairs + 1
  /\ Launch({<<pairs + 1, s>> : s \in Sides})
  /\ ScheduleNextEmission(NextSlot(source.slot))
  /\ UNCHANGED <<now, counters, detector>>

SinglePhotonEmit ==
  /\ SourceDue /\ kind = "single"
  /\ attempts' = attempts + 1 /\ pairs' = pairs + 1
  /\ Launch({<<pairs + 1, Single>>})
  /\ ScheduleNextEmission(NextSlot(source.slot))
  /\ UNCHANGED <<now, counters, detector>>
-----------------------------------------------------------------------------
(* A mistake: what nobody will measure stays in the store.                 *)
DiscardNothing(x) == UNCHANGED groups

(* qstate.discard, and measure_and_discard, of a signal's target *)
Discard(x) == \E g \in groups : x \in g /\ Qstate!Drop(g, {x})

(* The quantum channels. *)

Count(s, fields) ==
  counters' = [counters EXCEPT ![s] = [f \in DOMAIN @ |-> IF f \in fields THEN @[f] + 1 ELSE @[f]]]

ChannelLoses(x) ==
  /\ Due(x, "sent")
  /\ Count(x[2], {"received", "lost"})
  /\ Discard(x)
  /\ signals' = [signals EXCEPT ![x].stage = "lost"]
  /\ UNCHANGED <<now, source, attempts, pairs, detector>>

(* Noise for the whole flight is applied here, so nothing of the state is  *)
(* left to do when the signal arrives.                                     *)
ChannelForwards(x) ==
  /\ Due(x, "sent")
  /\ Count(x[2], {"received", "delivered"})
  /\ \E jitter \in 0..MaxJitter :
       signals' = [signals EXCEPT ![x] =
         [stage |-> "flying", at |-> now + Delay + jitter, clicks |-> {}]]
  /\ UNCHANGED <<now, source, attempts, pairs, groups, detector>>
-----------------------------------------------------------------------------
(* The detector arrays. *)

Later(a, b) == IF a >= b THEN a ELSE b

(* _report_ready_time: the last click, or the end of the window without    *)
(* one, but never earlier than now.                                        *)
ReadyTime(times, complete) == Later(now, IF times # {} THEN LatestOf(times) ELSE complete)

Report(x, clicks, complete) ==
  signals' = [signals EXCEPT ![x] =
    [stage |-> "measured", clicks |-> clicks,
     at |-> ReadyTime({c.time : c \in clicks}, complete) + Latency]]

(* A mistake: nobody hears of a signal that met a closed gate.             *)
ReportClosedNever(x) == signals' = [signals EXCEPT ![x].stage = "measured", ![x].at = 0]

ReportClosed(x) == Report(x, {}, now)

(* A signal that arrives while the gate is closed is consumed unmeasured   *)
(* and reported all the same.                                              *)
DetectClosed(x) ==
  /\ Due(x, "flying")
  /\ ActiveDuration(GateOf[x[2]], now, Window) <= 0
  /\ Discard(x)
  /\ ReportClosed(x)
  /\ UNCHANGED <<now, source, attempts, pairs, counters, detector>>

(* Every detector of the array watches a window; the measurement result    *)
(* exposes one of them to the signal, perhaps with a time-bin offset.      *)
Detect(x) ==
  LET s    == x[2]
      gate == GateOf[s]
      ds   == DetectorsOf[s]
  IN /\ Due(x, "flying")
     /\ ActiveDuration(gate, now, Window) > 0
     /\ Discard(x)
     /\ \E lit \in ds, offset \in 0..MaxOffset[s] :
          LET begin(d)    == now + (IF d = lit THEN offset ELSE 0)
              duration(d) == ActiveDuration(gate, begin(d), Window)
              complete    == LatestOf({now} \cup {begin(d) + duration(d)
                                                    : d \in {e \in ds : duration(e) > 0}})
              outcomes    == [d \in ds |-> EvaluateWindow(detector[<<s, d>>], begin(d),
                                             duration(d), d = lit, DeadTime, s \in Resolving)]
          IN \E result \in {r \in [ds -> UNION {outcomes[d] : d \in ds}] :
                              \A d \in ds : r[d] \in outcomes[d]} :
               /\ detector' = [c \in Channels |->
                    IF c[1] = s /\ c[2] \in ds
                    THEN [dead |-> result[c[2]].dead, last |-> result[c[2]].last]
                    ELSE detector[c]]
               /\ Report(x, UNION {{[det |-> d, time |-> t] : t \in result[d].clicks} : d \in ds},
                         complete)
     /\ UNCHANGED <<now, source, attempts, pairs, counters>>

(* The report reaches whoever the output port is connected to. *)
Deliver(x) == /\ Due(x, "measured")
              /\ signals' = [signals EXCEPT ![x].stage = "reported"]
              /\ UNCHANGED <<now, source, attempts, pairs, groups, counters, detector>>

Next == /\ \/ Advance \/ SourceStart \/ SourceSkip \/ SourceEmit \/ SinglePhotonEmit
           \/ \E x \in DOMAIN signals : \/ ChannelLoses(x) \/ ChannelForwards(x)
                                        \/ DetectClosed(x) \/ Detect(x) \/ Deliver(x)
        /\ UNCHANGED kind

(* Running the timeline until it is empty executes every pending event.    *)
Spec == Init /\ [][Next]_vars /\ WF_vars(Next)
-----------------------------------------------------------------------------
(* The quantum store holds exactly the names of the signals that are still *)
(* on their way: a lost member, a closed gate and a measurement each free  *)
(* their own name, once, and leave the partner's.                          *)
QubitsFollowSignals ==
  /\ UNION groups = {x \in DOMAIN signals : signals[x].stage \in {"sent", "flying"}}
  /\ \A g, h \in groups : g # h => g \cap h = {}

(* Attempt k is made in the k-th slot, whatever delays were sampled before *)
(* it: the chain of events does not drift, and no two attempts share a     *)
(* slot or come out of order.                                              *)
EmissionsOnSchedule ==
  source.action = "emit" =>
    /\ source.slot = Start + attempts * Period
    /\ source.slot <= source.at /\ source.at < source.slot + Period /\ source.at < Stop

AllClicks(s) == UNION {{<<x[1], c>> : c \in signals[x].clicks}
                         : x \in {y \in DOMAIN signals : y[2] = s}}

(* Two clicks of one detector are at least its dead time apart, whichever  *)
(* signals, dark counts or afterpulses caused them.                        *)
DeadTimeKept ==
  \A s \in Sides : \A a, b \in AllClicks(s) :
    a # b /\ a[2].det = b[2].det => \/ a[2].time - b[2].time >= DeadTime
                                    \/ b[2].time - a[2].time >= DeadTime

(* A source with a stop tick falls silent, and every member it has sent is *)
(* lost in the channel or ends in a report, also when the gate is closed   *)
(* or the detectors are dead.                                              *)
EverySignalEnds ==
  <>[](/\ source.action = "none"
       /\ \A x \in DOMAIN signals : signals[x].stage \in {"lost", "reported"})
=============================================================================

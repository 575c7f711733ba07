----------------------------- MODULE LinkProofs -----------------------------
(***************************************************************************)
(* Proofs about module PhotonicLink, for any source period, delays, gates  *)
(* and detectors.  The schedule of the source is inductive by itself; that *)
(* the quantum store follows the signals needs the names of the signals:   *)
(* those of a new pair are not in use.                                     *)
(***************************************************************************)
EXTENDS PhotonicLink, WellFoundedInduction, TLAPS

SourceInv ==
  /\ attempts \in Nat
  /\ source = [action |-> source.action, slot |-> source.slot, at |-> source.at]
  /\ source.action \in {"none", "start", "emit"}
  /\ source.action = "start" => source.at = Start /\ attempts = 0
  /\ source.action = "emit" =>
       /\ source.slot = Start + attempts * Period
       /\ source.slot \in Int /\ source.at \in Int

SignalsInv ==
  /\ pairs \in Nat
  /\ \A x \in DOMAIN signals : x \in (1..pairs) \X Sides /\ "stage" \in DOMAIN signals[x]

-----------------------------------------------------------------------------
(* The schedule of the source *)

(* A delayed emission stays within its period.                             *)
LEMMA WithinPeriod ==
  ASSUME NEW slot \in Int, NEW delay \in 0..MaxDelay
  PROVE  /\ slot <= slot + delay /\ slot + delay < slot + Period
         /\ slot + delay \in Int
         /\ ~(slot + delay >= Stop) => slot + delay < Stop
BY LinkAssumption

(* The event after a slot on the schedule is on the schedule.              *)
LEMMA ScheduleStep ==
  ASSUME NEW slot \in Int, slot = Start + attempts' * Period,
         attempts' \in Nat, ScheduleNextEmission(slot)
  PROVE  SourceInv' /\ EmissionsOnSchedule'
<1>1. CASE source' = Idle
  BY <1>1 DEF Idle, SourceInv, EmissionsOnSchedule
<1>2. ASSUME NEW delay \in 0..MaxDelay, slot + delay < Stop,
             source' = [action |-> "emit", slot |-> slot, at |-> slot + delay]
      PROVE  SourceInv' /\ EmissionsOnSchedule'
  <2>1. /\ slot <= slot + delay /\ slot + delay < slot + Period
        /\ slot + delay \in Int
    BY WithinPeriod
  <2>2. source.action' = "emit" /\ source.slot' = slot /\ source.at' = slot + delay
    BY <1>2
  <2>3. SourceInv'
    BY <1>2, <2>1, <2>2 DEF SourceInv
  <2>4. EmissionsOnSchedule'
    BY <1>2, <2>1, <2>2 DEF EmissionsOnSchedule
  <2>. QED
    BY <2>3, <2>4
<1>3. CASE slot >= Stop
  BY <1>1, <1>3 DEF ScheduleNextEmission
<1>4. CASE ~(slot >= Stop)
  <2>1. PICK delay \in 0..MaxDelay :
          source' = IF slot + delay >= Stop THEN Idle
                    ELSE [action |-> "emit", slot |-> slot, at |-> slot + delay]
    BY <1>4 DEF ScheduleNextEmission
  <2>2. CASE slot + delay >= Stop
    BY <1>1, <2>1, <2>2
  <2>3. CASE ~(slot + delay >= Stop)
    <3>1. slot + delay < Stop
      BY <2>3, WithinPeriod
    <3>. QED
      BY <1>2, <2>1, <2>3, <3>1
  <2>. QED
    BY <2>2, <2>3
<1>. QED
  BY <1>3, <1>4

LEMMA InitSource == Init => SourceInv /\ EmissionsOnSchedule
BY DEF Init, SourceInv, EmissionsOnSchedule

(* An attempt counts, and the next one is planned one period later.        *)
LEMMA AttemptStep ==
  ASSUME SourceInv, SourceDue, attempts' = attempts + 1,
         ScheduleNextEmission(NextSlot(source.slot))
  PROVE  SourceInv' /\ EmissionsOnSchedule'
<1>1. source.slot = Start + attempts * Period /\ source.slot \in Int /\ attempts \in Nat
  BY DEF SourceInv, SourceDue
<1>2. (attempts + 1) * Period = attempts * Period + Period
  BY <1>1, LinkAssumption
<1>3. attempts * Period \in Int
  BY <1>1, LinkAssumption
<1>4. NextSlot(source.slot) = Start + attempts' * Period /\ NextSlot(source.slot) \in Int
  BY <1>1, <1>2, <1>3, LinkAssumption DEF NextSlot
<1>5. attempts' \in Nat
  BY <1>1
<1>. QED
  BY <1>4, <1>5, ScheduleStep

LEMMA NextSource ==
  ASSUME SourceInv, EmissionsOnSchedule, [Next]_vars
  PROVE  SourceInv' /\ EmissionsOnSchedule'
<1>1. CASE UNCHANGED <<source, attempts>>
  BY <1>1 DEF SourceInv, EmissionsOnSchedule
<1>2. CASE SourceStart
  <2>1. now = Start + attempts' * Period /\ now \in Int /\ attempts' \in Nat
    BY <1>2, LinkAssumption DEF SourceStart, SourceInv
  <2>. QED
    BY <1>2, <2>1, ScheduleStep DEF SourceStart
<1>3. CASE SourceSkip
  BY <1>3, AttemptStep DEF SourceSkip
<1>4. CASE SourceEmit \/ SinglePhotonEmit
  BY <1>4, AttemptStep DEF SourceEmit, SinglePhotonEmit
<1>5. CASE Advance
  BY <1>5, <1>1 DEF Advance
<1>6. CASE \E x \in DOMAIN signals : \/ ChannelLoses(x) \/ ChannelForwards(x)
                                     \/ DetectClosed(x) \/ Detect(x) \/ Deliver(x)
  BY <1>6, <1>1 DEF ChannelLoses, ChannelForwards, DetectClosed, Detect, Deliver
<1>7. CASE UNCHANGED vars
  BY <1>7, <1>1 DEF vars
<1>. QED
  BY <1>2, <1>3, <1>4, <1>5, <1>6, <1>7 DEF Next

(* Attempt k of the source is made in its k-th slot, for every period and  *)
(* every emission delay below it.                                          *)
THEOREM SpecEmissionsOnSchedule == Spec => []EmissionsOnSchedule
<1>1. SourceInv /\ EmissionsOnSchedule /\ [Next]_vars => SourceInv' /\ EmissionsOnSchedule'
  BY NextSource
<1>. QED
  BY InitSource, <1>1, PTL DEF Spec

-----------------------------------------------------------------------------
(* The quantum store *)

LEMMA InitSignals == Init => SignalsInv /\ QubitsFollowSignals
BY DEF Init, SignalsInv, QubitsFollowSignals

(* A name is dropped from the one state that holds it.                     *)
LEMMA DiscardOne ==
  ASSUME NEW x, \A g, h \in groups : g # h => g \cap h = {}, Discard(x)
  PROVE  /\ UNION groups' = (UNION groups) \ {x}
         /\ \A g, h \in groups' : g # h => g \cap h = {}
<1>1. PICK g \in groups : x \in g /\ groups' = (groups \ {g}) \cup ({g \ {x}} \ {{}})
  BY DEF Discard, Qstate!Drop
<1>2. \A h \in groups' : h \in groups \ {g} \/ h = g \ {x}
  BY <1>1
<1>3. \A h \in groups \ {g} : h \in groups' /\ x \notin h
  BY <1>1
<1>4. UNION groups' \subseteq (UNION groups) \ {x}
  BY <1>1, <1>2, <1>3
<1>5. (UNION groups) \ {x} \subseteq UNION groups'
  <2> SUFFICES ASSUME NEW y, y # x, NEW h \in groups, y \in h PROVE y \in UNION groups'
    OBVIOUS
  <2>1. CASE h # g
    BY <1>3, <2>1
  <2>2. CASE h = g
    <3>1. y \in g \ {x} /\ g \ {x} \in groups'
      BY <1>1, <2>2
    <3>. QED
      BY <3>1
  <2>. QED
    BY <2>1, <2>2
<1>. QED
  BY <1>2, <1>3, <1>4, <1>5

Underway == {"sent", "flying"}

(* The only change to the signals is that x enters a stage.                *)
Moves(x, stage) ==
  /\ pairs' = pairs /\ DOMAIN signals' = DOMAIN signals
  /\ "stage" \in DOMAIN signals'[x] /\ signals'[x].stage = stage
  /\ \A y \in DOMAIN signals : y # x => signals'[y] = signals[y]

LEMMA MovesKeepsNames ==
  ASSUME SignalsInv, NEW x \in DOMAIN signals, NEW stage, Moves(x, stage)
  PROVE  SignalsInv'
BY DEF SignalsInv, Moves

(* A signal that leaves the stages in which its qubit exists takes its     *)
(* name with it.                                                           *)
LEMMA SignalEnds ==
  ASSUME SignalsInv, QubitsFollowSignals, NEW x \in DOMAIN signals,
         Discard(x), NEW stage, stage \notin Underway, Moves(x, stage)
  PROVE  SignalsInv' /\ QubitsFollowSignals'
<1>1. {y \in DOMAIN signals' : signals'[y].stage \in Underway}
        = {y \in DOMAIN signals : signals[y].stage \in Underway} \ {x}
  BY DEF Moves
<1>2. /\ UNION groups' = (UNION groups) \ {x}
      /\ \A g, h \in groups' : g # h => g \cap h = {}
  BY DiscardOne DEF QubitsFollowSignals
<1>. QED
  BY <1>1, <1>2, MovesKeepsNames DEF QubitsFollowSignals, Underway

(* A signal that moves between two stages on the same side of that line    *)
(* leaves the store alone.                                                 *)
LEMMA SignalGoesOn ==
  ASSUME SignalsInv, QubitsFollowSignals, NEW x \in DOMAIN signals,
         NEW stage, stage \in Underway <=> signals[x].stage \in Underway,
         Moves(x, stage), groups' = groups
  PROVE  SignalsInv' /\ QubitsFollowSignals'
<1>1. {y \in DOMAIN signals' : signals'[y].stage \in Underway}
        = {y \in DOMAIN signals : signals[y].stage \in Underway}
  BY DEF Moves
<1>. QED
  BY <1>1, MovesKeepsNames DEF QubitsFollowSignals, Underway

(* The members of an emission get names that no signal has had.            *)
LEMMA LaunchStep ==
  ASSUME SignalsInv, QubitsFollowSignals, NEW outputs \in SUBSET Sides,
         pairs' = pairs + 1, NEW members, members = {<<pairs + 1, s>> : s \in outputs},
         Launch(members)
  PROVE  SignalsInv' /\ QubitsFollowSignals'
<1>1. signals' = [x \in DOMAIN signals \cup members |->
                    IF x \in members THEN [stage |-> "sent", at |-> now, clicks |-> {}]
                    ELSE signals[x]]
  BY DEF Launch
<1>2. \A x \in members : x \notin DOMAIN signals /\ x \in (1..pairs') \X Sides
  BY DEF SignalsInv
<1>3. \A x \in DOMAIN signals : x \in (1..pairs') \X Sides
  BY DEF SignalsInv
<1>4. groups' = groups \cup {members} /\ members \cap (UNION groups) = {}
  BY DEF Launch, Qstate!Create, Qstate!Owned
<1>5. SignalsInv'
  <2>1. pairs' \in Nat /\ DOMAIN signals' = DOMAIN signals \cup members
    BY <1>1 DEF SignalsInv
  <2>2. \A x \in DOMAIN signals' : "stage" \in DOMAIN signals'[x]
    BY <1>1 DEF SignalsInv
  <2>. QED
    BY <1>2, <1>3, <2>1, <2>2 DEF SignalsInv
<1>6. {y \in DOMAIN signals' : signals'[y].stage \in Underway}
        = {y \in DOMAIN signals : signals[y].stage \in Underway} \cup members
  BY <1>1, <1>2 DEF Underway
<1>7. UNION groups' = (UNION groups) \cup members
  BY <1>4
<1>8. \A g, h \in groups' : g # h => g \cap h = {}
  BY <1>4 DEF QubitsFollowSignals
<1>. QED
  BY <1>5, <1>6, <1>7, <1>8 DEF QubitsFollowSignals, Underway

LEMMA EmitStep ==
  ASSUME SignalsInv, QubitsFollowSignals, SourceEmit \/ SinglePhotonEmit
  PROVE  SignalsInv' /\ QubitsFollowSignals'
<1>1. CASE SourceEmit
  BY <1>1, LaunchStep DEF SourceEmit
<1>2. CASE SinglePhotonEmit
  <2>1. {<<pairs + 1, Single>>} = {<<pairs + 1, s>> : s \in {Single}} /\ {Single} \in SUBSET Sides
    BY LinkAssumption
  <2>. QED
    BY <1>2, <2>1, LaunchStep DEF SinglePhotonEmit
<1>. QED
  BY <1>1, <1>2

LEMMA NextSignals ==
  ASSUME SignalsInv, QubitsFollowSignals, [Next]_vars
  PROVE  SignalsInv' /\ QubitsFollowSignals'
<1>1. CASE UNCHANGED <<pairs, signals, groups>>
  BY <1>1 DEF SignalsInv, QubitsFollowSignals
<1>2. CASE SourceEmit \/ SinglePhotonEmit
  BY <1>2, EmitStep
<1>3. CASE Advance \/ SourceStart \/ SourceSkip \/ UNCHANGED vars
  BY <1>3, <1>1 DEF Advance, SourceStart, SourceSkip, vars
<1>4. ASSUME NEW x \in DOMAIN signals, ChannelLoses(x)
      PROVE  SignalsInv' /\ QubitsFollowSignals'
  <2>1. Moves(x, "lost") /\ Discard(x)
    BY <1>4 DEF ChannelLoses, SignalsInv, Moves
  <2>. QED
    BY <2>1, SignalEnds DEF Underway
<1>5. ASSUME NEW x \in DOMAIN signals, ChannelForwards(x)
      PROVE  SignalsInv' /\ QubitsFollowSignals'
  <2>1. PICK jitter \in 0..MaxJitter :
          signals' = [signals EXCEPT ![x] =
                        [stage |-> "flying", at |-> now + Delay + jitter, clicks |-> {}]]
    BY <1>5 DEF ChannelForwards
  <2>2. Moves(x, "flying")
    BY <1>5, <2>1 DEF ChannelForwards, SignalsInv, Moves
  <2>3. signals[x].stage = "sent" /\ groups' = groups
    BY <1>5 DEF ChannelForwards, Due
  <2>. QED
    BY <2>2, <2>3, SignalGoesOn DEF Underway
<1>6. ASSUME NEW x \in DOMAIN signals, Discard(x), pairs' = pairs,
             NEW clicks, NEW complete, Report(x, clicks, complete)
      PROVE  SignalsInv' /\ QubitsFollowSignals'
  <2>1. Moves(x, "measured")
    BY <1>6 DEF Report, Moves
  <2>. QED
    BY <1>6, <2>1, SignalEnds DEF Underway
<1>7. ASSUME NEW x \in DOMAIN signals, DetectClosed(x) \/ Detect(x)
      PROVE  SignalsInv' /\ QubitsFollowSignals'
  <2>1. Discard(x) /\ pairs' = pairs
    BY <1>7 DEF DetectClosed, Detect
  <2>2. \E clicks, complete : Report(x, clicks, complete)
    BY <1>7, Zenon DEF Detect, DetectClosed, ReportClosed
  <2>. QED
    BY <2>1, <2>2, <1>6
<1>8. ASSUME NEW x \in DOMAIN signals, Deliver(x)
      PROVE  SignalsInv' /\ QubitsFollowSignals'
  <2>1. Moves(x, "reported")
    BY <1>8 DEF Deliver, SignalsInv, Moves
  <2>2. signals[x].stage = "measured" /\ groups' = groups
    BY <1>8 DEF Deliver, Due
  <2>. QED
    BY <2>1, <2>2, SignalGoesOn DEF Underway
<1>. QED
  BY <1>2, <1>3, <1>4, <1>5, <1>7, <1>8 DEF Next

(* The quantum store holds the names of the signals on their way, and no   *)
(* others, in disjoint states.                                             *)
THEOREM SpecQubitsFollowSignals == Spec => []QubitsFollowSignals
<1>1. SignalsInv /\ QubitsFollowSignals /\ [Next]_vars => SignalsInv' /\ QubitsFollowSignals'
  BY NextSignals
<1>. QED
  BY InitSignals, <1>1, PTL DEF Spec
-----------------------------------------------------------------------------
(* The dead times *)

(* Ticks with a bound have a latest one.                                   *)
LEMMA LatestExists ==
  ASSUME NEW S \in SUBSET Int, S # {}, NEW bound \in Int, \A t \in S : t <= bound
  PROVE  LatestOf(S) \in S /\ \A t \in S : t <= LatestOf(S)
<1>. DEFINE Left == {bound - t : t \in S}
<1>1. Left \subseteq Nat
  OBVIOUS
<1>2. Left # {}
  OBVIOUS
<1>3. \A t \in S : bound - t \in Left
  OBVIOUS
<1>4. \A m \in Left : \E t \in S : m = bound - t
  OBVIOUS
<1>. HIDE DEF Left
<1>5. PICK m \in Left : \A n \in Left : <<n, m>> \notin OpToRel(<, Nat)
  BY <1>1, <1>2, WFMin, NatLessThanWellFounded, Zenon
<1>6. \A n \in Left : ~(n < m)
  BY <1>1, <1>5 DEF OpToRel
<1>7. \A n \in Left : m <= n
  BY <1>1, <1>6
<1>8. PICK t \in S : m = bound - t
  BY <1>4
<1>9. \A u \in S : t >= u
  <2>. TAKE u \in S
  <2>1. m <= bound - u
    BY <1>3, <1>7
  <2>. QED
    BY <1>8, <2>1
<1>10. LatestOf(S) \in S /\ \A u \in S : LatestOf(S) >= u
  BY <1>9 DEF LatestOf
<1>. QED
  BY <1>10

(* What is left of a gate window is a time, and no more than the window.   *)
LEMMA ActiveIsPart ==
  ASSUME NEW gate \in Gates, NEW t \in Int
  PROVE  ActiveDuration(gate, t, Window) \in Int /\ ActiveDuration(gate, t, Window) <= Window
<1>1. gate.period \in Nat \ {0} /\ gate.open \in Nat /\ gate.first \in Nat
  BY DEF Gates
<1>2. Offset(gate, t) \in Int
  BY <1>1 DEF Offset
<1>3. WindowEnd(gate, t) - t \in Int
  BY <1>1, <1>2 DEF WindowEnd
<1>4. Window \in Nat
  BY LinkAssumption
<1>. DEFINE left == WindowEnd(gate, t) - t
            part == IF left < Window THEN left ELSE Window
<1>5. part \in Int /\ part <= Window
  BY <1>3, <1>4
<1>6. ActiveDuration(gate, t, Window) \in {Window, 0, part}
  BY Zenon DEF ActiveDuration
<1>. HIDE DEF part
<1>. QED
  BY <1>4, <1>5, <1>6

LEMMA TogetherParts ==
  ASSUME NEW signal, NEW dark, NEW pulse, NEW times \in Together(signal, dark, pulse)
  PROVE  \E a \in signal, b \in dark, c \in pulse : times = a \cup b \cup c
BY DEF Together

(* The candidates of a window are ticks.                                   *)
LEMMA CandidatesAreTimes ==
  ASSUME NEW channel, NEW start \in Int, NEW end \in Int, NEW present,
         NEW times \in ClickCandidates(channel, start, end, present)
  PROVE  times \subseteq Int
<1>1. ASSUME NEW bases \in SUBSET Int, NEW p \in Perhaps(bases)
      PROVE  p \subseteq Int
  <2>1. CASE p = {}
    BY <2>1
  <2>2. CASE p # {}
    <3>1. PICK b \in bases, j \in 0..MaxClickJitter : p = {b + j}
      BY <1>1, <2>2 DEF Perhaps
    <3>2. b + j \in Int
      BY <1>1
    <3>. QED
      BY <3>1, <3>2
  <2>. QED
    BY <2>1, <2>2
<1>. DEFINE signal == IF present THEN {start} ELSE {}
            pulse  == IF channel.last # NoClick /\ channel.last <= start
                      THEN start..(end - 1) ELSE {}
<1>2. times \in Together(Perhaps(signal), Perhaps({start}), Perhaps(pulse))
  BY Zenon DEF ClickCandidates
<1>3. signal \in SUBSET Int /\ {start} \in SUBSET Int /\ pulse \in SUBSET Int
  OBVIOUS
<1>. HIDE DEF signal, pulse
<1>4. PICK a \in Perhaps(signal), b \in Perhaps({start}), c \in Perhaps(pulse) :
        times = a \cup b \cup c
  BY <1>2, TogetherParts
<1>5. a \subseteq Int /\ b \subseteq Int /\ c \subseteq Int
  BY <1>1, <1>3
<1>. QED
  BY <1>4, <1>5

(* What a detector does in one window: it clicks while it is alive only,   *)
(* and is dead for its dead time after each click.                         *)
LEMMA WindowClicks ==
  ASSUME NEW channel, channel.dead \in Int,
         NEW start \in Int, NEW duration \in Int, NEW present, NEW resolving,
         NEW after \in EvaluateWindow(channel, start, duration, present, DeadTime, resolving)
  PROVE  /\ after.dead \in Int /\ after.dead >= channel.dead
         /\ \A t \in after.clicks : /\ t \in Int /\ t < start + duration
                                   /\ t >= channel.dead /\ t + DeadTime <= after.dead
         /\ \A t, u \in after.clicks : u < t => t - u >= DeadTime
<1>1. DeadTime \in Nat
  BY LinkAssumption
<1>2. CASE after = Clicked(channel, {}, start, DeadTime)
  BY <1>2 DEF Clicked
<1>3. CASE ~(duration <= 0 \/ start < channel.dead)
  <2>. DEFINE end == start + duration
  <2>. DEFINE chosen(c) ==
          Accepted(channel, InWindow(c, start, end), start, DeadTime, resolving)
  <2>0. PICK c \in ClickCandidates(channel, start, end, present) :
          \E clicks \in chosen(c) : after = Clicked(channel, clicks, start, DeadTime)
    BY <1>3 DEF EvaluateWindow
  <2>1. PICK clicks \in chosen(c) : after = Clicked(channel, clicks, start, DeadTime)
    BY <2>0
  <2>2. clicks \subseteq Int /\ \A t \in clicks : t < end
    <3>1. c \subseteq Int
      BY CandidatesAreTimes
    <3>. QED
      BY <2>1, <3>1 DEF Accepted, InWindow
  <2>3. \A t \in clicks : t >= channel.dead
    BY <2>1 DEF Accepted
  <2>4. \A t, u \in clicks : u < t => t - u >= DeadTime
    <3>1. \A t, u \in clicks : u < t => t >= u + DeadTime
      BY <2>1 DEF Accepted, DeadAfter
    <3>. QED
      BY <1>1, <2>2, <3>1
  <2>5. CASE clicks = {}
    <3>1. after.dead = channel.dead /\ after.clicks = {}
      BY <2>1, <2>5 DEF Clicked
    <3>. QED
      BY <3>1
  <2>6. CASE clicks # {}
    <3>. DEFINE last == LatestOf(clicks)
    <3>0. end \in Int /\ clicks \in SUBSET Int
      BY <2>2
    <3>1. last \in clicks /\ \A t \in clicks : t <= last
      <4>. HIDE DEF end
      <4>1. \A t \in clicks : t <= end
        BY <2>2, <3>0
      <4>. QED
        BY <2>6, <3>0, <4>1, LatestExists
    <3>2. after.dead = last + DeadTime /\ after.clicks = clicks
      BY <2>1, <2>6 DEF Clicked, DeadAfter
    <3>. HIDE DEF last, chosen, end
    <3>3. after.dead \in Int /\ after.dead >= channel.dead
      BY <1>1, <2>2, <2>3, <3>1, <3>2
    <3>4. \A t \in clicks : t + DeadTime <= after.dead
      BY <1>1, <2>2, <3>1, <3>2
    <3>. QED
      BY <2>2, <2>3, <2>4, <3>2, <3>3, <3>4 DEF end
  <2>. QED
    BY <2>5, <2>6
<1>. QED
  BY <1>2, <1>3 DEF EvaluateWindow

(* What the dead times of the detectors are worth: a detector is dead at   *)
(* least until the dead time of every click it has had is over.            *)
ClicksInv ==
  /\ now \in Int
  /\ \A c \in Channels : detector[c].dead \in Int
  /\ \A x \in DOMAIN signals :
       /\ signals[x] = [stage |-> signals[x].stage, at |-> signals[x].at,
                        clicks |-> signals[x].clicks]
       /\ signals[x].at \in Int
       /\ \A c \in signals[x].clicks :
            /\ c.time \in Int /\ c.det \in DetectorsOf[x[2]]
            /\ c.time + DeadTime <= detector[<<x[2], c.det>>].dead

Apart(a, b) == a - b >= DeadTime \/ b - a >= DeadTime

ClicksApart ==
  \A x, y \in DOMAIN signals : x[2] = y[2] =>
    \A c \in signals[x].clicks, e \in signals[y].clicks :
      c.det = e.det /\ (x # y \/ c # e) => Apart(c.time, e.time)

LEMMA ApartIsKept == ClicksApart => DeadTimeKept
<1>. SUFFICES ASSUME ClicksApart, NEW s \in Sides, NEW a \in AllClicks(s), NEW b \in AllClicks(s),
                     a # b, a[2].det = b[2].det
              PROVE  Apart(a[2].time, b[2].time)
  BY DEF DeadTimeKept, Apart
<1>1. PICK x \in DOMAIN signals : x[2] = s /\ \E c \in signals[x].clicks : a = <<x[1], c>>
  BY DEF AllClicks
<1>2. PICK y \in DOMAIN signals : y[2] = s /\ \E e \in signals[y].clicks : b = <<y[1], e>>
  BY DEF AllClicks
<1>3. PICK c \in signals[x].clicks : a = <<x[1], c>>
  BY <1>1
<1>4. PICK e \in signals[y].clicks : b = <<y[1], e>>
  BY <1>2
<1>5. a[2] = c /\ b[2] = e /\ (x # y \/ c # e)
  BY <1>3, <1>4
<1>. QED
  BY <1>1, <1>2, <1>5 DEF ClicksApart

LEMMA InitClicks == Init => ClicksInv /\ ClicksApart
BY DEF Init, ClicksInv, ClicksApart, Fresh

(* A step that adds no click and changes no detector.                      *)
LEMMA ClicksStay ==
  ASSUME ClicksInv, ClicksApart, now' \in Int, detector' = detector,
         \A x \in DOMAIN signals' :
           /\ signals'[x] = [stage |-> signals'[x].stage, at |-> signals'[x].at,
                             clicks |-> signals'[x].clicks]
           /\ signals'[x].at \in Int
           /\ \/ signals'[x].clicks = {}
              \/ x \in DOMAIN signals /\ signals'[x].clicks = signals[x].clicks
  PROVE  ClicksInv' /\ ClicksApart'
<1>1. ClicksInv'
  BY DEF ClicksInv
<1>2. ClicksApart'
  <2>. SUFFICES ASSUME NEW x \in DOMAIN signals', NEW y \in DOMAIN signals', x[2] = y[2],
                       NEW c \in signals'[x].clicks, NEW e \in signals'[y].clicks,
                       c.det = e.det, x # y \/ c # e
                PROVE  Apart(c.time, e.time)
    BY DEF ClicksApart, Apart
  <2>1. x \in DOMAIN signals /\ c \in signals[x].clicks
    OBVIOUS
  <2>2. y \in DOMAIN signals /\ e \in signals[y].clicks
    OBVIOUS
  <2>. QED
    BY <2>1, <2>2 DEF ClicksApart
<1>. QED
  BY <1>1, <1>2

(* Every event that waits has its tick.                                    *)
LEMMA PendingAreTimes ==
  ASSUME SourceInv, ClicksInv
  PROVE  Pending \subseteq Int
<1>1. source.action # "none" => source.at \in Int
  BY LinkAssumption DEF SourceInv
<1>. QED
  BY <1>1 DEF Pending, ClicksInv

(* A report is ready at a tick, whatever was seen.                         *)
LEMMA ReadyAtATime ==
  ASSUME now \in Int, NEW times \in SUBSET Int, NEW bound \in Int, \A t \in times : t <= bound,
         NEW complete \in Int
  PROVE  ReadyTime(times, complete) + Latency \in Int
<1>1. times # {} => LatestOf(times) \in Int
  BY LatestExists
<1>2. ReadyTime(times, complete) \in Int
  BY <1>1 DEF ReadyTime, Later
<1>. QED
  BY <1>2, LinkAssumption

(* What the detectors of an array show in one measurement.                 *)
Shown(x, result, complete) ==
  LET s == x[2]
      ds == DetectorsOf[s]
  IN  /\ detector' = [c \in Channels |->
                         IF c[1] = s /\ c[2] \in ds
                         THEN [dead |-> result[c[2]].dead, last |-> result[c[2]].last]
                         ELSE detector[c]]
      /\ Report(x, UNION {{[det |-> d, time |-> t] : t \in result[d].clicks} : d \in ds}, complete)

(* A detector that clicks does so within a bound, while it is alive, and   *)
(* its clicks are apart.                                                   *)
Proper(channel, after, bound) ==
  /\ after.dead \in Int /\ after.dead >= channel.dead
  /\ \A t \in after.clicks : /\ t \in Int /\ t <= bound
                            /\ t >= channel.dead /\ t + DeadTime <= after.dead
  /\ \A t, u \in after.clicks : u < t => t - u >= DeadTime

LEMMA DetectShows ==
  ASSUME ClicksInv, NEW x \in DOMAIN signals, x[2] \in Sides, Detect(x)
  PROVE  \E result, complete : \E bound \in Int :
           /\ Shown(x, result, complete) /\ complete \in Int
           /\ \A d \in DetectorsOf[x[2]] : Proper(detector[<<x[2], d>>], result[d], bound)
<1>. DEFINE s == x[2]
            gate == GateOf[s]
            ds == DetectorsOf[s]
            begin(d, lit, offset) == now + (IF d = lit THEN offset ELSE 0)
            duration(d, lit, offset) == ActiveDuration(gate, begin(d, lit, offset), Window)
            ends(lit, offset) == {now} \cup
              {begin(d, lit, offset) + duration(d, lit, offset)
                 : d \in {e \in ds : duration(e, lit, offset) > 0}}
            ways(d, lit, offset) ==
              EvaluateWindow(detector[<<s, d>>], begin(d, lit, offset), duration(d, lit, offset),
                             d = lit, DeadTime, s \in Resolving)
            bound == now + MaxOffset[s] + Window
<1>. DEFINE outcomes(lit, offset) == [d \in ds |-> ways(d, lit, offset)]
<1>0. PICK lit \in ds, offset \in 0..MaxOffset[s] :
        \E result \in {r \in [ds -> UNION {outcomes(lit, offset)[d] : d \in ds}] :
                        \A d \in ds : r[d] \in outcomes(lit, offset)[d]} :
          Shown(x, result, LatestOf(ends(lit, offset)))
  BY Zenon DEF Detect, Shown
<1>1. PICK result \in {r \in [ds -> UNION {outcomes(lit, offset)[d] : d \in ds}] :
                        \A d \in ds : r[d] \in outcomes(lit, offset)[d]} :
        Shown(x, result, LatestOf(ends(lit, offset)))
  BY <1>0
<1>2. \A d \in ds : result[d] \in ways(d, lit, offset)
  <2>1. \A d \in ds : result[d] \in outcomes(lit, offset)[d]
    BY <1>1
  <2>. HIDE DEF ways
  <2>. QED
    BY <2>1
<1>3. gate \in Gates /\ MaxOffset[s] \in Nat /\ Window \in Nat /\ now \in Int
  BY LinkAssumption DEF ClicksInv
<1>4. \A d : begin(d, lit, offset) \in Int /\ begin(d, lit, offset) <= now + MaxOffset[s]
  BY <1>3
<1>5. \A d : duration(d, lit, offset) \in Int /\ duration(d, lit, offset) <= Window
  <2>. HIDE DEF begin, gate
  <2>. QED
    BY <1>3, <1>4, ActiveIsPart
<1>. HIDE DEF duration, begin, gate
<1>6. \A d : begin(d, lit, offset) + duration(d, lit, offset) \in Int
             /\ begin(d, lit, offset) + duration(d, lit, offset) <= bound
  BY <1>3, <1>4, <1>5
<1>7. LatestOf(ends(lit, offset)) \in Int
  <2>1. ends(lit, offset) \in SUBSET Int /\ \A t \in ends(lit, offset) : t <= bound
    BY <1>3, <1>6
  <2>2. ends(lit, offset) # {} /\ bound \in Int
    BY <1>3
  <2>. HIDE DEF ends, bound
  <2>. QED
    BY <2>1, <2>2, LatestExists
<1>8. ASSUME NEW d \in ds
      PROVE  Proper(detector[<<s, d>>], result[d], bound)
  <2>. DEFINE b == begin(d, lit, offset)
              l == duration(d, lit, offset)
              present == d = lit
              resolving == s \in Resolving
  <2>1. detector[<<s, d>>].dead \in Int
    BY DEF ClicksInv, Channels
  <2>2. result[d] \in EvaluateWindow(detector[<<s, d>>], b, l, present, DeadTime, resolving)
    BY <1>2
  <2>3. b \in Int /\ l \in Int /\ b + l <= bound /\ bound \in Int
    BY <1>3, <1>4, <1>5, <1>6
  <2>. HIDE DEF b, l, present, resolving, bound
  <2>4. /\ result[d].dead \in Int /\ result[d].dead >= detector[<<s, d>>].dead
        /\ \A t \in result[d].clicks : /\ t \in Int /\ t < b + l
                                      /\ t >= detector[<<s, d>>].dead
                                      /\ t + DeadTime <= result[d].dead
        /\ \A t, u \in result[d].clicks : u < t => t - u >= DeadTime
    BY <2>1, <2>2, <2>3, WindowClicks
  <2>. QED
    BY <2>3, <2>4 DEF Proper
<1>9. bound \in Int
  BY <1>3
<1>. QED
  BY <1>1, <1>7, <1>8, <1>9

(* The clicks of one measurement are apart from those before it, and its   *)
(* detectors are dead until their time is over.                            *)
LEMMA ShownStep ==
  ASSUME SignalsInv, ClicksInv, ClicksApart, NEW x \in DOMAIN signals, now' = now,
         NEW result, NEW complete \in Int, NEW bound \in Int, Shown(x, result, complete),
         \A d \in DetectorsOf[x[2]] : Proper(detector[<<x[2], d>>], result[d], bound)
  PROVE  ClicksInv' /\ ClicksApart'
<1>. DEFINE s == x[2]
            ds == DetectorsOf[s]
            clicks == UNION {{[det |-> d, time |-> t] : t \in result[d].clicks} : d \in ds}
            ready == ReadyTime({c.time : c \in clicks}, complete) + Latency
<1>1. s \in Sides
  BY DEF SignalsInv
<1>2. signals' = [signals EXCEPT ![x] = [stage |-> "measured", clicks |-> clicks, at |-> ready]]
  BY DEF Shown, Report
<1>3. /\ DOMAIN signals' = DOMAIN signals
      /\ signals'[x] = [stage |-> "measured", clicks |-> clicks, at |-> ready]
      /\ \A y \in DOMAIN signals : y # x => signals'[y] = signals[y]
  <2>. HIDE DEF clicks, ready
  <2>. QED
    BY <1>2
<1>4. \A c \in clicks : /\ c.det \in ds /\ c.time \in result[c.det].clicks
                        /\ c = [det |-> c.det, time |-> c.time]
  OBVIOUS
<1>5. \A c \in clicks : /\ c.time \in Int /\ c.time <= bound
                        /\ c.time >= detector[<<s, c.det>>].dead
                        /\ c.time + DeadTime <= result[c.det].dead
  BY <1>4 DEF Proper
<1>6. \A d \in ds : /\ <<s, d>> \in Channels
                    /\ detector'[<<s, d>>].dead = result[d].dead
                    /\ result[d].dead \in Int
                    /\ result[d].dead >= detector[<<s, d>>].dead
  BY <1>1 DEF Shown, Channels, Proper
<1>7. \A c \in Channels : \/ detector'[c] = detector[c]
                          \/ \E d \in ds : c = <<s, d>>
  BY DEF Shown, Channels
<1>. HIDE DEF clicks
<1>8. ready \in Int
  <2>. DEFINE times == {c.time : c \in clicks}
  <2>1. times \in SUBSET Int /\ \A t \in times : t <= bound
    BY <1>5
  <2>2. now \in Int
    BY DEF ClicksInv
  <2>. HIDE DEF times
  <2>3. ReadyTime(times, complete) + Latency \in Int
    BY <2>1, <2>2, ReadyAtATime
  <2>. QED
    BY <2>3 DEF times
<1>. HIDE DEF ready
<1>9. \A c \in Channels : /\ detector[c].dead \in Int /\ detector'[c].dead \in Int
                          /\ detector'[c].dead >= detector[c].dead
  <2>. TAKE c \in Channels
  <2>1. detector[c].dead \in Int
    BY DEF ClicksInv
  <2>. QED
    BY <1>6, <1>7, <2>1
<1>10. ClicksInv'
  <2>1. \A c \in clicks : /\ c.time \in Int /\ c.det \in DetectorsOf[x[2]]
                          /\ c.time + DeadTime <= detector'[<<x[2], c.det>>].dead
    BY <1>4, <1>5, <1>6
  <2>2. ASSUME NEW y \in DOMAIN signals, y # x, NEW c \in signals[y].clicks
        PROVE  /\ c.time \in Int /\ c.det \in DetectorsOf[y[2]]
               /\ c.time + DeadTime <= detector'[<<y[2], c.det>>].dead
    <3>0. c.det \in DetectorsOf[y[2]] /\ y[2] \in Sides
      BY <2>2 DEF SignalsInv, ClicksInv
    <3>1. <<y[2], c.det>> \in Channels
      BY <3>0 DEF Channels
    <3>2. /\ c.time \in Int /\ c.det \in DetectorsOf[y[2]]
          /\ c.time + DeadTime <= detector[<<y[2], c.det>>].dead
      BY <2>2 DEF ClicksInv
    <3>3. c.time + DeadTime \in Int
      BY <3>2, LinkAssumption
    <3>4. /\ detector[<<y[2], c.det>>].dead \in Int /\ detector'[<<y[2], c.det>>].dead \in Int
          /\ detector'[<<y[2], c.det>>].dead >= detector[<<y[2], c.det>>].dead
      BY <1>9, <3>1
    <3>. QED
      BY <3>2, <3>3, <3>4
  <2>3. \A y \in DOMAIN signals' :
          /\ signals'[y] = [stage |-> signals'[y].stage, at |-> signals'[y].at,
                            clicks |-> signals'[y].clicks]
          /\ signals'[y].at \in Int
    BY <1>3, <1>8 DEF ClicksInv
  <2>. QED
    BY <1>3, <1>9, <2>1, <2>2, <2>3 DEF ClicksInv
<1>11. ASSUME NEW c \in clicks, NEW y \in DOMAIN signals, y # x, y[2] = s,
              NEW e \in signals[y].clicks, c.det = e.det
       PROVE  c.time - e.time >= DeadTime
  <2>1. e.time \in Int /\ e.time + DeadTime <= detector[<<s, c.det>>].dead
    BY <1>11 DEF ClicksInv
  <2>2. c.time \in Int /\ c.time >= detector[<<s, c.det>>].dead /\ detector[<<s, c.det>>].dead \in Int
    BY <1>4, <1>5, <1>6, <1>9
  <2>. QED
    BY <2>1, <2>2, LinkAssumption
<1>12. ASSUME NEW c \in clicks, NEW e \in clicks, c.det = e.det, c # e
       PROVE  Apart(c.time, e.time)
  <2>1. c.time # e.time /\ c.time \in Int /\ e.time \in Int
    BY <1>4, <1>5, <1>12
  <2>2. c.time \in result[c.det].clicks /\ e.time \in result[c.det].clicks /\ c.det \in ds
    BY <1>4, <1>12
  <2>3. \A t, u \in result[c.det].clicks : u < t => t - u >= DeadTime
    BY <2>2 DEF Proper
  <2>. QED
    BY <2>1, <2>2, <2>3 DEF Apart
<1>13. ClicksApart'
  <2>. SUFFICES ASSUME NEW y \in DOMAIN signals', NEW z \in DOMAIN signals', y[2] = z[2],
                       NEW c \in signals'[y].clicks, NEW e \in signals'[z].clicks,
                       c.det = e.det, y # z \/ c # e
                PROVE  Apart(c.time, e.time)
    BY DEF ClicksApart, Apart
  <2>1. CASE y = x /\ z = x
    BY <1>3, <1>12, <2>1
  <2>2. CASE y = x /\ z # x
    <3>1. c.time - e.time >= DeadTime
      BY <1>3, <1>11, <2>2
    <3>. QED
      BY <3>1 DEF Apart
  <2>3. CASE y # x /\ z = x
    <3>1. e.time - c.time >= DeadTime
      BY <1>3, <1>11, <2>3
    <3>. QED
      BY <3>1 DEF Apart
  <2>4. CASE y # x /\ z # x
    BY <1>3, <2>4 DEF ClicksApart
  <2>. QED
    BY <2>1, <2>2, <2>3, <2>4
<1>. QED
  BY <1>10, <1>13

LEMMA NextClicks ==
  ASSUME SourceInv, SignalsInv, ClicksInv, ClicksApart, [Next]_vars
  PROVE  ClicksInv' /\ ClicksApart'
<1>1. CASE UNCHANGED <<now, signals, detector>>
  BY <1>1, ClicksStay DEF ClicksInv
<1>2. CASE Advance
  <2>1. now' \in Int
    BY <1>2, PendingAreTimes DEF Advance
  <2>. QED
    BY <1>2, <2>1, ClicksStay DEF Advance, ClicksInv
<1>3. CASE SourceStart \/ SourceSkip \/ UNCHANGED vars
  BY <1>1, <1>3 DEF SourceStart, SourceSkip, vars
<1>4. ASSUME NEW members, Launch(members), now' = now, detector' = detector
      PROVE  ClicksInv' /\ ClicksApart'
  BY <1>4, ClicksStay DEF Launch, ClicksInv
<1>5. CASE SourceEmit \/ SinglePhotonEmit
  BY <1>4, <1>5 DEF SourceEmit, SinglePhotonEmit
<1>6. ASSUME NEW x \in DOMAIN signals, NEW stage, NEW at \in Int,
             NEW clicks \in {{}, signals[x].clicks},
             signals' = [signals EXCEPT ![x] = [stage |-> stage, at |-> at, clicks |-> clicks]],
             now' = now, detector' = detector
      PROVE  ClicksInv' /\ ClicksApart'
  BY <1>6, ClicksStay DEF ClicksInv
<1>7. ASSUME NEW x \in DOMAIN signals, ChannelLoses(x) \/ Deliver(x)
      PROVE  ClicksInv' /\ ClicksApart'
  <2>1. PICK stage : signals' = [signals EXCEPT ![x].stage = stage]
    BY <1>7 DEF ChannelLoses, Deliver
  <2>. DEFINE signal == [stage |-> stage, at |-> signals[x].at, clicks |-> signals[x].clicks]
  <2>0. [signals[x] EXCEPT !.stage = stage] = signal
    BY DEF ClicksInv
  <2>2. signals' = [signals EXCEPT ![x] = signal]
    BY <2>0, <2>1
  <2>3. signals[x].at \in Int /\ now' = now /\ detector' = detector
    BY <1>7 DEF ClicksInv, ChannelLoses, Deliver
  <2>. QED
    BY <1>6, <2>2, <2>3
<1>8. ASSUME NEW x \in DOMAIN signals, ChannelForwards(x)
      PROVE  ClicksInv' /\ ClicksApart'
  <2>1. PICK jitter \in 0..MaxJitter :
          signals' = [signals EXCEPT ![x] =
                        [stage |-> "flying", at |-> now + Delay + jitter, clicks |-> {}]]
    BY <1>8 DEF ChannelForwards
  <2>2. now + Delay + jitter \in Int /\ now' = now /\ detector' = detector
    BY <1>8, LinkAssumption DEF ClicksInv, ChannelForwards
  <2>. QED
    BY <1>6, <2>1, <2>2
<1>9. ASSUME NEW x \in DOMAIN signals, DetectClosed(x)
      PROVE  ClicksInv' /\ ClicksApart'
  <2>. DEFINE ready == ReadyTime({c.time : c \in {}}, now) + Latency
  <2>1. signals' = [signals EXCEPT ![x] = [stage |-> "measured", clicks |-> {}, at |-> ready]]
    BY <1>9 DEF DetectClosed, ReportClosed, Report
  <2>2. now' = now /\ detector' = detector /\ now \in Int
    BY <1>9 DEF DetectClosed, ClicksInv
  <2>3. ready \in Int
    <3>1. {c.time : c \in {}} = {}
      OBVIOUS
    <3>. QED
      BY <2>2, <3>1, ReadyAtATime
  <2>. HIDE DEF ready
  <2>. QED
    BY <2>1, <2>2, <2>3, ClicksStay DEF ClicksInv
<1>10. ASSUME NEW x \in DOMAIN signals, Detect(x)
       PROVE  ClicksInv' /\ ClicksApart'
  <2>1. x[2] \in Sides /\ now' = now
    BY <1>10 DEF SignalsInv, Detect
  <2>. QED
    BY <1>10, <2>1, DetectShows, ShownStep
<1>. QED
  BY <1>2, <1>3, <1>5, <1>7, <1>8, <1>9, <1>10 DEF Next

(* Two clicks of one detector are at least its dead time apart, for every  *)
(* dead time, window and gate, and whatever signals, dark counts and       *)
(* afterpulses there are: windows may overlap, and clicks wait in them.    *)
THEOREM SpecDeadTimeKept == Spec => []DeadTimeKept
<1>. DEFINE Inv == SourceInv /\ EmissionsOnSchedule /\ SignalsInv /\ QubitsFollowSignals
                   /\ ClicksInv /\ ClicksApart
<1>1. Init => Inv
  BY InitSource, InitSignals, InitClicks
<1>2. Inv /\ [Next]_vars => Inv'
  BY NextSource, NextSignals, NextClicks
<1>3. Inv => DeadTimeKept
  BY ApartIsKept
<1>. QED
  BY <1>1, <1>2, <1>3, PTL DEF Spec

-----------------------------------------------------------------------------
(* What SubsystemOwnership promises *)

(* Every behaviour of the abstract store keeps each name in one joint      *)
(* state at most, and none of them empty: of the names of signals here,    *)
(* but nothing rests on what a name is.                                    *)
THEOREM OwnershipSafe == Qstate!OwnershipSpec => []Qstate!OneOwner
<1>1. Qstate!OwnershipInit => Qstate!OneOwner
  BY DEF Qstate!OwnershipInit, Qstate!OneOwner
<1>2. Qstate!OneOwner /\ [Qstate!OwnershipNext]_groups => Qstate!OneOwner'
  <2>. SUFFICES ASSUME Qstate!OneOwner, [Qstate!OwnershipNext]_groups PROVE Qstate!OneOwner'
    OBVIOUS
  <2>1. ASSUME NEW S \in SUBSET (Nat \X Sides), Qstate!Create(S) PROVE Qstate!OneOwner'
    BY <2>1 DEF Qstate!OneOwner, Qstate!Create, Qstate!Owned
  <2>2. ASSUME NEW G \in SUBSET groups, G # {}, Qstate!Join(G) PROVE Qstate!OneOwner'
    <3>1. groups' \subseteq (SUBSET (Nat \X Sides)) \ {{}}
      BY <2>2 DEF Qstate!OneOwner, Qstate!Join
    <3>2. \A g \in groups \ G : g \cap UNION G = {}
      BY <2>2 DEF Qstate!OneOwner
    <3>. QED BY <2>2, <3>1, <3>2 DEF Qstate!OneOwner, Qstate!Join
  <2>3. ASSUME NEW g \in groups, NEW S \in SUBSET g, Qstate!Drop(g, S) PROVE Qstate!OneOwner'
    <3>1. g \ S \subseteq g /\ g \subseteq Nat \X Sides
      BY DEF Qstate!OneOwner
    <3>2. groups' \subseteq (SUBSET (Nat \X Sides)) \ {{}}
      BY <2>3, <3>1 DEF Qstate!OneOwner, Qstate!Drop
    <3>3. \A h \in groups \ {g} : h \cap (g \ S) = {}
      BY <3>1 DEF Qstate!OneOwner
    <3>4. \A h \in groups' : h \in groups \ {g} \/ h = g \ S
      BY <2>3 DEF Qstate!Drop
    <3>. QED BY <3>2, <3>3, <3>4 DEF Qstate!OneOwner
  <2>4. ASSUME NEW g \in groups, NEW old \in Nat \X Sides, NEW new \in Nat \X Sides,
               Qstate!Rename(g, old, new)
        PROVE  Qstate!OneOwner'
    <3>. DEFINE renamed == (g \ {old}) \cup {new}
    <3>1. groups' \subseteq (SUBSET (Nat \X Sides)) \ {{}}
      BY <2>4 DEF Qstate!OneOwner, Qstate!Rename
    <3>2. \A h \in groups \ {g} : h \cap renamed = {}
      BY <2>4 DEF Qstate!OneOwner, Qstate!Rename, Qstate!Owned
    <3>3. \A h \in groups' : h \in groups \ {g} \/ h = renamed
      BY <2>4 DEF Qstate!Rename
    <3>. HIDE DEF renamed
    <3>. QED BY <3>1, <3>2, <3>3 DEF Qstate!OneOwner
  <2>5. CASE Qstate!Forget
    BY <2>5 DEF Qstate!OneOwner, Qstate!Forget
  <2>6. CASE UNCHANGED groups
    BY <2>6 DEF Qstate!OneOwner
  <2>. QED BY <2>1, <2>2, <2>3, <2>4, <2>5, <2>6 DEF Qstate!OwnershipNext
<1>. QED BY <1>1, <1>2, PTL DEF Qstate!OwnershipSpec

(* The link does to the names of its signals nothing but what the store    *)
(* offers: a pair is created under names that nobody owns, and a signal    *)
(* that is lost, blocked or detected drops its own.                        *)
THEOREM SpecKeepsOwnership == Spec => Qstate!OwnershipSpec /\ []Qstate!OneOwner
<1>1. Init => Qstate!OwnershipInit
  BY DEF Init, Qstate!OwnershipInit
<1>2. SignalsInv /\ [Next]_vars => [Qstate!OwnershipNext]_groups
  <2>. SUFFICES ASSUME SignalsInv, Next PROVE Qstate!OwnershipNext \/ groups' = groups
    BY DEF vars
  <2>1. ASSUME NEW x, Discard(x) PROVE Qstate!OwnershipNext
    <3>1. PICK g \in groups : x \in g /\ Qstate!Drop(g, {x})
      BY <2>1 DEF Discard
    <3>2. {x} \in SUBSET g
      BY <3>1
    <3>. QED
      BY <3>1, <3>2 DEF Qstate!OwnershipNext
  <2>2. ASSUME NEW members \in SUBSET (Nat \X Sides), Launch(members) PROVE Qstate!OwnershipNext
    BY <2>2 DEF Launch, Qstate!OwnershipNext
  <2>3. CASE SourceEmit
    <3>1. {<<pairs + 1, s>> : s \in Sides} \in SUBSET (Nat \X Sides)
      BY DEF SignalsInv
    <3>. QED
      BY <2>2, <2>3, <3>1 DEF SourceEmit
  <2>4. CASE SinglePhotonEmit
    <3>1. {<<pairs + 1, Single>>} \in SUBSET (Nat \X Sides)
      BY LinkAssumption DEF SignalsInv
    <3>. QED
      BY <2>2, <2>4, <3>1 DEF SinglePhotonEmit
  <2>5. CASE Advance \/ SourceStart \/ SourceSkip
    BY <2>5 DEF Advance, SourceStart, SourceSkip
  <2>6. ASSUME NEW x \in DOMAIN signals, ChannelLoses(x) \/ DetectClosed(x) \/ Detect(x)
        PROVE  Qstate!OwnershipNext
    <3>1. Discard(x)
      BY <2>6 DEF ChannelLoses, DetectClosed, Detect
    <3>. QED
      BY <2>1, <3>1
  <2>7. ASSUME NEW x \in DOMAIN signals, ChannelForwards(x) \/ Deliver(x)
        PROVE  groups' = groups
    BY <2>7 DEF ChannelForwards, Deliver
  <2>. QED
    BY <2>3, <2>4, <2>5, <2>6, <2>7 DEF Next
<1>3. Spec => []SignalsInv
  <2>. DEFINE Inv == SignalsInv /\ QubitsFollowSignals
  <2>1. Init => Inv
    BY InitSignals
  <2>2. Inv /\ [Next]_vars => Inv'
    BY NextSignals
  <2>3. Inv => SignalsInv
    OBVIOUS
  <2>. QED
    BY <2>1, <2>2, <2>3, PTL DEF Spec
<1>4. Spec => Qstate!OwnershipSpec
  BY <1>1, <1>2, <1>3, PTL DEF Spec, Qstate!OwnershipSpec
<1>. QED
  BY <1>4, OwnershipSafe, PTL
=============================================================================

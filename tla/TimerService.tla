---------------------------- MODULE TimerService ----------------------------
(***************************************************************************)
(* The timers of one agent, control/timers.py, on the timeline they share  *)
(* with every other event of the session.  A timer is a timeline event;    *)
(* the service remembers, for each timer id, the last one it scheduled.    *)
(* Agent hooks (on_start, on_timer, on_message...) are timeline handlers   *)
(* and may call the service any number of times before they return.        *)
(***************************************************************************)
EXTENDS Timeline

CONSTANTS Timers,          \* timer ids
          NotATimer,       \* what other events carry in place of a timer id
          Modes,           \* the ways at() is called: "plain", "replace", "set_once"
          TimerPriority    \* the priority of the service's events

ASSUME TimerAssumption == /\ NotATimer \notin Timers
                          /\ Modes \subseteq {"plain", "replace", "set_once"}
                          /\ TimerPriority \in Priorities

VARIABLES
  active,     \* _active: timer id -> the event it names, or NoEvent
  timerOf,    \* event -> the timer id in its payload, or NotATimer
  modeOf      \* event -> how at() was called, for the properties

timerVars == <<active, timerOf, modeOf>>
allVars   == <<vars, timerVars>>

TimerInit ==
  /\ Init
  /\ active = [id \in Timers |-> NoEvent]
  /\ timerOf = [e \in {} |-> NotATimer]
  /\ modeOf = [e \in {} |-> "plain"]

(* _get_active: the event an id stands for, unless it was cancelled or its *)
(* tick has come.                                                          *)
GetActive(id) ==
  IF /\ active[id] # NoEvent
     /\ active[id] \notin cancelled
     /\ event[active[id]].time > now
  THEN active[id] ELSE NoEvent

TimerScheduled(id, t, mode) ==
  /\ Pushed(t, TimerPriority)
  /\ timerOf' = [e \in DOMAIN event' |-> IF e = nextId THEN id ELSE timerOf[e]]
  /\ modeOf' = [e \in DOMAIN event' |-> IF e = nextId THEN mode ELSE modeOf[e]]

(* A mistake: replace forgets the old timer instead of cancelling it.      *)
AtWithoutCancel(id, t, mode) ==
  /\ CallerActive
  /\ ~(mode = "set_once" /\ GetActive(id) # NoEvent)
  /\ t >= now
  /\ TimerScheduled(id, t, mode)
  /\ active' = [active EXCEPT ![id] = nextId]
  /\ UNCHANGED <<now, cancelled, flow>>

(* at, and set with t = now + delay.  set_once on an active timer returns  *)
(* it and changes nothing.                                                 *)
At(id, t, mode) ==
  /\ CallerActive
  /\ ~(mode = "set_once" /\ GetActive(id) # NoEvent)
  /\ t >= now
  /\ cancelled' = IF mode = "replace" /\ GetActive(id) # NoEvent
                    THEN cancelled \cup {GetActive(id)} ELSE cancelled
  /\ TimerScheduled(id, t, mode)
  /\ active' = [active EXCEPT ![id] = nextId]
  /\ UNCHANGED <<now, flow>>

(* The past is rejected by the TimerFired payload, after replace has       *)
(* cancelled the timer it was to replace and a stale entry was dropped.    *)
AtPast(id, t, mode) ==
  /\ CallerActive
  /\ ~(mode = "set_once" /\ GetActive(id) # NoEvent)
  /\ t < now
  /\ IF GetActive(id) = NoEvent
       THEN active' = [active EXCEPT ![id] = NoEvent] /\ UNCHANGED cancelled
       ELSE /\ cancelled' = IF mode = "replace" THEN cancelled \cup {GetActive(id)}
                                                ELSE cancelled
            /\ UNCHANGED active
  /\ UNCHANGED <<now, nextId, event, heap, flow, timerOf, modeOf>>

CancelById(id) ==
  /\ CallerActive
  /\ cancelled' = cancelled \cup ({GetActive(id)} \ {NoEvent})
  /\ active' = [active EXCEPT ![id] = NoEvent]
  /\ UNCHANGED <<now, nextId, event, heap, flow, timerOf, modeOf>>

(* cancel given the Event that at or set returned: the entry stays.        *)
CancelEvent(e) ==
  /\ timerOf[e] \in Timers
  /\ Cancel(e)
  /\ UNCHANGED timerVars

(* Events of the rest of the session: agent starts, messages, reports.     *)
ScheduleOther(t, p) ==
  /\ Schedule(t, p)
  /\ timerOf' = [e \in DOMAIN event' |-> IF e = nextId THEN NotATimer ELSE timerOf[e]]
  /\ modeOf' = [e \in DOMAIN event' |-> IF e = nextId THEN "plain" ELSE modeOf[e]]
  /\ UNCHANGED active

TimerEngineStep ==
  /\ RunStep \/ HandlerReturns \/ HandlerRaises \/ TargetRejected
       \/ CallRunOneStep \/ CallRunOneStepInVain \/ CallRun
  /\ UNCHANGED timerVars

TimerUse ==
  \/ TimerEngineStep
  \/ \E id \in Timers, t \in Ticks, mode \in Modes : At(id, t, mode) \/ AtPast(id, t, mode)
  \/ \E e \in DOMAIN event : CancelEvent(e)
  \/ \E t \in Ticks, p \in Priorities : ScheduleOther(t, p)

TimerNext == TimerUse \/ \E id \in Timers : CancelById(id)

TimerSpec == TimerInit /\ [][TimerNext]_allVars

-----------------------------------------------------------------------------
(* Properties *)

(* Two future timers share an id only where a plain set shadowed the       *)
(* first: replace and set_once alone keep at most one.                     *)
OneFutureTimerPerId ==
  \A d, e \in Live(heap) :
     (d < e /\ timerOf[d] = timerOf[e] /\ timerOf[d] \in Timers
        /\ event[d].time > now /\ event[e].time > now) =>
     \E f \in (d + 1)..e : timerOf[f] = timerOf[d] /\ modeOf[f] = "plain"
=============================================================================

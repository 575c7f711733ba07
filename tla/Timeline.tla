------------------------------ MODULE Timeline ------------------------------
(***************************************************************************)
(* The deterministic discrete-event engine: engine/timeline.py, with its   *)
(* EventQueue, Event and event_ordering_key.                               *)
(*                                                                         *)
(* An event is its id, given by schedule.  Ids stand for the Event object  *)
(* too, so an event can be cancelled wherever it is: in the heap, in the   *)
(* batch being dispatched, or after it was handled.  Handlers are not      *)
(* interpreted: between the call of a handler and its return or exception  *)
(* any number of schedule, cancel and reschedule calls may happen, and     *)
(* the same calls may happen while no run method is on the stack.          *)
(***************************************************************************)
EXTENDS Integers

CONSTANTS MaxEvents,    \* bound: events ever scheduled
          MaxTime,      \* bound: last tick an event is scheduled at
          Priorities    \* the priorities in use; lower ones run first

ASSUME TimelineAssumption == /\ MaxEvents \in Nat
                             /\ MaxTime \in Nat
                             /\ Priorities \subseteq Int

VARIABLES
  now,          \* _current_time
  nextId,       \* _next_event_id
  event,        \* id -> time and priority of every event scheduled so far
  cancelled,    \* ids of the events with the cancelled flag set
  heap,         \* EventQueue._heap, cancelled entries included
  batch,        \* what run_one_step has popped and not dispatched yet
  running,      \* the event whose handler is on the stack, or NoEvent
  executing,    \* _executing
  call,         \* the run method on the stack, or NoCall
  rngFrozen,    \* _rng_frozen
  handled,      \* ids whose handler has been called
  dropped,      \* ids popped with a batch that a failure cut short
  horizon       \* nextId when the current batch was popped

vars == <<now, nextId, event, cancelled, heap, batch, running, executing,
          call, rngFrozen, handled, dropped, horizon>>

flow  == <<batch, running, executing, call, rngFrozen, handled, dropped, horizon>>
queue == <<nextId, event, cancelled, heap>>

Ticks   == 0..MaxTime
Id      == 0..(MaxEvents - 1)
NoEvent == -1
NoCall  == [kind |-> "none", end |-> 0]
Calls   == {NoCall, [kind |-> "step", end |-> 0], [kind |-> "until_empty", end |-> 0]}
             \cup [kind : {"until"}, end : Ticks]

-----------------------------------------------------------------------------
(* Ordering and the queue *)

(* A mistake: ties between equal times are broken by id alone. *)
BeforeNoPriority(d, e) ==
  \/ event[d].time < event[e].time
  \/ event[d].time = event[e].time /\ d < e

(* event_ordering_key: time, then priority, then scheduling order. *)
Before(d, e) ==
  \/ event[d].time < event[e].time
  \/ /\ event[d].time = event[e].time
     /\ \/ event[d].priority < event[e].priority
        \/ event[d].priority = event[e].priority /\ d < e

Live(h) == h \ cancelled

(* A mistake: every cancelled entry is taken for a live head's predecessor *)
(* and entries behind a cancelled one are dropped with it.                 *)
PurgedGreedy(h) == {e \in Live(h) : \A c \in h \cap cancelled : Before(e, c)}

(* _discard_cancelled: cancelled entries go while they are at the head. *)
Purged(h) == {e \in h : \E d \in Live(h) : d = e \/ Before(d, e)}

(* The live events that share the earliest live tick. *)
NextBatch ==
  {e \in Live(heap) : \A d \in Live(heap) : event[e].time <= event[d].time}

-----------------------------------------------------------------------------
(* The run methods *)

Init ==
  /\ now = 0 /\ nextId = 0 /\ horizon = 0
  /\ event = [i \in {} |-> [time |-> 0, priority |-> 0]]
  /\ cancelled = {} /\ heap = {} /\ batch = {} /\ handled = {} /\ dropped = {}
  /\ running = NoEvent /\ executing = FALSE /\ call = NoCall
  /\ rngFrozen = FALSE

Idle == call = NoCall

(* run_one_step up to the first dispatch: the RNG registry is frozen, the  *)
(* batch leaves the queue and the clock moves to it.  The code's checks    *)
(* that the batch is neither in the past nor out of order cannot fail.     *)
BeginBatch ==
  /\ ~executing
  /\ \E e \in NextBatch : event[e].time >= now /\ now' = event[e].time
  /\ batch' = NextBatch
  /\ heap' = Purged(heap \ NextBatch)
  /\ rngFrozen' = TRUE
  /\ executing' = TRUE
  /\ horizon' = nextId
  /\ UNCHANGED <<nextId, event, cancelled, running, handled, dropped>>

CallRunOneStep ==
  /\ Idle
  /\ BeginBatch
  /\ call' = [kind |-> "step", end |-> 0]

(* run_one_step on a heap of cancelled entries: it freezes the registry,   *)
(* discards them all and raises IndexError.  (On an empty heap it raises   *)
(* before it has changed anything.)                                        *)
CallRunOneStepInVain ==
  /\ Idle
  /\ heap # {} /\ Live(heap) = {}
  /\ rngFrozen' = TRUE
  /\ heap' = {}
  /\ UNCHANGED <<now, nextId, event, cancelled, batch, running, executing,
                 call, handled, dropped, horizon>>

CallRun ==
  /\ Idle
  /\ call' \in Calls \ {NoCall, [kind |-> "step", end |-> 0]}
  /\ UNCHANGED <<now, nextId, event, cancelled, heap, batch, running, executing,
                 rngFrozen, handled, dropped, horizon>>

InLoop == call.kind \in {"until", "until_empty"} /\ ~executing

(* A mistake: the bound of run_until is exclusive. *)
MoreToRunExclusive ==
  /\ Live(heap) # {}
  /\ call.kind = "until" =>
       now <= call.end /\ \E e \in NextBatch : event[e].time < call.end

(* A mistake: cancelled entries count as something to run. *)
MoreToRunCancelled ==
  /\ heap # {}
  /\ call.kind = "until" =>
       now <= call.end /\ \A e \in NextBatch : event[e].time <= call.end

(* What the loops of run_until and run_until_empty ask before each batch. *)
MoreToRun ==
  /\ Live(heap) # {}
  /\ call.kind = "until" =>
       now <= call.end /\ \E e \in NextBatch : event[e].time <= call.end

LoopStep ==
  /\ InLoop
  /\ MoreToRun
  /\ BeginBatch
  /\ UNCHANGED call

LoopReturn ==
  /\ InLoop
  /\ ~MoreToRun
  /\ heap' = IF call.kind = "until" /\ call.end < now THEN heap ELSE Purged(heap)
  /\ call' = NoCall
  /\ UNCHANGED <<now, nextId, event, cancelled, batch, running, executing,
                 rngFrozen, handled, dropped, horizon>>

Dispatching == executing /\ running = NoEvent

NextInBatch(e) == e \in batch /\ \A d \in batch \ {e} : Before(e, d)

(* The event was cancelled after its batch was popped. *)
SkipCancelled(e) ==
  /\ Dispatching
  /\ NextInBatch(e)
  /\ e \in cancelled
  /\ batch' = batch \ {e}
  /\ UNCHANGED <<now, queue, running, executing, call, rngFrozen, handled,
                 dropped, horizon>>

(* A mistake: only the queue looks at the cancelled flag. *)
CallHandlerUnchecked(e) ==
  /\ Dispatching
  /\ NextInBatch(e)
  /\ batch' = batch \ {e}
  /\ running' = e
  /\ handled' = handled \cup {e}
  /\ UNCHANGED <<now, queue, executing, call, rngFrozen, dropped, horizon>>

CallHandler(e) ==
  /\ Dispatching
  /\ NextInBatch(e)
  /\ e \notin cancelled
  /\ batch' = batch \ {e}
  /\ running' = e
  /\ handled' = handled \cup {e}
  /\ UNCHANGED <<now, queue, executing, call, rngFrozen, dropped, horizon>>

HandlerReturns ==
  /\ running # NoEvent
  /\ running' = NoEvent
  /\ UNCHANGED <<now, queue, batch, executing, call, rngFrozen, handled,
                 dropped, horizon>>

(* An exception leaves run_one_step and the loop around it: what is left   *)
(* of the batch is in neither the queue nor the batch any more.            *)
Abandon ==
  /\ dropped' = dropped \cup batch
  /\ batch' = {}
  /\ running' = NoEvent
  /\ executing' = FALSE
  /\ call' = NoCall
  /\ UNCHANGED <<now, queue, rngFrozen, handled, horizon>>

HandlerRaises == running # NoEvent /\ Abandon

(* TypeError: the target of the next event has no handle_event. *)
TargetRejected ==
  /\ Dispatching
  /\ \E e \in batch \ cancelled : NextInBatch(e)
  /\ Abandon

EndBatch ==
  /\ Dispatching
  /\ batch = {}
  /\ executing' = FALSE
  /\ call' = IF call.kind = "step" THEN NoCall ELSE call
  /\ UNCHANGED <<now, queue, batch, running, rngFrozen, handled, dropped, horizon>>

-----------------------------------------------------------------------------
(* The scheduling methods, called by handlers or between runs *)

CallerActive == Idle \/ running # NoEvent

(* _allocate_event_id and EventQueue.push *)
Pushed(t, p) ==
  /\ nextId < MaxEvents
  /\ event' = [i \in 0..nextId |->
                 IF i = nextId THEN [time |-> t, priority |-> p] ELSE event[i]]
  /\ heap' = heap \cup {nextId}
  /\ nextId' = nextId + 1

(* A mistake: the time of a new event is not compared with the clock. *)
ScheduleAnyTime(t, p) ==
  /\ CallerActive
  /\ Pushed(t, p)
  /\ UNCHANGED <<now, cancelled, flow>>

(* A time before now raises ValueError and changes nothing. *)
Schedule(t, p) ==
  /\ CallerActive
  /\ t >= now
  /\ Pushed(t, p)
  /\ UNCHANGED <<now, cancelled, flow>>

Cancel(e) ==
  /\ CallerActive
  /\ cancelled' = cancelled \cup {e}
  /\ UNCHANGED <<now, nextId, event, heap, flow>>

(* The original is cancelled first: when the new time is in the past the   *)
(* replacement raises and the original stays cancelled.                    *)
Reschedule(e, t, p) ==
  /\ CallerActive
  /\ cancelled' = cancelled \cup {e}
  /\ \/ t >= now /\ Pushed(t, p)
     \/ t < now /\ UNCHANGED <<nextId, event, heap>>
  /\ UNCHANGED <<now, flow>>

-----------------------------------------------------------------------------

RunStep ==
  \/ LoopStep \/ LoopReturn \/ EndBatch
  \/ \E e \in batch : SkipCancelled(e) \/ CallHandler(e)

CallerStep ==
  \/ CallRunOneStep \/ CallRunOneStepInVain \/ CallRun
  \/ \E t \in Ticks, p \in Priorities :
       \/ Schedule(t, p)
       \/ \E e \in DOMAIN event : Reschedule(e, t, p)
  \/ \E e \in DOMAIN event : Cancel(e)

Next ==
  \/ RunStep
  \/ HandlerReturns \/ HandlerRaises \/ TargetRejected
  \/ CallerStep

Spec == Init /\ [][Next]_vars

(* The run methods are straight-line Python and a handler comes back.      *)
FairSpec == Spec /\ WF_vars(RunStep) /\ WF_vars(HandlerReturns)

-----------------------------------------------------------------------------
(* Properties *)

TypeOK ==
  /\ now \in Ticks
  /\ nextId \in 0..MaxEvents
  /\ horizon \in 0..nextId
  /\ event \in [0..(nextId - 1) -> [time : Ticks, priority : Priorities]]
  /\ cancelled \subseteq DOMAIN event
  /\ heap \subseteq DOMAIN event
  /\ batch \subseteq DOMAIN event
  /\ handled \subseteq DOMAIN event
  /\ dropped \subseteq DOMAIN event
  /\ running \in handled \cup {NoEvent}
  /\ executing \in BOOLEAN
  /\ call \in Calls
  /\ rngFrozen \in BOOLEAN

(* Where an event can be: no event is queued, popped, handled or lost      *)
(* twice over, whatever handlers do to events of the batch they are in.    *)
OnePlace ==
  /\ heap \cap (batch \cup handled \cup dropped) = {}
  /\ batch \cap (handled \cup dropped) = {}
  /\ handled \cap dropped = {}

(* Every event schedule accepted is waiting, handled or accounted for: it  *)
(* disappears only if it was cancelled, or was in a batch a failure cut.   *)
EventsAccounted ==
  /\ OnePlace
  /\ DOMAIN event = heap \cup batch \cup handled \cup dropped \cup cancelled

(* The queue never holds an event of the past, the popped batch is of the  *)
(* current tick, and while no run method is on the stack nothing of a      *)
(* batch is left, so that the timeline can run again after a failure.      *)
NothingStale ==
  /\ \A e \in heap : event[e].time >= now
  /\ \A e \in batch : event[e].time = now
  /\ executing \/ (batch = {} /\ running = NoEvent)
  /\ Idle => ~executing

(* The order the documentation gives: by time, then priority, then id.     *)
Key(e) == <<event[e].time, event[e].priority, e>>

KeyBefore(d, e) ==
  \E i \in 1..3 : /\ Key(d)[i] < Key(e)[i]
                  /\ \A j \in 1..(i - 1) : Key(d)[j] = Key(e)[j]

(* Events run in the order of their keys, except that a handler's same-tick *)
(* events wait for the next batch: no live event that was scheduled before  *)
(* the batch was popped precedes the one whose handler is called.           *)
DispatchOrder ==
  [][running' \notin {running, NoEvent} =>
       \A d \in Live(heap \cup batch) \ {running'} :
         d < horizon => KeyBefore(running', d)]_vars

(* Once cancelled, an event whose handler was not called yet never runs:   *)
(* not from the heap, and not from a batch that was popped before.         *)
CancelHonoured == [][cancelled \cap handled' \subseteq handled]_vars

(* run_until returns normally only when nothing live is due by its bound,  *)
(* and never runs a batch beyond it: stopping at a and then running to b   *)
(* is running to b.                                                        *)
RunUntilExact ==
  [][call.kind = "until" =>
       /\ (~executing /\ call' = NoCall) =>
            \A e \in Live(heap') : event[e].time > call.end
       /\ (~executing /\ executing') => now' <= call.end]_vars

(* Every call of a run method comes back: no batch, cancelled entry or     *)
(* late event makes the loop spin.                                         *)
CallsReturn == (call # NoCall) ~> (call = NoCall)

(* The events the engine still has to deliver, as records. *)
PendingRecords ==
  {[id |-> e, time |-> event[e].time] : e \in Live(heap \cup batch)}

Promise == INSTANCE EventSchedule WITH
             Event <- [id : Id, time : Ticks],
             clock <- now,
             pending <- PendingRecords

(* The engine keeps the promise that the component modules are written     *)
(* against: in time order, once each, none silently lost or added.         *)
ImplementsSchedule == Promise!ScheduleSpec
=============================================================================

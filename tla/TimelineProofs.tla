--------------------------- MODULE TimelineProofs ---------------------------
(***************************************************************************)
(* Proofs about module Timeline, for any number of events, any ticks and   *)
(* any integer priorities.  The argument is one inductive invariant: the   *)
(* engine's bookkeeping is exact, nothing waiting is in the past, and an   *)
(* open batch is closed against events scheduled after it was popped.      *)
(***************************************************************************)
EXTENDS TimerService, WellFoundedInduction, TLAPS

(* While a batch is open, the live events of its tick that are not in it   *)
(* were scheduled after it was popped.                                     *)
BatchClosed ==
  /\ \A e \in batch : e < horizon
  /\ executing => \A d \in Live(heap) : event[d].time > now \/ d >= horizon

(* The inductive invariant. *)
IInv == TypeOK /\ EventsAccounted /\ NothingStale /\ BatchClosed

-----------------------------------------------------------------------------

LEMMA InitIInv == Init => IInv
<1>. SUFFICES ASSUME Init PROVE IInv
  OBVIOUS
<1>1. 0..(nextId - 1) = {} /\ DOMAIN event = {}
  BY DEF Init
<1>2. event \in [0..(nextId - 1) -> [time : Ticks, priority : Priorities]]
  BY <1>1 DEF Init
<1>3. TypeOK
  <2>1. call \in Calls /\ now \in Ticks /\ nextId \in 0..MaxEvents /\ horizon \in 0..nextId
    BY TimelineAssumption DEF Init, Calls, Ticks
  <2>2. UNION {cancelled, heap, batch, handled, dropped} = {}
    BY DEF Init
  <2>3. running \in handled \cup {NoEvent} /\ executing \in BOOLEAN /\ rngFrozen \in BOOLEAN
    BY DEF Init
  <2>. QED
    BY <1>2, <2>1, <2>2, <2>3 DEF TypeOK
<1>4. EventsAccounted /\ NothingStale /\ BatchClosed
  BY <1>1 DEF Init, EventsAccounted, OnePlace, NothingStale, BatchClosed, Live, Idle, NoEvent
<1>. QED
  BY <1>3, <1>4 DEF IInv

(* Popping the next batch, whatever run method does it. *)
LEMMA BeginBatchIInv ==
  ASSUME IInv, BeginBatch, call' \in Calls, call' # NoCall
  PROVE  IInv'
<1>. USE DEF IInv
<1>1. NextBatch \subseteq Live(heap)
  BY DEF NextBatch
<1>2. PICK e0 \in NextBatch : event[e0].time >= now /\ now' = event[e0].time
  BY DEF BeginBatch
<1>3. \A d \in Live(heap) : event[d].time \in Ticks /\ event[d].time >= event[e0].time
  BY <1>1, <1>2 DEF NextBatch, TypeOK, Live
<1>4. \A d \in NextBatch : event[d].time = event[e0].time
  BY <1>1, <1>2, <1>3 DEF NextBatch, Ticks
<1>5. \A d \in Live(heap) \ NextBatch : event[d].time > event[e0].time
  BY <1>2, <1>3 DEF NextBatch, Ticks
<1>6. Purged(heap \ NextBatch) \subseteq heap \ NextBatch
  BY DEF Purged
<1>7. heap \ NextBatch \subseteq Purged(heap \ NextBatch) \cup cancelled
  BY DEF Purged, Live
<1>8. TypeOK'
  <2>1. now' \in Ticks
    BY <1>1, <1>2, <1>3
  <2>2. horizon' \in 0..nextId'
    BY DEF BeginBatch, TypeOK
  <2>. QED
    BY <1>1, <1>6, <2>1, <2>2 DEF BeginBatch, TypeOK, Live
<1>9. EventsAccounted'
  <2>1. batch = {} /\ batch' = NextBatch /\ heap' = Purged(heap \ NextBatch)
    BY DEF BeginBatch, NothingStale
  <2>2. UNCHANGED <<event, handled, dropped, cancelled>>
    BY DEF BeginBatch
  <2>3. OnePlace'
    BY <1>1, <1>6, <2>1, <2>2 DEF EventsAccounted, OnePlace, Live
  <2>4. (DOMAIN event)' = (heap \cup batch \cup handled \cup dropped \cup cancelled)'
    <3>1. heap' \cup batch' \subseteq heap
      BY <1>1, <1>6, <2>1 DEF Live
    <3>2. heap \subseteq heap' \cup batch' \cup cancelled
      BY <1>7, <2>1
    <3>. QED
      BY <2>1, <2>2, <3>1, <3>2 DEF EventsAccounted
  <2>. QED
    BY <2>3, <2>4 DEF EventsAccounted
<1>10. NothingStale'
  <2>1. ASSUME NEW d \in heap'
        PROVE  event[d].time >= now'
    <3>1. PICK f \in Live(heap \ NextBatch) : f = d \/ Before(f, d)
      BY <2>1 DEF BeginBatch, Purged
    <3>2. event[f].time > event[e0].time
      BY <1>5, <3>1 DEF Live
    <3>3. event[d].time >= event[f].time
      <4>1. d \in DOMAIN event /\ f \in DOMAIN event
        BY <1>6, <2>1, <3>1 DEF BeginBatch, TypeOK, Live
      <4>. QED
        BY <3>1, <4>1 DEF Before, TypeOK, Ticks
    <3>4. {d, f, e0} \subseteq DOMAIN event
      BY <1>1, <1>6, <2>1, <3>1 DEF BeginBatch, TypeOK, Live
    <3>5. event[d].time \in Int /\ event[f].time \in Int /\ event[e0].time \in Int
      BY <3>4 DEF TypeOK, Ticks
    <3>. QED
      BY <1>2, <3>2, <3>3, <3>5
  <2>2. \A d \in batch' : event[d].time = now'
    BY <1>2, <1>4 DEF BeginBatch
  <2>. QED
    BY <2>1, <2>2 DEF BeginBatch, NothingStale, Idle
<1>11. BatchClosed'
  <2>1. \A d \in batch' : d < horizon'
    BY <1>1 DEF BeginBatch, TypeOK, Live
  <2>2. \A d \in Live(heap)' : event'[d].time > now'
    BY <1>2, <1>5, <1>6 DEF BeginBatch, Live
  <2>. QED
    BY <2>1, <2>2 DEF BatchClosed
<1>. QED
  BY <1>8, <1>9, <1>10, <1>11

(* The steps that only move or mark events already scheduled. *)
LEMMA RunStepIInv == IInv /\ RunStep => IInv'
<1>. SUFFICES ASSUME IInv, RunStep PROVE IInv'
  OBVIOUS
<1>. USE DEF IInv
<1>1. CASE LoopStep
  BY <1>1, BeginBatchIInv DEF LoopStep, InLoop, TypeOK, NoCall
<1>2. CASE LoopReturn
  <2>1. heap' \subseteq heap /\ heap \subseteq heap' \cup cancelled
    BY <1>2 DEF LoopReturn, Purged, Live
  <2>2. TypeOK'
    BY <1>2, <2>1 DEF LoopReturn, TypeOK, Calls
  <2>3. EventsAccounted'
    BY <1>2, <2>1 DEF LoopReturn, EventsAccounted, OnePlace
  <2>4. NothingStale' /\ BatchClosed'
    BY <1>2, <2>1 DEF LoopReturn, InLoop, NothingStale, BatchClosed, Live, Idle
  <2>. QED
    BY <2>2, <2>3, <2>4
<1>3. CASE EndBatch
  <2>1. call' \in Calls /\ UNCHANGED <<now, queue, batch, running, rngFrozen, handled, dropped, horizon>>
    BY <1>3 DEF EndBatch, TypeOK, Calls
  <2>2. executing' = FALSE /\ batch = {} /\ running = NoEvent
    BY <1>3 DEF EndBatch, Dispatching
  <2>3. TypeOK' /\ EventsAccounted'
    BY <2>1, <2>2 DEF TypeOK, EventsAccounted, OnePlace, queue
  <2>4. NothingStale' /\ BatchClosed'
    BY <2>1, <2>2 DEF NothingStale, BatchClosed, Live, Idle, queue
  <2>. QED
    BY <2>3, <2>4
<1>4. CASE \E e \in batch : SkipCancelled(e)
  <2>. PICK e \in batch : SkipCancelled(e)
    BY <1>4
  <2>1. e \in cancelled /\ batch' = batch \ {e}
    BY DEF SkipCancelled
  <2>2. UNCHANGED <<now, queue, running, executing, call, rngFrozen, handled, dropped, horizon>>
    BY DEF SkipCancelled
  <2>3. TypeOK' /\ EventsAccounted'
    BY <2>1, <2>2 DEF TypeOK, EventsAccounted, OnePlace, queue
  <2>4. NothingStale' /\ BatchClosed'
    BY <2>1, <2>2 DEF NothingStale, BatchClosed, Live, Idle, queue
  <2>. QED
    BY <2>3, <2>4
<1>5. CASE \E e \in batch : CallHandler(e)
  <2>. PICK e \in batch : CallHandler(e)
    BY <1>5
  <2>1. /\ batch' = batch \ {e} /\ running' = e /\ handled' = handled \cup {e}
        /\ executing
    BY DEF CallHandler, Dispatching
  <2>2. UNCHANGED <<now, queue, executing, call, rngFrozen, dropped, horizon>>
    BY DEF CallHandler
  <2>3. TypeOK' /\ EventsAccounted'
    BY <2>1, <2>2 DEF TypeOK, EventsAccounted, OnePlace, queue
  <2>4. NothingStale' /\ BatchClosed'
    BY <2>1, <2>2 DEF NothingStale, BatchClosed, Live, Idle, queue
  <2>. QED
    BY <2>3, <2>4
<1>. QED
  BY <1>1, <1>2, <1>3, <1>4, <1>5 DEF RunStep

LEMMA HandlerIInv == IInv /\ (HandlerReturns \/ HandlerRaises \/ TargetRejected) => IInv'
<1>. SUFFICES ASSUME IInv, HandlerReturns \/ HandlerRaises \/ TargetRejected PROVE IInv'
  OBVIOUS
<1>. USE DEF IInv
<1>1. CASE HandlerReturns
  BY <1>1 DEF HandlerReturns, TypeOK, EventsAccounted, OnePlace, NothingStale, BatchClosed,
              Live, Idle, queue
<1>2. CASE Abandon
  BY <1>2 DEF Abandon, TypeOK, EventsAccounted, OnePlace, NothingStale, BatchClosed,
              Live, Idle, NoCall, Calls, queue
<1>. QED
  BY <1>1, <1>2 DEF HandlerRaises, TargetRejected

(* A new event gets the next id, so it is in no other place. *)
LEMMA PushedIInv ==
  ASSUME IInv, NEW t \in Ticks, NEW p \in Priorities, t >= now, Pushed(t, p),
         cancelled \subseteq cancelled', cancelled' \subseteq DOMAIN event,
         UNCHANGED <<now, flow>>
  PROVE  IInv'
<1>. USE DEF IInv
<1>1. nextId \in Nat /\ DOMAIN event = 0..(nextId - 1) /\ nextId \notin DOMAIN event
  BY TimelineAssumption DEF TypeOK
<1>2. nextId' = nextId + 1 /\ nextId' \in 0..MaxEvents
  BY <1>1, TimelineAssumption DEF Pushed, TypeOK
<1>3. DOMAIN event' = DOMAIN event \cup {nextId}
  BY <1>1 DEF Pushed
<1>4. \A i \in DOMAIN event : event'[i] = event[i]
  BY <1>1 DEF Pushed
<1>5. event'[nextId] = [time |-> t, priority |-> p]
  BY <1>1 DEF Pushed
<1>6. event' \in [0..(nextId' - 1) -> [time : Ticks, priority : Priorities]]
  BY <1>1, <1>2 DEF Pushed, TypeOK
<1>7. TypeOK'
  BY <1>1, <1>2, <1>3, <1>6 DEF Pushed, TypeOK, flow
<1>8. EventsAccounted'
  BY <1>1, <1>3 DEF Pushed, TypeOK, EventsAccounted, OnePlace, flow
<1>9. NothingStale'
  BY <1>1, <1>4, <1>5 DEF Pushed, TypeOK, NothingStale, Idle, flow
<1>10. BatchClosed'
  BY <1>1, <1>4 DEF Pushed, TypeOK, BatchClosed, Live, flow
<1>. QED
  BY <1>7, <1>8, <1>9, <1>10

(* Marking an event cancelled moves nothing. *)
LEMMA MarkedIInv ==
  ASSUME IInv, NEW e \in DOMAIN event, cancelled' = cancelled \cup {e},
         UNCHANGED <<now, nextId, event, heap, flow>>
  PROVE  IInv'
  BY DEF IInv, TypeOK, EventsAccounted, OnePlace, NothingStale, BatchClosed, Live, Idle, flow

LEMMA CallerStepIInv == IInv /\ CallerStep => IInv'
<1>. SUFFICES ASSUME IInv, CallerStep PROVE IInv'
  OBVIOUS
<1>1. CASE CallRunOneStep
  BY <1>1, BeginBatchIInv DEF CallRunOneStep, Calls, NoCall, IInv
<1>2. CASE CallRunOneStepInVain
  BY <1>2 DEF CallRunOneStepInVain, IInv, TypeOK, EventsAccounted, OnePlace, NothingStale,
              BatchClosed, Live, Idle
<1>3. CASE CallRun
  BY <1>3 DEF CallRun, IInv, TypeOK, EventsAccounted, OnePlace, NothingStale,
              BatchClosed, Live, Idle
<1>4. ASSUME NEW t \in Ticks, NEW p \in Priorities, Schedule(t, p)
      PROVE  IInv'
  BY <1>4, PushedIInv DEF Schedule, IInv, TypeOK
<1>5. ASSUME NEW t \in Ticks, NEW p \in Priorities, NEW e \in DOMAIN event,
             Reschedule(e, t, p)
      PROVE  IInv'
  <2>1. CASE t >= now /\ Pushed(t, p)
    BY <1>5, <2>1, PushedIInv DEF Reschedule, IInv, TypeOK
  <2>2. CASE t < now /\ UNCHANGED <<nextId, event, heap>>
    BY <1>5, <2>2, MarkedIInv DEF Reschedule
  <2>. QED
    BY <1>5, <2>1, <2>2 DEF Reschedule
<1>6. ASSUME NEW e \in DOMAIN event, Cancel(e)
      PROVE  IInv'
  BY <1>6, MarkedIInv DEF Cancel
<1>. QED
  BY <1>1, <1>2, <1>3, <1>4, <1>5, <1>6 DEF CallerStep

LEMMA StutterIInv == IInv /\ UNCHANGED vars => IInv'
<1>. SUFFICES ASSUME IInv, UNCHANGED vars PROVE IInv'
  OBVIOUS
<1>1. TypeOK'
  BY DEF vars, IInv, TypeOK
<1>2. EventsAccounted'
  BY DEF vars, IInv, EventsAccounted, OnePlace
<1>3. NothingStale' /\ BatchClosed'
  BY DEF vars, IInv, NothingStale, BatchClosed, Live, Idle
<1>. QED
  BY <1>1, <1>2, <1>3 DEF IInv

LEMMA StepIInv == IInv /\ [Next]_vars => IInv'
  BY RunStepIInv, HandlerIInv, CallerStepIInv, StutterIInv DEF Next

LEMMA SpecIInv == Spec => []IInv
  BY InitIInv, StepIInv, PTL DEF Spec

-----------------------------------------------------------------------------
(* What a reader should know *)

(* Every variable keeps its type, on every timeline. *)
THEOREM SpecTypeOK == Spec => []TypeOK
  BY SpecIInv, PTL DEF IInv

(* schedule accepts an event once and only a cancellation or a failing     *)
(* batch makes it disappear: heap, batch and history share no event.       *)
THEOREM SpecEventsAccounted == Spec => []EventsAccounted
  BY SpecIInv, PTL DEF IInv

(* The queue holds nothing of the past: pop_batch's and run_one_step's     *)
(* "in the past" errors are unreachable, and the timeline is clean         *)
(* whenever no run method is on the stack.                                 *)
THEOREM SpecNothingStale == Spec => []NothingStale
  BY SpecIInv, PTL DEF IInv

(* The cancelled flag is looked at late enough, also inside a batch.       *)
THEOREM SpecCancelHonoured == Spec => CancelHonoured
<1>1. IInv /\ [Next]_vars => [cancelled \cap handled' \subseteq handled]_vars
  <2>. SUFFICES ASSUME Next, handled' # handled
                PROVE  cancelled \cap handled' \subseteq handled
    OBVIOUS
  <2>1. PICK e \in batch : CallHandler(e)
    BY DEF Next, RunStep, LoopStep, LoopReturn, EndBatch, SkipCancelled, HandlerReturns,
           HandlerRaises, TargetRejected, Abandon, CallerStep, CallRunOneStep, BeginBatch,
           CallRunOneStepInVain, CallRun, Schedule, Reschedule, Cancel, flow
  <2>. QED
    BY <2>1 DEF CallHandler
<1>. QED
  BY <1>1, SpecIInv, PTL DEF Spec, CancelHonoured

(* event_ordering_key compares as the lexicographic order of the keys. *)
LEMMA BeforeIsKeyBefore ==
  ASSUME NEW d, NEW e, Before(d, e)
  PROVE  KeyBefore(d, e)
<1>1. CASE event[d].time < event[e].time
  <2>1. Key(d)[1] < Key(e)[1] /\ \A j \in 1..(1 - 1) : Key(d)[j] = Key(e)[j]
    BY <1>1 DEF Key
  <2>. QED
    BY <2>1 DEF KeyBefore
<1>2. CASE event[d].time = event[e].time /\ event[d].priority < event[e].priority
  <2>1. Key(d)[2] < Key(e)[2] /\ \A j \in 1..(2 - 1) : Key(d)[j] = Key(e)[j]
    BY <1>2 DEF Key
  <2>. QED
    BY <2>1 DEF KeyBefore
<1>3. CASE event[d].time = event[e].time /\ event[d].priority = event[e].priority /\ d < e
  <2>1. Key(d)[3] < Key(e)[3] /\ \A j \in 1..(3 - 1) : Key(d)[j] = Key(e)[j]
    <3>1. \A j \in 1..(3 - 1) : j = 1 \/ j = 2
      OBVIOUS
    <3>. QED
      BY <1>3, <3>1 DEF Key
  <2>. QED
    BY <2>1 DEF KeyBefore
<1>. QED
  BY <1>1, <1>2, <1>3 DEF Before

(* Handlers run in key order up to the events scheduled while their batch  *)
(* was already open.                                                       *)
THEOREM SpecDispatchOrder == Spec => DispatchOrder
<1>. DEFINE Ordered == running' \notin {running, NoEvent} =>
              \A d \in Live(heap \cup batch) \ {running'} :
                d < horizon => KeyBefore(running', d)
<1>1. IInv /\ [Next]_vars => [Ordered]_vars
  <2>. SUFFICES ASSUME IInv, Next, running' \notin {running, NoEvent},
                       NEW d \in Live(heap \cup batch) \ {running'}, d < horizon
                PROVE  KeyBefore(running', d)
    OBVIOUS
  <2>1. PICK e \in batch : CallHandler(e)
    BY DEF Next, RunStep, LoopStep, LoopReturn, EndBatch, SkipCancelled, HandlerReturns,
           HandlerRaises, TargetRejected, Abandon, CallerStep, CallRunOneStep, BeginBatch,
           CallRunOneStepInVain, CallRun, Schedule, Reschedule, Cancel, flow
  <2>2. Before(e, d)
    <3>1. CASE d \in batch
      BY <2>1, <3>1 DEF CallHandler, NextInBatch
    <3>2. CASE d \in heap
      <4>1. event[d].time > now /\ event[e].time = now
        BY <2>1, <3>2 DEF CallHandler, Dispatching, IInv, BatchClosed, NothingStale, TypeOK, Live
      <4>. QED
        BY <4>1 DEF Before
    <3>. QED
      BY <3>1, <3>2 DEF Live
  <2>. QED
    BY <2>1, <2>2, BeforeIsKeyBefore DEF CallHandler
<1>. QED
  BY <1>1, SpecIInv, PTL DEF Spec, DispatchOrder

-----------------------------------------------------------------------------
(* Timers *)

(* What the service remembers of its events.                               *)
TimersOK ==
  /\ timerOf \in [DOMAIN event -> Timers \cup {NotATimer}]
  /\ DOMAIN modeOf = DOMAIN event
  /\ active \in [Timers -> DOMAIN event \cup {NoEvent}]

FutureTimer(e) == e \in Live(heap) /\ timerOf[e] \in Timers /\ event[e].time > now

(* A plain at() between d and e, d's own excluded: what may shadow d.      *)
PlainBetween(d, e) == \E f \in (d + 1)..e : timerOf[f] = timerOf[d] /\ modeOf[f] = "plain"

(* A future timer that its id no longer names was shadowed.  This is what  *)
(* OneFutureTimerPerId needs: replace and set_once look at _active alone.  *)
TimersNamed ==
  \A d \in DOMAIN event :
    FutureTimer(d) => active[timerOf[d]] = d \/ PlainBetween(d, nextId - 1)

TimerInv == IInv /\ TimersOK /\ TimersNamed /\ OneFutureTimerPerId

LEMMA LiveInDomain == TypeOK => Live(heap) \subseteq DOMAIN event /\ DOMAIN event = 0..(nextId - 1)
  BY DEF TypeOK, Live

(* Steps that schedule nothing and leave the service alone only take       *)
(* events away and move the clock on.                                      *)
LEMMA EngineKeepsTimers ==
  ASSUME TimerInv, heap' \subseteq heap, cancelled \subseteq cancelled', now' \in Int, now' >= now,
         UNCHANGED <<nextId, event, timerVars>>
  PROVE  TimersOK' /\ TimersNamed' /\ OneFutureTimerPerId'
<1>1. ASSUME NEW e \in DOMAIN event, FutureTimer(e)'
      PROVE  FutureTimer(e)
  <2>1. e \in Live(heap) /\ timerOf[e] \in Timers
    BY <1>1 DEF FutureTimer, Live, timerVars
  <2>2. event[e].time > now' /\ event[e].time \in Int /\ now \in Int
    BY <1>1 DEF FutureTimer, TimerInv, IInv, TypeOK, Ticks
  <2>. QED
    BY <2>1, <2>2 DEF FutureTimer
<1>2. TimersOK'
  BY DEF TimerInv, TimersOK, timerVars
<1>3. TimersNamed'
  <2>. SUFFICES ASSUME NEW d \in DOMAIN event, FutureTimer(d)'
                PROVE  active[timerOf[d]] = d \/ PlainBetween(d, nextId - 1)
    BY DEF TimersNamed, PlainBetween, timerVars
  <2>. QED
    BY <1>1 DEF TimerInv, TimersNamed
<1>4. OneFutureTimerPerId'
  <2>. SUFFICES ASSUME NEW d \in Live(heap)', NEW e \in Live(heap)',
                       d < e, timerOf[d] = timerOf[e], timerOf[d] \in Timers,
                       event[d].time > now', event[e].time > now'
                PROVE  \E f \in (d + 1)..e : timerOf[f] = timerOf[d] /\ modeOf[f] = "plain"
    BY DEF OneFutureTimerPerId, timerVars
  <2>1. d \in DOMAIN event /\ e \in DOMAIN event
    BY LiveInDomain DEF Live, TimerInv, IInv
  <2>2. FutureTimer(d)' /\ FutureTimer(e)'
    BY DEF FutureTimer, timerVars
  <2>3. FutureTimer(d) /\ FutureTimer(e)
    BY <1>1, <2>1, <2>2
  <2>. QED
    BY <2>3 DEF TimerInv, OneFutureTimerPerId, FutureTimer
<1>. QED
  BY <1>2, <1>3, <1>4

(* A new event of the service, of mode at least as strong as it looks.     *)
LEMMA ScheduledKeepsTimers ==
  ASSUME TimerInv, NEW t \in Ticks, NEW p \in Priorities, Pushed(t, p), now' = now,
         cancelled \subseteq cancelled',
         NEW id \in Timers \cup {NotATimer}, NEW mode,
         timerOf' = [e \in DOMAIN event' |-> IF e = nextId THEN id ELSE timerOf[e]],
         modeOf' = [e \in DOMAIN event' |-> IF e = nextId THEN mode ELSE modeOf[e]],
         \/ id = NotATimer /\ active' = active
         \/ /\ id \in Timers /\ active' = [active EXCEPT ![id] = nextId]
            /\ mode = "plain" \/ GetActive(id) = NoEvent \/ GetActive(id) \in cancelled'
  PROVE  TimersOK' /\ TimersNamed' /\ OneFutureTimerPerId'
<1>1. nextId \in Nat /\ nextId' = nextId + 1 /\ DOMAIN event = 0..(nextId - 1)
  BY TimelineAssumption DEF Pushed, TimerInv, IInv, TypeOK
<1>2. DOMAIN event' = DOMAIN event \cup {nextId} /\ nextId \notin DOMAIN event
  BY <1>1 DEF Pushed
<1>3. \A e \in DOMAIN event : event'[e] = event[e] /\ timerOf'[e] = timerOf[e] /\ modeOf'[e] = modeOf[e]
  BY <1>1, <1>2 DEF Pushed
<1>4. timerOf'[nextId] = id /\ modeOf'[nextId] = mode
  BY <1>2
<1>5. TimersOK'
  <2>1. timerOf' \in [DOMAIN event' -> Timers \cup {NotATimer}]
    BY <1>2 DEF TimerInv, TimersOK
  <2>2. active' \in [Timers -> DOMAIN event' \cup {NoEvent}]
    BY <1>2 DEF TimerInv, TimersOK
  <2>. QED
    BY <2>1, <2>2 DEF TimersOK
<1>6. ASSUME NEW e \in DOMAIN event, FutureTimer(e)'
      PROVE  FutureTimer(e)
  BY <1>2, <1>3, <1>6 DEF FutureTimer, Live, Pushed
<1>7. ASSUME NEW d \in DOMAIN event, NEW e \in DOMAIN event, PlainBetween(d, e)
      PROVE  PlainBetween(d, e)' /\ PlainBetween(d, nextId - 1)'
  <2>1. PICK f \in (d + 1)..e : timerOf[f] = timerOf[d] /\ modeOf[f] = "plain"
    BY <1>7 DEF PlainBetween
  <2>2. f \in DOMAIN event /\ f \in (d + 1)..(nextId' - 1)
    BY <1>1
  <2>. QED
    BY <1>3, <2>1, <2>2 DEF PlainBetween
(* The old timer of the same id: shadowed before, or now by this one.      *)
<1>8. ASSUME NEW d \in DOMAIN event, FutureTimer(d)', timerOf[d] = id
      PROVE  PlainBetween(d, nextId - 1)'
  <2>1. FutureTimer(d) /\ id \in Timers
    BY <1>6, <1>8 DEF FutureTimer
  <2>2. CASE PlainBetween(d, nextId - 1)
    BY <1>1, <1>7, <2>2
  <2>3. CASE active[id] = d
    <3>1. d # NoEvent /\ d \notin cancelled /\ d \notin cancelled'
      BY <1>1, <1>8, <2>1 DEF FutureTimer, Live, NoEvent
    <3>2. GetActive(id) = d
      BY <2>1, <2>3, <3>1 DEF GetActive, FutureTimer
    <3>3. id # NotATimer
      BY <2>1, TimerAssumption
    <3>4. mode = "plain"
      BY <3>1, <3>2, <3>3
    <3>5. nextId \in (d + 1)..(nextId' - 1)
      BY <1>1
    <3>. QED
      BY <1>3, <1>4, <1>8, <3>4, <3>5 DEF PlainBetween
  <2>. QED
    BY <1>8, <2>1, <2>2, <2>3 DEF TimerInv, TimersNamed
<1>9. TimersNamed'
  <2>. SUFFICES ASSUME NEW d \in DOMAIN event', FutureTimer(d)'
                PROVE  active'[timerOf'[d]] = d \/ PlainBetween(d, nextId - 1)'
    BY <1>1 DEF TimersNamed, PlainBetween
  <2>1. CASE d = nextId
    <3>1. id \in Timers
      BY <1>4, <2>1 DEF FutureTimer
    <3>2. active' = [active EXCEPT ![id] = nextId]
      BY <3>1, TimerAssumption
    <3>. QED
      BY <1>4, <2>1, <3>1, <3>2 DEF TimerInv, TimersOK
  <2>2. CASE d \in DOMAIN event /\ timerOf[d] = id
    BY <1>8, <2>2
  <2>3. CASE d \in DOMAIN event /\ timerOf[d] # id
    <3>1. FutureTimer(d) /\ timerOf'[d] = timerOf[d]
      BY <1>3, <1>6, <2>3
    <3>2. active'[timerOf[d]] = active[timerOf[d]]
      BY <2>3, <3>1 DEF FutureTimer, TimerInv, TimersOK
    <3>3. active[timerOf[d]] = d \/ PlainBetween(d, nextId - 1)
      BY <2>3, <3>1 DEF TimerInv, TimersNamed
    <3>4. nextId - 1 \in DOMAIN event
      BY <1>1, <2>3
    <3>. QED
      BY <1>7, <2>3, <3>1, <3>2, <3>3, <3>4
  <2>. QED
    BY <1>2, <2>1, <2>2, <2>3
<1>10. OneFutureTimerPerId'
  <2>. SUFFICES ASSUME NEW d \in Live(heap)', NEW e \in Live(heap)',
                       d < e, timerOf'[d] = timerOf'[e], timerOf'[d] \in Timers,
                       event'[d].time > now', event'[e].time > now'
                PROVE  PlainBetween(d, e)'
    BY DEF OneFutureTimerPerId, PlainBetween
  <2>1. FutureTimer(d)' /\ FutureTimer(e)'
    BY DEF FutureTimer
  <2>2. {d, e} \subseteq DOMAIN event'
    BY <1>2, LiveInDomain DEF Live, Pushed, TimerInv, IInv
  <2>3. d \in DOMAIN event
    BY <1>1, <1>2, <2>2
  <2>4. CASE e = nextId
    <3>1. timerOf[d] = id
      BY <1>3, <1>4, <2>3, <2>4
    <3>2. PlainBetween(d, nextId - 1)'
      BY <1>8, <2>1, <2>3, <3>1
    <3>. QED
      BY <1>1, <2>4, <3>2 DEF PlainBetween
  <2>5. CASE e \in DOMAIN event
    <3>1. FutureTimer(d) /\ FutureTimer(e)
      BY <1>6, <2>1, <2>3, <2>5
    <3>2. timerOf[d] = timerOf[e] /\ timerOf[d] \in Timers
      BY <1>3, <2>3, <2>5
    <3>3. PlainBetween(d, e)
      BY <3>1, <3>2 DEF TimerInv, OneFutureTimerPerId, FutureTimer, PlainBetween
    <3>. QED
      BY <1>7, <2>3, <2>5, <3>3
  <2>. QED
    BY <1>2, <2>2, <2>4, <2>5
<1>. QED
  BY <1>5, <1>9, <1>10

(* The run methods take events out of the heap and move the clock to the   *)
(* tick of one of them.                                                    *)
LEMMA EngineStepMoves ==
  ASSUME IInv,
         RunStep \/ HandlerReturns \/ HandlerRaises \/ TargetRejected
           \/ CallRunOneStep \/ CallRunOneStepInVain \/ CallRun
  PROVE  /\ heap' \subseteq heap /\ now' \in Int /\ now' >= now
         /\ UNCHANGED <<nextId, event, cancelled>>
<1>1. now \in Int
  BY DEF IInv, TypeOK, Ticks
<1>2. CASE BeginBatch
  <2>1. PICK e \in NextBatch : event[e].time >= now /\ now' = event[e].time
    BY <1>2 DEF BeginBatch
  <2>2. e \in DOMAIN event
    BY <2>1, LiveInDomain DEF NextBatch, IInv
  <2>3. event[e].time \in Int
    BY <2>2 DEF IInv, TypeOK, Ticks
  <2>. QED
    BY <1>2, <2>1, <2>3 DEF BeginBatch, Purged
<1>3. CASE LoopReturn
  BY <1>1, <1>3 DEF LoopReturn, Purged
<1>4. CASE \/ EndBatch \/ HandlerReturns \/ Abandon \/ CallRunOneStepInVain \/ CallRun
           \/ \E e \in batch : SkipCancelled(e) \/ CallHandler(e)
  BY <1>1, <1>4 DEF EndBatch, HandlerReturns, Abandon, CallRunOneStepInVain, CallRun,
                    SkipCancelled, CallHandler, queue
<1>. QED
  BY <1>2, <1>3, <1>4 DEF RunStep, LoopStep, HandlerRaises, TargetRejected, CallRunOneStep

(* A timer is cancelled, its id forgotten, or both: whatever the id stood  *)
(* for is no future timer any more when it is forgotten.                   *)
LEMMA ForgottenTimerInv ==
  ASSUME TimerInv, NEW id \in Timers,
         UNCHANGED <<now, nextId, event, heap, flow, timerOf, modeOf>>,
         \/ cancelled' = cancelled
         \/ GetActive(id) # NoEvent /\ cancelled' = cancelled \cup {GetActive(id)},
         \/ active' = active
         \/ /\ active' = [active EXCEPT ![id] = NoEvent]
            /\ GetActive(id) = NoEvent \/ GetActive(id) \in cancelled'
  PROVE  TimerInv'
<1>1. IInv /\ TimersOK /\ cancelled \subseteq cancelled' /\ now \in Int
  BY DEF TimerInv, IInv, TypeOK, Ticks
<1>2. GetActive(id) \in DOMAIN event \cup {NoEvent}
  BY <1>1 DEF GetActive, TimersOK
<1>3. IInv'
  <2>1. CASE cancelled' = cancelled
    BY <1>1, <2>1, StutterIInv DEF vars, flow
  <2>2. CASE GetActive(id) # NoEvent /\ cancelled' = cancelled \cup {GetActive(id)}
    BY <1>1, <1>2, <2>2, MarkedIInv
  <2>. QED
    BY <2>1, <2>2
<1>4. ASSUME NEW e \in DOMAIN event, FutureTimer(e)'
      PROVE  FutureTimer(e)
  BY <1>1, <1>4 DEF FutureTimer, Live
<1>5. TimersOK'
  BY <1>1 DEF TimersOK
<1>6. TimersNamed'
  <2>. SUFFICES ASSUME NEW d \in DOMAIN event, FutureTimer(d)'
                PROVE  active'[timerOf[d]] = d \/ PlainBetween(d, nextId - 1)
    BY DEF TimersNamed, PlainBetween
  <2>1. FutureTimer(d) /\ timerOf[d] \in Timers /\ d \notin cancelled' /\ d # NoEvent
    BY <1>1, <1>4 DEF FutureTimer, Live, IInv, TypeOK, NoEvent
  <2>2. active[timerOf[d]] = d \/ PlainBetween(d, nextId - 1)
    BY <2>1 DEF TimerInv, TimersNamed
  <2>3. CASE active[timerOf[d]] = d
    <3>1. GetActive(timerOf[d]) = d
      BY <2>1, <2>3 DEF GetActive, FutureTimer, Live
    <3>2. active' = active \/ timerOf[d] # id
      BY <2>1, <3>1
    <3>3. active'[timerOf[d]] = active[timerOf[d]]
      BY <1>1, <2>1, <3>2 DEF TimersOK
    <3>. QED
      BY <2>3, <3>3
  <2>. QED
    BY <2>2, <2>3
<1>7. OneFutureTimerPerId'
  BY <1>1 DEF OneFutureTimerPerId, TimerInv, Live
<1>. QED
  BY <1>3, <1>5, <1>6, <1>7 DEF TimerInv

LEMMA AtTimerInv ==
  ASSUME TimerInv, NEW id \in Timers, NEW t \in Ticks, NEW mode \in Modes,
         At(id, t, mode) \/ AtPast(id, t, mode)
  PROVE  TimerInv'
<1>1. IInv
  BY DEF TimerInv
<1>2. GetActive(id) \in DOMAIN event \cup {NoEvent}
  BY DEF GetActive, TimerInv, TimersOK
<1>3. CASE At(id, t, mode)
  <2>1. t >= now /\ Pushed(t, TimerPriority) /\ UNCHANGED <<now, flow>>
    BY <1>3 DEF At, TimerScheduled
  <2>2. cancelled \subseteq cancelled' /\ cancelled' \subseteq DOMAIN event
    BY <1>1, <1>2, <1>3 DEF At, IInv, TypeOK
  <2>3. IInv'
    BY <1>1, <2>1, <2>2, PushedIInv, TimerAssumption
  <2>4. mode = "plain" \/ GetActive(id) = NoEvent \/ GetActive(id) \in cancelled'
    BY <1>3, TimerAssumption DEF At
  <2>5. /\ timerOf' = [e \in DOMAIN event' |-> IF e = nextId THEN id ELSE timerOf[e]]
        /\ modeOf' = [e \in DOMAIN event' |-> IF e = nextId THEN mode ELSE modeOf[e]]
        /\ active' = [active EXCEPT ![id] = nextId]
    BY <1>3 DEF At, TimerScheduled
  <2>. QED
    BY <2>1, <2>2, <2>3, <2>4, <2>5, ScheduledKeepsTimers, TimerAssumption DEF TimerInv
<1>4. CASE AtPast(id, t, mode)
  <2>1. UNCHANGED <<now, nextId, event, heap, flow, timerOf, modeOf>>
    BY <1>4 DEF AtPast
  <2>2. cancelled' \in {cancelled, cancelled \cup {GetActive(id)}}
    BY <1>4 DEF AtPast
  <2>3. GetActive(id) = NoEvent => UNCHANGED cancelled
    BY <1>4 DEF AtPast
  <2>4. active' \in {active, [active EXCEPT ![id] = NoEvent]}
    BY <1>4 DEF AtPast
  <2>5. active' # active => GetActive(id) = NoEvent
    BY <1>4 DEF AtPast
  <2>. QED
    BY <2>1, <2>2, <2>3, <2>4, <2>5, ForgottenTimerInv
<1>. QED
  BY <1>3, <1>4

LEMMA TimerStep == TimerInv /\ [TimerNext]_allVars => TimerInv'
<1>. SUFFICES ASSUME TimerInv, [TimerNext]_allVars PROVE TimerInv'
  OBVIOUS
<1>1. IInv
  BY DEF TimerInv
<1>2. CASE TimerEngineStep
  <2>1. IInv'
    BY <1>1, <1>2, RunStepIInv, HandlerIInv, CallerStepIInv DEF TimerEngineStep, CallerStep
  <2>2. TimersOK' /\ TimersNamed' /\ OneFutureTimerPerId'
    BY <1>1, <1>2, EngineStepMoves, EngineKeepsTimers DEF TimerEngineStep
  <2>. QED
    BY <2>1, <2>2 DEF TimerInv
<1>3. ASSUME NEW id \in Timers, NEW t \in Ticks, NEW mode \in Modes,
             At(id, t, mode) \/ AtPast(id, t, mode)
      PROVE  TimerInv'
  BY <1>3, AtTimerInv
<1>4. ASSUME NEW e \in DOMAIN event, CancelEvent(e)
      PROVE  TimerInv'
  <2>1. /\ cancelled' = cancelled \cup {e}
        /\ UNCHANGED <<now, nextId, event, heap, flow, timerVars>>
    BY <1>4 DEF CancelEvent, Cancel
  <2>2. IInv'
    BY <1>1, <2>1, MarkedIInv
  <2>3. now \in Int
    BY <1>1 DEF IInv, TypeOK, Ticks
  <2>. QED
    BY <2>1, <2>2, <2>3, EngineKeepsTimers DEF TimerInv
<1>5. ASSUME NEW t \in Ticks, NEW p \in Priorities, ScheduleOther(t, p)
      PROVE  TimerInv'
  <2>1. t >= now /\ Pushed(t, p) /\ UNCHANGED <<now, cancelled, flow>>
    BY <1>5 DEF ScheduleOther, Schedule
  <2>2. IInv'
    BY <1>1, <2>1, PushedIInv DEF IInv, TypeOK
  <2>3. /\ timerOf' = [e \in DOMAIN event' |-> IF e = nextId THEN NotATimer ELSE timerOf[e]]
        /\ modeOf' = [e \in DOMAIN event' |-> IF e = nextId THEN "plain" ELSE modeOf[e]]
        /\ active' = active
    BY <1>5 DEF ScheduleOther
  <2>. QED
    BY <2>1, <2>2, <2>3, ScheduledKeepsTimers DEF TimerInv
<1>6. ASSUME NEW id \in Timers, CancelById(id)
      PROVE  TimerInv'
  <2>1. /\ UNCHANGED <<now, nextId, event, heap, flow, timerOf, modeOf>>
        /\ cancelled' = cancelled \cup ({GetActive(id)} \ {NoEvent})
        /\ active' = [active EXCEPT ![id] = NoEvent]
    BY <1>6 DEF CancelById
  <2>2. cancelled' = IF GetActive(id) = NoEvent THEN cancelled ELSE cancelled \cup {GetActive(id)}
    BY <2>1
  <2>. QED
    BY <2>1, <2>2, ForgottenTimerInv
<1>7. CASE UNCHANGED allVars
  <2>1. UNCHANGED vars /\ UNCHANGED timerVars
    BY <1>7 DEF allVars
  <2>2. UNCHANGED <<heap, cancelled, now, nextId, event>> /\ now \in Int
    BY <1>1, <2>1 DEF vars, IInv, TypeOK, Ticks
  <2>. QED
    BY <1>1, <2>1, <2>2, StutterIInv, EngineKeepsTimers DEF TimerInv
<1>. QED
  BY <1>2, <1>3, <1>4, <1>5, <1>6, <1>7 DEF TimerNext, TimerUse

(* Two future timers share an id only where a plain set shadowed the first.*)
THEOREM TimerOneFuturePerId == TimerSpec => []OneFutureTimerPerId
<1>1. TimerInit => TimerInv
  <2>. SUFFICES ASSUME TimerInit PROVE TimerInv
    OBVIOUS
  <2>1. IInv
    BY InitIInv DEF TimerInit
  <2>2. event = [i \in {} |-> [time |-> 0, priority |-> 0]] /\ heap = {}
    BY DEF TimerInit, Init
  <2>3. TimersOK
    BY <2>2 DEF TimerInit, TimersOK
  <2>. QED
    BY <2>1, <2>2, <2>3 DEF TimerInv, TimersNamed, OneFutureTimerPerId, Live
<1>2. TimerInv => OneFutureTimerPerId
  BY DEF TimerInv
<1>. QED
  BY <1>1, <1>2, TimerStep, PTL DEF TimerSpec

-----------------------------------------------------------------------------
(* What run_until leaves behind *)

(* A queue with a live event has an earliest one.                          *)
LEMMA NextBatchNonempty == TypeOK /\ Live(heap) # {} => NextBatch # {}
<1>. SUFFICES ASSUME TypeOK, Live(heap) # {} PROVE NextBatch # {}
  OBVIOUS
<1>. DEFINE times == {event[e].time : e \in Live(heap)}
<1>1. times \subseteq Nat /\ times # {}
  BY DEF TypeOK, Live, Ticks
<1>. HIDE DEF times
<1>2. PICK t \in times : \A u \in times : <<u, t>> \notin OpToRel(<, Nat)
  BY <1>1, WFMin, NatLessThanWellFounded, Zenon
<1>3. \A u \in times : ~(u < t)
  BY <1>1, <1>2 DEF OpToRel
<1>4. \A u \in times : t <= u
  BY <1>1, <1>3
<1>. QED
  BY <1>4 DEF times, NextBatch

(* run_until returns only when nothing live is due by its bound, and runs  *)
(* no batch beyond it.                                                     *)
THEOREM SpecRunUntilExact == Spec => RunUntilExact
<1>. DEFINE Exact ==
       call.kind = "until" =>
         /\ (~executing /\ call' = NoCall) =>
              \A e \in Live(heap') : event[e].time > call.end
         /\ (~executing /\ executing') => now' <= call.end
<1>1. IInv /\ [Next]_vars => [Exact]_vars
  <2>. SUFFICES ASSUME IInv, Next, call.kind = "until", ~executing
                PROVE  /\ call' = NoCall => \A e \in Live(heap') : event[e].time > call.end
                       /\ executing' => now' <= call.end
    OBVIOUS
  <2>1. TypeOK /\ NothingStale /\ ~Idle /\ running = NoEvent
    BY DEF IInv, NothingStale, Idle, NoCall
  <2>2. LoopStep \/ LoopReturn
    BY <2>1 DEF Next, RunStep, EndBatch, SkipCancelled, CallHandler, Dispatching, HandlerReturns,
            HandlerRaises, TargetRejected, CallerStep, CallRunOneStep, CallRunOneStepInVain,
            CallRun, Schedule, Reschedule, Cancel, CallerActive
  <2>3. CASE LoopStep
    <3>1. PICK e \in NextBatch : event[e].time <= call.end
      BY <2>3 DEF LoopStep, MoreToRun
    <3>2. PICK f \in NextBatch : now' = event[f].time
      BY <2>3 DEF LoopStep, BeginBatch
    <3>3. event[f].time <= event[e].time
      BY <3>1, <3>2 DEF NextBatch
    <3>4. {event[e].time, event[f].time, call.end} \subseteq Int
      BY <2>1, <3>1, <3>2 DEF TypeOK, NextBatch, Live, Calls, NoCall, Ticks
    <3>5. call' # NoCall
      BY <2>1, <2>3 DEF LoopStep, Idle
    <3>. QED
      BY <3>1, <3>2, <3>3, <3>4, <3>5
  <2>4. CASE LoopReturn
    <3>1. call.end \in Int /\ now \in Int
      BY <2>1 DEF TypeOK, Calls, NoCall, Ticks
    <3>2. ASSUME NEW e \in Live(heap') PROVE event[e].time > call.end
      <4>1. e \in Live(heap) /\ event[e].time \in Int /\ event[e].time >= now
        BY <2>1, <2>4, <3>2 DEF LoopReturn, Purged, Live, TypeOK, NothingStale, Ticks
      <4>2. CASE call.end < now
        BY <3>1, <4>1, <4>2
      <4>3. CASE ~(call.end < now)
        <5>1. PICK f \in NextBatch : TRUE
          BY <2>1, <4>1, NextBatchNonempty
        <5>2. ~(event[f].time <= call.end) /\ event[f].time <= event[e].time
          BY <2>4, <3>1, <4>1, <4>3, <5>1 DEF LoopReturn, MoreToRun, NextBatch
        <5>3. event[f].time \in Int
          BY <2>1, <5>1 DEF TypeOK, NextBatch, Live, Ticks
        <5>. QED
          BY <3>1, <4>1, <5>2, <5>3
      <4>. QED
        BY <4>2, <4>3
    <3>3. executing' = executing
      BY <2>4 DEF LoopReturn
    <3>. QED
      BY <3>2, <3>3
  <2>. QED
    BY <2>2, <2>3, <2>4
<1>. QED
  BY <1>1, SpecIInv, PTL DEF Spec, RunUntilExact

-----------------------------------------------------------------------------
(* The promise to the components *)

Rec(e) == [id |-> e, time |-> event[e].time]

(* The events still to be delivered stand for themselves.                  *)
LEMMA RecordsOfEvents ==
  ASSUME TypeOK
  PROVE  /\ PendingRecords = {Rec(e) : e \in Live(heap \cup batch)}
         /\ \A e \in DOMAIN event : Rec(e) \in [id : Id, time : Ticks]
         /\ \A e, f \in DOMAIN event : Rec(e) = Rec(f) => e = f
<1>1. \A e \in DOMAIN event : e \in Id /\ event[e].time \in Ticks
  BY TimelineAssumption DEF TypeOK, Id
<1>. QED
  BY <1>1 DEF PendingRecords, Rec

(* A step that changes no event changes the promise as it changes the      *)
(* waiting set.                                                            *)
LEMMA SameWaiting ==
  ASSUME Live(heap \cup batch)' = Live(heap \cup batch), event' = event
  PROVE  PendingRecords' = PendingRecords
  BY DEF PendingRecords

LEMMA LessWaiting ==
  ASSUME TypeOK, NEW S \in SUBSET Live(heap \cup batch),
         Live(heap \cup batch)' = Live(heap \cup batch) \ S, event' = event
  PROVE  PendingRecords' = PendingRecords \ {Rec(e) : e \in S}
<1>1. Live(heap \cup batch) \subseteq DOMAIN event
  BY DEF TypeOK, Live
<1>2. PendingRecords' = {Rec(e) : e \in Live(heap \cup batch) \ S}
  BY DEF PendingRecords, Rec
<1>. QED
  BY <1>1, <1>2, RecordsOfEvents

(* Moving the next batch out of the queue is the tick of the promise.      *)
LEMMA BatchAdvances ==
  ASSUME IInv, BeginBatch
  PROVE  Promise!Advance
<1>1. TypeOK /\ batch = {}
  BY DEF IInv, NothingStale, BeginBatch
<1>2. PICK e \in NextBatch : now' = event[e].time
  BY DEF BeginBatch
<1>3. e \in Live(heap \cup batch)
  BY <1>2 DEF NextBatch, Live
<1>4. UNCHANGED <<event, cancelled>> /\ batch' = NextBatch /\ heap' = Purged(heap \ NextBatch)
  BY DEF BeginBatch
<1>5. Live(heap \cup batch)' = Live(heap \cup batch)
  <2>1. Live(heap') \cup Live(batch') \subseteq Live(heap)
    BY <1>4 DEF Live, NextBatch, Purged
  <2>2. Live(heap) \subseteq heap' \cup batch'
    BY <1>4 DEF Live, Purged
  <2>. QED
    BY <1>1, <1>4, <2>1, <2>2 DEF Live
<1>6. PendingRecords' = PendingRecords
  BY <1>4, <1>5, SameWaiting
<1>7. Rec(e) \in PendingRecords /\ \A d \in PendingRecords : Rec(e).time <= d.time
  BY <1>1, <1>2, <1>3, RecordsOfEvents DEF Rec, NextBatch, Live
<1>. QED
  BY <1>2, <1>6, <1>7 DEF Promise!Advance, Promise!Earliest, Rec

LEMMA HandlerDelivers ==
  ASSUME IInv, NEW e \in batch, CallHandler(e)
  PROVE  Promise!Deliver(Rec(e)) /\ Rec(e) \in [id : Id, time : Ticks]
<1>1. TypeOK /\ e \in Live(heap \cup batch) /\ event[e].time = now /\ now \in Int
  BY DEF IInv, NothingStale, CallHandler, Live, TypeOK, Ticks
<1>2. /\ batch' = batch \ {e} /\ e \notin heap
      /\ UNCHANGED <<now, event, cancelled, heap>>
  BY DEF CallHandler, queue, IInv, EventsAccounted, OnePlace
<1>3. Live(heap \cup batch)' = Live(heap \cup batch) \ {e}
  BY <1>2 DEF Live
<1>4. {e} \in SUBSET Live(heap \cup batch) /\ {Rec(d) : d \in {e}} = {Rec(e)}
  BY <1>1
<1>5. PendingRecords' = PendingRecords \ {Rec(e)}
  BY <1>1, <1>2, <1>3, <1>4, LessWaiting
<1>6. \A d \in Live(heap \cup batch) : event[d].time >= now
  BY <1>1 DEF IInv, NothingStale, Live
<1>7. Rec(e) \in PendingRecords /\ \A d \in PendingRecords : Rec(e).time <= d.time
  <2>1. PendingRecords = {Rec(d) : d \in Live(heap \cup batch)}
    BY <1>1, RecordsOfEvents
  <2>2. \A d \in Live(heap \cup batch) : Rec(e).time <= Rec(d).time
    BY <1>1, <1>6 DEF Rec
  <2>. QED
    BY <1>1, <2>1, <2>2
<1>8. e \in DOMAIN event
  BY <1>1 DEF TypeOK
<1>. QED
  BY <1>1, <1>2, <1>5, <1>7, <1>8, RecordsOfEvents DEF Promise!Deliver, Promise!Earliest, Rec

LEMMA AbandonFails ==
  ASSUME IInv, Abandon
  PROVE  Promise!Fail
<1>. DEFINE S == Live(batch)
<1>1. TypeOK /\ \A e \in S : event[e].time = now
  BY DEF IInv, NothingStale, Live
<1>2. batch' = {} /\ UNCHANGED <<now, event, cancelled, heap>> /\ heap \cap batch = {}
  BY DEF Abandon, queue, IInv, EventsAccounted, OnePlace
<1>3. Live(heap \cup batch)' = Live(heap \cup batch) \ S /\ S \in SUBSET Live(heap \cup batch)
  BY <1>2 DEF Live
<1>. HIDE DEF S
<1>4. PendingRecords' = PendingRecords \ {Rec(e) : e \in S}
  BY <1>1, <1>2, <1>3, LessWaiting
<1>5. {Rec(e) : e \in S} \in SUBSET {r \in PendingRecords : r.time = now}
  <2>1. PendingRecords = {Rec(d) : d \in Live(heap \cup batch)}
    BY <1>1, RecordsOfEvents
  <2>2. \A e \in S : Rec(e).time = now
    BY <1>1 DEF Rec, S
  <2>. QED
    BY <1>3, <2>1, <2>2
<1>. QED
  BY <1>2, <1>4, <1>5 DEF Promise!Fail

(* A new event, with or without the cancellation of an old one.            *)
LEMMA PushAdds ==
  ASSUME IInv, NEW t \in Ticks, NEW p \in Priorities, t >= now, Pushed(t, p),
         UNCHANGED <<now, flow>>, NEW C \in SUBSET DOMAIN event, cancelled' = cancelled \cup C
  PROVE  LET n == [id |-> nextId, time |-> t] IN
         /\ n \in [id : Id, time : Ticks] \ PendingRecords
         /\ PendingRecords' =
              (PendingRecords \ {Rec(e) : e \in C \cap Live(heap \cup batch)}) \cup {n}
<1>. DEFINE n == [id |-> nextId, time |-> t]
            W == Live(heap \cup batch)
<1>1. TypeOK /\ nextId \in Nat /\ DOMAIN event = 0..(nextId - 1) /\ nextId \in Id
  BY TimelineAssumption DEF IInv, TypeOK, Pushed, Id
<1>2. W \subseteq DOMAIN event /\ nextId \notin DOMAIN event
  BY <1>1 DEF Live, TypeOK
<1>3. event'[nextId].time = t /\ \A e \in DOMAIN event : event'[e] = event[e]
  BY <1>1 DEF Pushed
<1>4. Live(heap \cup batch)' = (W \ C) \cup {nextId}
  <2>1. nextId \notin cancelled'
    BY <1>1, <1>2 DEF TypeOK
  <2>2. heap' = heap \cup {nextId} /\ batch' = batch
    BY DEF Pushed, flow
  <2>. QED
    BY <2>1, <2>2 DEF Live
<1>5. n \in [id : Id, time : Ticks] /\ n \notin PendingRecords
  BY <1>1, <1>2 DEF PendingRecords
<1>6. PendingRecords' = {[id |-> e, time |-> event'[e].time] : e \in (W \ C) \cup {nextId}}
  BY <1>4 DEF PendingRecords
<1>7. PendingRecords' = {Rec(e) : e \in W \ C} \cup {n}
  <2>1. \A e \in W \ C : [id |-> e, time |-> event'[e].time] = Rec(e)
    BY <1>2, <1>3 DEF Rec
  <2>. HIDE DEF W
  <2>. QED
    BY <1>3, <1>6, <2>1
<1>8. {Rec(e) : e \in W \ C} = PendingRecords \ {Rec(e) : e \in C \cap W}
  <2>1. PendingRecords = {Rec(e) : e \in W}
    BY <1>1, RecordsOfEvents
  <2>2. \A e, f \in W : Rec(e) = Rec(f) => e = f
    BY <1>1, <1>2, RecordsOfEvents
  <2>. HIDE DEF W
  <2>. QED
    BY <2>1, <2>2
<1>. QED
  BY <1>5, <1>7, <1>8

(* A cancelled event was waiting, or it changes nothing.                   *)
LEMMA CancelWithdraws ==
  ASSUME IInv, NEW e \in DOMAIN event, cancelled' = cancelled \cup {e},
         UNCHANGED <<now, event, heap, batch>>
  PROVE  \/ Promise!Withdraw(Rec(e))
         \/ PendingRecords' = PendingRecords
<1>1. TypeOK
  BY DEF IInv
<1>2. CASE e \in Live(heap \cup batch)
  <2>1. Live(heap \cup batch)' = Live(heap \cup batch) \ {e}
    BY DEF Live
  <2>2. {e} \in SUBSET Live(heap \cup batch) /\ {Rec(d) : d \in {e}} = {Rec(e)}
    BY <1>2
  <2>3. PendingRecords' = PendingRecords \ {Rec(e)}
    BY <1>1, <2>1, <2>2, LessWaiting
  <2>4. Rec(e) \in PendingRecords
    BY <1>1, <1>2, RecordsOfEvents
  <2>. QED
    BY <2>3, <2>4 DEF Promise!Withdraw
<1>3. CASE e \notin Live(heap \cup batch)
  <2>1. Live(heap \cup batch)' = Live(heap \cup batch)
    BY <1>3 DEF Live
  <2>. QED
    BY <2>1, SameWaiting
<1>. QED
  BY <1>2, <1>3

LEMMA PushReplaces ==
  ASSUME IInv, NEW e \in DOMAIN event, NEW t \in Ticks, NEW p \in Priorities, t >= now,
         Pushed(t, p), UNCHANGED <<now, flow>>, cancelled' = cancelled \cup {e}
  PROVE  Promise!ScheduleNext
<1>. DEFINE n == [id |-> nextId, time |-> t]
            W == Live(heap \cup batch)
<1>1. TypeOK
  BY DEF IInv
<1>2. n \in [id : Id, time : Ticks] \ PendingRecords /\ n.time >= now
  BY PushAdds
<1>3. PendingRecords' = (PendingRecords \ {Rec(d) : d \in {e} \cap W}) \cup {n}
  BY PushAdds
<1>4. CASE e \in W
  <2>1. {Rec(d) : d \in {e} \cap W} = {Rec(e)}
    <3>1. {e} \cap W = {e}
      BY <1>4
    <3>. HIDE DEF W
    <3>. QED
      BY <3>1
  <2>2. Rec(e) \in PendingRecords /\ Rec(e) \in [id : Id, time : Ticks]
    BY <1>1, <1>4, RecordsOfEvents
  <2>. QED
    BY <1>2, <1>3, <2>1, <2>2 DEF Promise!ScheduleNext, Promise!Replace
<1>5. CASE e \notin W
  <2>1. {Rec(d) : d \in {e} \cap W} = {}
    BY <1>5
  <2>. QED
    BY <1>2, <1>3, <2>1 DEF Promise!ScheduleNext, Promise!Add
<1>. QED
  BY <1>4, <1>5

(* Every step of the engine is a step of the promise, or is invisible.     *)
LEMMA StepKeepsPromise ==
  ASSUME IInv, [Next]_vars
  PROVE  [Promise!ScheduleNext]_(Promise!scheduleVars)
<1>. USE DEF Promise!scheduleVars
<1>1. TypeOK /\ NothingStale
  BY DEF IInv
<1>2. CASE BeginBatch
  BY <1>2, BatchAdvances DEF Promise!ScheduleNext
<1>3. CASE LoopReturn
  <2>1. Live(heap \cup batch)' = Live(heap \cup batch) /\ event' = event /\ now' = now
    BY <1>3 DEF LoopReturn, Live, Purged
  <2>. QED
    BY <2>1, SameWaiting
<1>4. CASE EndBatch \/ HandlerReturns \/ CallRun \/ UNCHANGED vars
  <2>1. UNCHANGED <<now, event, heap, batch, cancelled>>
    BY <1>4 DEF EndBatch, HandlerReturns, CallRun, vars, queue
  <2>2. Live(heap \cup batch)' = Live(heap \cup batch)
    BY <2>1 DEF Live
  <2>. QED
    BY <2>1, <2>2, SameWaiting
<1>5. ASSUME NEW e \in batch, SkipCancelled(e)
      PROVE  UNCHANGED Promise!scheduleVars
  <2>1. Live(heap \cup batch)' = Live(heap \cup batch) /\ event' = event /\ now' = now
    BY <1>5 DEF SkipCancelled, Live, queue
  <2>. QED
    BY <2>1, SameWaiting
<1>6. ASSUME NEW e \in batch, CallHandler(e)
      PROVE  Promise!ScheduleNext
  BY <1>6, HandlerDelivers DEF Promise!ScheduleNext
<1>7. CASE HandlerRaises \/ TargetRejected
  BY <1>7, AbandonFails DEF HandlerRaises, TargetRejected, Promise!ScheduleNext
<1>8. CASE CallRunOneStepInVain
  <2>1. Live(heap \cup batch)' = Live(heap \cup batch) /\ event' = event /\ now' = now
    BY <1>8 DEF CallRunOneStepInVain, Live
  <2>. QED
    BY <2>1, SameWaiting
<1>9. ASSUME NEW t \in Ticks, NEW p \in Priorities, Schedule(t, p)
      PROVE  Promise!ScheduleNext
  <2>. DEFINE n == [id |-> nextId, time |-> t]
  <2>1. t >= now /\ Pushed(t, p) /\ UNCHANGED <<now, flow>> /\ cancelled' = cancelled \cup {}
    BY <1>9 DEF Schedule
  <2>2. {} \in SUBSET DOMAIN event /\ {Rec(e) : e \in {} \cap Live(heap \cup batch)} = {}
    OBVIOUS
  <2>3. /\ n \in [id : Id, time : Ticks] \ PendingRecords
        /\ PendingRecords' = PendingRecords \cup {n}
    BY <2>1, <2>2, PushAdds
  <2>. QED
    BY <2>1, <2>3 DEF Promise!ScheduleNext, Promise!Add
<1>10. ASSUME NEW e \in DOMAIN event, Cancel(e)
       PROVE  [Promise!ScheduleNext]_(Promise!scheduleVars)
  <2>1. cancelled' = cancelled \cup {e} /\ UNCHANGED <<now, event, heap, batch>>
    BY <1>10 DEF Cancel, flow
  <2>2. Rec(e) \in [id : Id, time : Ticks]
    BY <1>1, RecordsOfEvents
  <2>. QED
    BY <2>1, <2>2, CancelWithdraws DEF Promise!ScheduleNext
<1>11. ASSUME NEW t \in Ticks, NEW p \in Priorities, NEW e \in DOMAIN event, Reschedule(e, t, p)
       PROVE  [Promise!ScheduleNext]_(Promise!scheduleVars)
  <2>1. cancelled' = cancelled \cup {e} /\ UNCHANGED <<now, flow>>
    BY <1>11 DEF Reschedule
  <2>2. CASE t >= now /\ Pushed(t, p)
    BY <2>1, <2>2, PushReplaces
  <2>3. CASE UNCHANGED <<nextId, event, heap>>
    <3>1. Rec(e) \in [id : Id, time : Ticks] /\ UNCHANGED batch
      BY <1>1, <2>1, RecordsOfEvents DEF flow
    <3>. QED
      BY <2>1, <2>3, <3>1, CancelWithdraws DEF Promise!ScheduleNext
  <2>. QED
    BY <1>11, <2>2, <2>3 DEF Reschedule
<1>. QED
  BY <1>2, <1>3, <1>4, <1>5, <1>6, <1>7, <1>8, <1>9, <1>10, <1>11
     DEF Next, RunStep, CallerStep, LoopStep, CallRunOneStep

(* The engine delivers every event once, in time order, none lost or added *)
(* unseen: what the modules of the components are written against.         *)
THEOREM SpecImplementsSchedule == Spec => ImplementsSchedule
<1>1. Init => Promise!ScheduleInit
  BY DEF Init, Promise!ScheduleInit, PendingRecords, Live
<1>2. IInv /\ [Next]_vars => [Promise!ScheduleNext]_(Promise!scheduleVars)
  BY StepKeepsPromise
<1>. QED
  BY <1>1, <1>2, SpecIInv, PTL DEF Spec, ImplementsSchedule, Promise!ScheduleSpec
=============================================================================

CONSTANTS
  MaxEvents = 3
  MaxTime = 2
  Priorities = {0, 1}
  TimerPriority = 0
  Timers = {t1}
  NotATimer = NotATimer
  Modes = {"plain", "replace", "set_once"}
  LastTimer = 1
SPECIFICATION EngineSpec
INVARIANTS
  EventsAccounted
  OneFutureTimerPerId
PROPERTIES
  DispatchOrder
  CancelHonoured
  RunUntilExact
  CallsReturn
  ImplementsSchedule

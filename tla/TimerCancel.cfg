CONSTANTS
  MaxEvents = 3
  MaxTime = 1
  Priorities = {0}
  TimerPriority = 0
  Timers = {t1}
  NotATimer = NotATimer
  Modes = {"replace", "set_once"}
SPECIFICATION CancelSpec
INVARIANT
  CancelByIdSilences

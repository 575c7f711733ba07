---------------------------- MODULE TimerCancel -----------------------------
(***************************************************************************)
(* TimerService with a record of the timers that were still to fire when   *)
(* their id was cancelled.                                                 *)
(***************************************************************************)
EXTENDS TimerService

VARIABLE silenced    \* the events that cancel(id) was meant to stop

Unfired(id) == {e \in Live(heap \cup batch) : timerOf[e] = id}

CancelNext ==
  \/ TimerUse /\ UNCHANGED silenced
  \/ \E id \in Timers : CancelById(id) /\ silenced' = silenced \cup Unfired(id)

CancelSpec == TimerInit /\ silenced = {} /\ [][CancelNext]_<<allVars, silenced>>

(* After cancel(id) no timer that was set under that id before fires: the  *)
(* docs promise that replace=True, set_once=True "and cancellation by      *)
(* timer id work across separate hooks".                                   *)
CancelByIdSilences == silenced \cap handled = {}
=============================================================================

--------------------------- MODULE EventSchedule ---------------------------
(***************************************************************************)
(* What the simulation engine promises to the components it drives, with   *)
(* no heap, no lazy cancellation and no batches: a clock and a set of      *)
(* pending events, each delivered once, at the tick it was scheduled for,  *)
(* never while an earlier one is pending.  Module Timeline implements it;  *)
(* modules of single components are written against it.                    *)
(***************************************************************************)
EXTENDS Naturals

CONSTANT Event    \* every event there can be: records with a number as "time"

VARIABLES clock,      \* the current simulation tick
          pending     \* the events scheduled and neither delivered nor withdrawn

scheduleVars == <<clock, pending>>

ScheduleTypeOK == clock \in Nat /\ pending \subseteq Event

ScheduleInit == clock = 0 /\ pending = {}

(* No pending event is due before e. *)
Earliest(e) == e \in pending /\ \A d \in pending : e.time <= d.time

(* An event may be added now or for later, never for the past. *)
Add(e) == /\ e \in Event \ pending
          /\ e.time >= clock
          /\ pending' = pending \cup {e}
          /\ UNCHANGED clock

(* A pending event is cancelled. *)
Withdraw(e) == /\ e \in pending
               /\ pending' = pending \ {e}
               /\ UNCHANGED clock

(* A pending event is cancelled and another one takes its place. *)
Replace(e, f) == /\ e \in pending
                 /\ f \in Event \ pending
                 /\ f.time >= clock
                 /\ pending' = (pending \ {e}) \cup {f}
                 /\ UNCHANGED clock

(* The clock moves to the tick of the earliest pending event. *)
Advance == \E e \in pending :
             /\ Earliest(e)
             /\ clock' = e.time
             /\ UNCHANGED pending

(* A pending event of the current tick is handed to its target. *)
Deliver(e) == /\ Earliest(e)
              /\ e.time = clock
              /\ pending' = pending \ {e}
              /\ UNCHANGED clock

(* A failing handler takes events of its own tick with it, and no other. *)
Fail == \E D \in SUBSET {e \in pending : e.time = clock} :
          /\ pending' = pending \ D
          /\ UNCHANGED clock

ScheduleNext == \/ Advance
                \/ Fail
                \/ \E e \in Event : Add(e) \/ Withdraw(e) \/ Deliver(e)
                \/ \E e, f \in Event : Replace(e, f)

ScheduleSpec == ScheduleInit /\ [][ScheduleNext]_scheduleVars
=============================================================================

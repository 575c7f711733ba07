----------------------------- MODULE MCTimeline -----------------------------
(***************************************************************************)
(* The engine in the hands of anyone, who makes every call there is, and   *)
(* in the hands of an agent, who sets timers next to other events.  The    *)
(* agent has the shorter horizon and one priority.                         *)
(***************************************************************************)
EXTENDS TimerService

CONSTANTS LastTimer      \* bound: the last tick of the agent's events

VARIABLE user            \* who calls the engine, for the whole behaviour

userVars == <<allVars, user>>

EngineInit == TimerInit /\ user \in {"anyone", "agent"}

(* No event of anyone is a timer.                                          *)
AnyoneStep ==
  /\ user = "anyone" /\ Next
  /\ timerOf' = [e \in DOMAIN event' |-> NotATimer]
  /\ modeOf' = [e \in DOMAIN event' |-> "plain"]
  /\ UNCHANGED <<active, user>>

AgentStep ==
  /\ user = "agent" /\ TimerNext
  /\ call'.end <= LastTimer
  /\ \A e \in DOMAIN event' : event'[e].time <= LastTimer /\ event'[e].priority = TimerPriority
  /\ UNCHANGED user

(* The fairness of Timeline!FairSpec, whoever calls.                       *)
Going(action) == action /\ UNCHANGED <<timerVars, user>>

EngineSpec ==
  /\ EngineInit /\ [][AnyoneStep \/ AgentStep]_userVars
  /\ WF_userVars(Going(RunStep)) /\ WF_userVars(Going(HandlerReturns))
=============================================================================

---------------------------- MODULE SessionRuntime ----------------------------
(***************************************************************************)
(* Sessions over one network and one timeline (control/runtime.py): what a *)
(* program may call before, between and after runs, in any order.  A       *)
(* session collects the agents that are on the nodes when it is made,      *)
(* binds devices and agents to the timeline, which gives them their random *)
(* streams until the first step freezes the registry, and schedules the    *)
(* starts of its agents.                                                   *)
(*                                                                         *)
(* Calls that are refused without any effect are left out.  Starts are of  *)
(* one tick and priority; a hook may raise, and uses whatever its session  *)
(* has bound.                                                              *)
(***************************************************************************)
EXTENDS Integers, FiniteSets, Sequences, SequencesExt

CONSTANTS Sessions,
          DeviceOrder,   \* the devices by node and name, then the channels
          AgentOrder,    \* the agents by name
          Streams,       \* device or agent -> the paths of its random streams
          Standing       \* what is on the network from the beginning

VARIABLES placed,    \* the devices and agents on the network
          foreign,   \* the devices that are bound to another timeline
          bound,     \* the devices and agents bound to this one
          streams,   \* the paths in the registry
          frozen,    \* _rng_frozen
          session,   \* session -> what is known of it
          provider,  \* agent -> the session that gives it its context
          queue,     \* the live events: starts, and one of somebody else
          batch,     \* what is left of the popped batch
          executing, \* the call of a run method on the stack
          started,   \* history: the starts handled, with the context given
          lostStarts \* history: the starts that went with a failed batch

runtimeVars == <<placed, foreign, bound, streams, frozen, session, provider, queue, batch,
                 executing, started, lostStarts>>

Devices    == ToSet(DeviceOrder)
Agents     == ToSet(AgentOrder)
NoSession  == "none"
Idle       == [by |-> NoSession, all |-> FALSE]
OtherEvent == [agent |-> "nobody", session |-> NoSession]
Unmade     == [made |-> FALSE, agents |-> {}, bound |-> FALSE, knew |-> {}, scheduled |-> FALSE,
               ran |-> FALSE]

ASSUME RuntimeAssumption == AgentOrder \in Seq(Agents) /\ NoSession \notin Sessions

RuntimeInit ==
  /\ placed = Standing /\ foreign \in SUBSET Devices /\ bound = {} /\ streams = {} /\ frozen = FALSE
  /\ session = [s \in Sessions |-> Unmade] /\ provider = [a \in Agents |-> NoSession]
  /\ queue = <<>> /\ batch = <<>> /\ executing = Idle /\ started = <<>> /\ lostStarts = {}

(* Node.add_device and add_agent ask nothing of the sessions there are.    *)
Place(x) ==
  /\ executing = Idle /\ x \notin placed
  /\ placed' = placed \cup {x}
  /\ UNCHANGED <<foreign, bound, streams, frozen, session, provider, queue, batch,
                 executing, started, lostStarts>>

(* _collect_agents and _attach_context_providers: the last session made    *)
(* gives an agent its context.                                             *)
Make(s) ==
  /\ executing = Idle /\ ~session[s].made
  /\ session' = [session EXCEPT ![s].made = TRUE, ![s].agents = placed \cap Agents]
  /\ provider' = [a \in Agents |-> IF a \in placed THEN s ELSE provider[a]]
  /\ UNCHANGED <<placed, foreign, bound, streams, frozen, queue, batch, executing,
                 started, lostStarts>>

\* Who is bound: devices first, then agents, in this order.
Wanted(s) == (placed \cap Devices) \cup session[s].agents
BindTurn(x) == CHOOSE i \in 1..(Len(DeviceOrder) + Len(AgentOrder)) :
                 (DeviceOrder \o AgentOrder)[i] = x

(* A device of another timeline refuses, and a stream that is not there    *)
(* yet cannot be had once the registry is frozen.  What is bound returns   *)
(* at once, an agent asks for the same streams again.                      *)
CanBind(x) == x \in bound \/ (x \notin foreign /\ (frozen => Streams[x] \subseteq streams))

Reached(s) == {x \in Wanted(s) :
                 \A y \in Wanted(s) : BindTurn(y) <= BindTurn(x) => CanBind(y)}

AllBind(s) == Reached(s) = Wanted(s)

(* A mistake: the session counts as bound when binding begins.             *)
BoundAfterHasty(s) == [session EXCEPT ![s].bound = TRUE]

BoundAfter(s) == [session EXCEPT ![s].bound = AllBind(s),
                                 ![s].knew = IF AllBind(s) THEN placed \cap Devices ELSE {}]

(* bind_all stops at the first that raises, and leaves the others bound.   *)
Binding(s) ==
  /\ bound' = bound \cup Reached(s)
  /\ streams' = streams \cup UNION {Streams[x] : x \in Reached(s)}

BindAll(s) ==
  /\ executing = Idle /\ session[s].made /\ ~session[s].bound
  /\ Binding(s) /\ session' = BoundAfter(s)
  /\ UNCHANGED <<placed, foreign, frozen, provider, queue, batch, executing, started,
                 lostStarts>>

Position(a) == CHOOSE i \in 1..Len(AgentOrder) : AgentOrder[i] = a

\* The agents of the session, by name
Starts(s) ==
  LET agents == session[s].agents
      upTo(a) == {other \in agents : Position(other) <= Position(a)}
  IN  [k \in 1..Cardinality(agents) |->
         [agent |-> CHOOSE a \in agents : Cardinality(upTo(a)) = k, session |-> s]]

Scheduled(known, s) == [known EXCEPT ![s].scheduled = TRUE]

ScheduleAgentStarts(s) ==
  /\ executing = Idle /\ session[s].bound /\ ~session[s].scheduled
  /\ session' = Scheduled(session, s) /\ queue' = queue \o Starts(s)
  /\ UNCHANGED <<placed, foreign, bound, streams, frozen, provider, batch, executing,
                 started, lostStarts>>

(* The program schedules an event of its own.                              *)
ScheduleOwn ==
  /\ executing = Idle /\ ~frozen /\ queue = <<>>
  /\ queue' = <<OtherEvent>>
  /\ UNCHANGED <<placed, foreign, bound, streams, frozen, session, provider, batch,
                 executing, started, lostStarts>>

(* run binds and schedules what was not, and drains the timeline.          *)
Run(s) ==
  /\ executing = Idle /\ session[s].made
  /\ IF session[s].bound THEN UNCHANGED <<bound, streams>> ELSE Binding(s)
  /\ LET known == IF session[s].bound THEN session ELSE BoundAfter(s)
         fresh == ~session[s].scheduled
     IN  IF known[s].bound
         THEN /\ session' = Scheduled(known, s) /\ executing' = [by |-> s, all |-> TRUE]
              /\ queue' = IF fresh THEN queue \o Starts(s) ELSE queue
         ELSE session' = known /\ UNCHANGED <<executing, queue>>
  /\ UNCHANGED <<placed, foreign, frozen, provider, batch, started, lostStarts>>

(* run_until_empty and run_until bind nothing.                             *)
RunBare(s) ==
  /\ executing = Idle /\ session[s].made /\ queue # <<>>
  /\ executing' = [by |-> s, all |-> FALSE]
  /\ UNCHANGED <<placed, foreign, bound, streams, frozen, session, provider, queue,
                 batch, started, lostStarts>>
-----------------------------------------------------------------------------
(* run_one_step of the timeline                                            *)
Step ==
  /\ executing # Idle /\ batch = <<>> /\ queue # <<>>
  /\ frozen' = TRUE /\ batch' = queue /\ queue' = <<>>
  /\ UNCHANGED <<placed, foreign, bound, streams, session, provider, executing, started,
                 lostStarts>>

(* handle_event asks the provider for the context; on_start may raise.     *)
HandleStart ==
  /\ batch # <<>> /\ Head(batch) # OtherEvent
  /\ started' = Append(started, [of |-> Head(batch), context |-> provider[Head(batch).agent]])
  /\ \/ batch' = Tail(batch) /\ UNCHANGED <<executing, lostStarts>>
     \/ batch' = <<>> /\ executing' = Idle /\ lostStarts' = lostStarts \cup ToSet(Tail(batch))
  /\ UNCHANGED <<placed, foreign, bound, streams, frozen, session, provider, queue>>

HandleOwn ==
  /\ batch # <<>> /\ Head(batch) = OtherEvent
  /\ batch' = Tail(batch)
  /\ UNCHANGED <<placed, foreign, bound, streams, frozen, session, provider, queue,
                 executing, started, lostStarts>>

RunReturns ==
  /\ executing # Idle /\ batch = <<>> /\ queue = <<>>
  /\ executing' = Idle
  /\ session' = [session EXCEPT ![executing.by].ran = @ \/ executing.all]
  /\ UNCHANGED <<placed, foreign, bound, streams, frozen, provider, queue, batch,
                 started, lostStarts>>

RuntimeNext ==
  \/ \E x \in Devices \cup Agents : Place(x)
  \/ \E s \in Sessions : Make(s) \/ BindAll(s) \/ ScheduleAgentStarts(s) \/ Run(s) \/ RunBare(s)
  \/ ScheduleOwn \/ Step \/ HandleStart \/ HandleOwn \/ RunReturns
-----------------------------------------------------------------------------
StartsOf(s) == {e \in ToSet(started) : e.of.session = s}

(* Agents are started in the order of their names, each at most once for a *)
(* session, and none is left out by a run that returned but those that     *)
(* went with a batch that failed (schedule_agent_starts, run).             *)
StartedInOrder ==
  \A s \in Sessions :
    /\ \A i, j \in 1..Len(started) :
         i < j /\ started[i].of.session = s /\ started[j].of.session = s =>
           Position(started[i].of.agent) < Position(started[j].of.agent)
    /\ session[s].ran =>
         session[s].agents = {e.of.agent : e \in StartsOf(s)}
                             \cup {e.agent : e \in {l \in lostStarts : l.session = s}}

(* No agent is started before every device that its session found on the   *)
(* network, and every agent of the session, is bound and has its streams,  *)
(* whatever binding has failed before or however often it was retried      *)
(* (bind_all, network.py bind_all; docs/source/runtime/index.rst:120).     *)
StartedBound ==
  \A i \in 1..Len(started) :
    LET s == started[i].of.session
        all == session[s].knew \cup session[s].agents
    IN  /\ session[s].bound /\ all \subseteq bound
        /\ \A x \in all : Streams[x] \subseteq streams
        /\ started[i].context # NoSession

(* Sessions start their agents in order, once, and after everything is     *)
(* bound (runtime.py).                                                     *)
AgentsStartBound == StartedInOrder /\ StartedBound
=============================================================================

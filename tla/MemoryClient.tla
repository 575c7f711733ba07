---------------------------- MODULE MemoryClient ----------------------------
(***************************************************************************)
(* An agent at a quantum memory: it asks through control/memory.py, whose  *)
(* requests are events of the current tick, and learns what became of them *)
(* from the reports that the notice port brings it.  Between the two lie   *)
(* the memory's own events of the tick and signals that nobody asked for.  *)
(*                                                                         *)
(* The agent is one that goes by its reports: it asks for what they make   *)
(* possible, of a position it waits for nothing else, and names the        *)
(* occupant that it means when it writes an entry.                         *)
(***************************************************************************)
EXTENDS QuantumMemory

CONSTANTS Arrivals,   \* if signals come from a channel as well
          MaxAsked    \* bound: the requests and arrivals of a behaviour

VARIABLES asked,      \* the requests on the timeline, in the order of their ids
          view,       \* position -> what the agent knows of it
          left,       \* of the bound
          arriving    \* if this behaviour has arrivals

clientVars == <<asked, view, left, arriving>>

(* What is known of a position: "empty", "awaited" (an absorption may take  *)
(* it), "asked" (something else is under way), or the token of its occupant. *)
Empty       == [is |-> "empty", token |-> None]
Awaited     == [is |-> "awaited", token |-> None]
Known(token) == [is |-> "occupied", token |-> token]
AskedOf(v)  == [v EXCEPT !.is = "asked"]

Knows(S) == S # {} /\ \A p \in S : view[p].is = "occupied"
-----------------------------------------------------------------------------
(* Requests *)

AbsorbRequest(p)         == [kind |-> "absorb", at |-> {p}]
EmitRequest(p)           == [kind |-> "emit", at |-> {p}]
ApplyOperatorRequest(S)  == [kind |-> "operator", at |-> S]
MeasureRequest(S, destructive) == [kind |-> "measure", at |-> S, destructive |-> destructive]
DiscardRequest(p)        == [kind |-> "discard", at |-> {p}]
UpdateMetaRequest(p, token) == [kind |-> "meta", at |-> {p}, expected |-> token]

(* _schedule: an event of the current tick.                                *)
Schedule(request) ==
  /\ now <= LastRequest /\ left > 0
  /\ asked' = Append(asked, request) /\ left' = left - 1
  /\ UNCHANGED <<vars, arriving>>

Mark(S) == view' = [p \in Positions |-> IF p \in S THEN AskedOf(view[p]) ELSE view[p]]

(* For any position: whatever is empty may be taken.                       *)
AskAbsorb(p) ==
  /\ \A q \in Positions : view[q].is # "awaited"
  /\ \E q \in Positions : view[q] = Empty /\ p \in {q, None}
  /\ Schedule(AbsorbRequest(p))
  /\ view' = [q \in Positions |-> IF view[q] = Empty /\ p \in {q, None} THEN Awaited ELSE view[q]]

AskEmit(p)  == Knows({p}) /\ Schedule(EmitRequest(p)) /\ Mark({p})
AskApply(S) == Knows(S) /\ Schedule(ApplyOperatorRequest(S)) /\ Mark(S)
AskMeasure(S, destructive) == Knows(S) /\ Schedule(MeasureRequest(S, destructive)) /\ Mark(S)
AskDiscard(p) == Knows({p}) /\ Schedule(DiscardRequest(p)) /\ Mark({p})

(* The position may be asked for something else at once.                   *)
AskUpdateMeta(p) ==
  /\ Knows({p}) /\ Schedule(UpdateMetaRequest(p, view[p].token)) /\ UNCHANGED view

Ask ==
  \/ \E p \in Positions \cup {None} : AskAbsorb(p)
  \/ \E p \in Positions : AskEmit(p) \/ AskDiscard(p) \/ AskUpdateMeta(p)
  \/ \E S \in SUBSET Positions :
       AskApply(S) \/ \E destructive \in BOOLEAN : AskMeasure(S, destructive)
-----------------------------------------------------------------------------
(* The memory *)

(* What the handler of a request asks before it does anything; the others  *)
(* raise.                                                                  *)
Acceptable(request) ==
  CASE request.kind = "absorb" -> \E p \in request.at : SelectAbsorbPosition(p) # {}
    [] request.kind = "meta"   -> TRUE
    [] OTHER                   -> Occupied(request.at)

HandleRequest(request) ==
  LET S == request.at IN
  \/ request.kind = "absorb"   /\ \E p \in S : Absorb(p)
  \/ request.kind = "emit"     /\ \E p \in S : Emit(p)
  \/ request.kind = "operator" /\ ApplyOperator(S)
  \/ request.kind = "measure"  /\ Measure(S, request.destructive)
  \/ request.kind = "discard"  /\ \E p \in S : Discard(p)
  \/ request.kind = "meta"     /\ \E p \in S : UpdateMeta(p, request.expected, request.expected)

Refuse == aborted' = TRUE /\ UNCHANGED <<config, now, pos, pending, owned, told, mail>>

ServeRequest ==
  /\ asked # <<>> /\ asked' = Tail(asked)
  /\ IF Acceptable(Head(asked)) THEN HandleRequest(Head(asked)) ELSE Refuse
  /\ UNCHANGED <<view, left, arriving>>

(* A signal from the channel; without a free position it ends the run.     *)
SignalArrives ==
  /\ arriving /\ now <= LastRequest /\ left > 0 /\ left' = left - 1
  /\ IF SelectAbsorbPosition(None) = {} THEN Refuse ELSE Absorb(None)
  /\ UNCHANGED <<asked, view, arriving>>
-----------------------------------------------------------------------------
(* The agent reads a report.  Of an absorption, the positions that were    *)
(* not taken are empty again.                                              *)
Learned(r) ==
  [p \in Positions |->
     IF p \in r.cleared THEN Empty
     ELSE IF p \in DOMAIN r.tokens
       THEN IF r.kind = "meta" /\ view[p].is = "asked" THEN view[p] ELSE Known(r.tokens[p])
     ELSE IF r.kind = "absorb" /\ view[p] = Awaited THEN Empty ELSE view[p]]

ReadReport ==
  /\ mail # <<>> /\ mail' = Tail(mail)
  /\ view' = Learned(Head(mail))
  /\ UNCHANGED <<config, now, pos, pending, owned, told, aborted, asked, left, arriving>>
-----------------------------------------------------------------------------
ClientInit ==
  /\ Init /\ asked = <<>> /\ left = MaxAsked
  /\ view = [p \in Positions |-> Empty]
  /\ arriving \in (IF config.notices THEN Arrivals ELSE {FALSE})

(* A memory whose notice port is not connected gets requests of any kind,  *)
(* from anybody, and its timeline may be run again after an exception.     *)
Runs           == config.notices => ~aborted
ClientTick     == Runs /\ asked = <<>> /\ Tick /\ UNCHANGED clientVars
ClientOwnEvent == Runs /\ OwnEvent /\ UNCHANGED clientVars
AnyRequest     == /\ ~config.notices
                  /\ Request \/ OtherRaises \/ \E e \in pending : CompletionRaises(e)
                  /\ UNCHANGED clientVars

ClientNext ==
  \/ ClientTick \/ ClientOwnEvent \/ AnyRequest
  \/ config.notices /\ Runs /\ (Ask \/ ServeRequest \/ SignalArrives \/ ReadReport)

ClientSpec ==
  /\ ClientInit /\ [][ClientNext]_<<vars, clientVars>>
  /\ WF_<<vars, clientVars>>(ClientTick) /\ WF_<<vars, clientVars>>(ClientOwnEvent)
  /\ WF_<<vars, clientVars>>(ServeRequest) /\ WF_<<vars, clientVars>>(ReadReport)
-----------------------------------------------------------------------------
(* An entry never describes another occupant than its writer meant, though *)
(* the one it was told of may be gone, and another in its place, when the  *)
(* update comes.  Of a memory that neither expires nor recovers, and that  *)
(* no other signal reaches, an agent that goes by its reports is never     *)
(* refused, and when it has read them all it knows what is stored.         *)
ReportsSuffice ==
  /\ \A p \in Positions : pos[p].tag \in {None, pos[p].token}
  /\ config.notices /\ config.lifetime = None /\ config.recovery = 0 /\ ~arriving => ~aborted
  /\ config.notices /\ mail = <<>> =>
       \A p \in Positions : view[p].is = "occupied" => pos[p].token = view[p].token
=============================================================================

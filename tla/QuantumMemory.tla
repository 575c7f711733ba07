---------------------------- MODULE QuantumMemory ---------------------------
(***************************************************************************)
(* The positions of one quantum memory,                                    *)
(* components/memories/quantum_memory.py with position.py, driven by the   *)
(* engine as module EventSchedule promises it: the events the memory       *)
(* schedules for itself, delayed completions and expiries, come back once, *)
(* at their tick.  Requests are events of other components and come at any *)
(* tick, before or after the memory's own events of that tick.             *)
(*                                                                         *)
(* The quantum states themselves are left out: of their manager, only which *)
(* position labels it owns is kept.  Of the metadata of an occupant, one    *)
(* entry is: the occupant that its writer meant.                            *)
(***************************************************************************)
EXTENDS Integers, FiniteSets, Sequences

CONSTANTS Positions,   \* the positions of the memory
          Configs,     \* the delays, recovery and lifetime it may be built with
          LastRequest, \* bound: the last tick a request arrives at
          MaxToken     \* bound: the occupancy token that ends the absorptions

None == -1             \* a time that is None

Operations == {"absorb", "emit", "operator", "measure"}

ASSUME MemoryAssumption ==
  /\ Positions \subseteq Nat
  /\ Configs \subseteq [delay : [Operations -> Nat], recovery : Nat,
                        lifetime : Nat \cup {None}, notices : BOOLEAN]
  /\ LastRequest \in Nat
  /\ MaxToken \in Nat

VARIABLES
  config,      \* the configuration of this memory; never changes
  now,         \* the timeline's clock
  pos,         \* positions: position -> MemoryPositionRecord
  pending,     \* the memory's own events on the timeline
  owned,       \* the positions whose memory subsystem the qstate store owns
  told,        \* position -> the occupant that the reports so far tell of
  mail,        \* the reports on their way through a connected notice port
  aborted      \* an exception has left the timeline's run method

vars == <<config, now, pos, pending, owned, told, mail, aborted>>

BusyStatus == [absorb |-> "absorbing", emit |-> "emitting",
               operator |-> "applying_operator", measure |-> "measuring",
               destroy |-> "measuring"]

Busy     == {"absorbing", "emitting", "applying_operator", "measuring"}
Statuses == {"empty", "occupied"} \cup Busy
Holding  == Statuses \ {"empty", "absorbing"}

Token  == Nat
Times  == Nat \cup {None}
Record == [status : Statuses, token : Token, stored : Times, lastNoise : Times,
           expires : Times, readyAt : Nat, tag : Token \cup {None}]

(* _check_status_fields: the times a record must have, and must not have. *)
WellFormed(r) ==
  IF r.status \in Holding THEN r.stored # None /\ r.lastNoise # None
  ELSE r.stored = None /\ r.lastNoise = None /\ r.expires = None

(* An event of the memory's own: what it is for, when, and the tokens that *)
(* its positions had when it was scheduled.                                *)
IsEvent(e) ==
  \E S \in (SUBSET Positions) \ {{}} :
    e \in [kind : DOMAIN BusyStatus \cup {"expire"}, time : Nat, tokens : [S -> Token]]

Occupied(S)  == \A p \in S : pos[p].status = "occupied"
With(S, new(_)) == [p \in Positions |-> IF p \in S THEN new(pos[p]) ELSE pos[p]]

-----------------------------------------------------------------------------
(* Records *)

(* A successful absorption. *)
ExpiresAt == IF config.lifetime = None THEN None ELSE now + config.lifetime

NewOccupant(token) ==
  [status |-> "occupied", token |-> token, stored |-> now, lastNoise |-> now,
   expires |-> ExpiresAt, readyAt |-> now, tag |-> None]

(* _schedule_expiry, if the memory has a storage lifetime. *)
ExpiryOf(p, token) ==
  IF config.lifetime = None THEN {}
  ELSE {[kind |-> "expire", time |-> ExpiresAt, tokens |-> [q \in {p} |-> token]]}

Vacant(token, readyAt) ==
  [status |-> "empty", token |-> token, stored |-> None, lastNoise |-> None,
   expires |-> None, readyAt |-> readyAt, tag |-> None]

(* _clear_position_after_quantum_removal *)
Removed(r) == Vacant(r.token + 1, now + config.recovery)

Marked(r, status) == [r EXCEPT !.status = status]

(* The position is taken, and has its new token, before the qubit is there. *)
Awaiting(r) == [r EXCEPT !.status = "absorbing", !.token = @ + 1]

(* _apply_pending_storage_noise, for the time since it was last applied. *)
Noised(r) == [r EXCEPT !.lastNoise = now]

-----------------------------------------------------------------------------
(* Reports: the positions and the tokens they had, which of them were       *)
(* cleared, and if what was asked for has been done.                        *)

Report(kind, done, tokens, cleared) ==
  [kind |-> kind, done |-> done, tokens |-> tokens, cleared |-> cleared]

Tokens(S) == [p \in S |-> pos[p].token]

AbsorbReport(p, token)       == Report("absorb", TRUE, [q \in {p} |-> token], {})
AbsorbFailedReport(p, token) == Report("absorb", FALSE, [q \in {p} |-> token], {p})
EmitReport(p)                == Report("emit", TRUE, Tokens({p}), {p})
EmitFailedReport(p)          == Report("emit", FALSE, Tokens({p}), {})
OperatorReport(S)            == Report("operator", TRUE, Tokens(S), {})
MeasurementReport(S, cleared) == Report("measure", TRUE, Tokens(S), cleared)
DiscardReport(p)             == Report("discard", TRUE, Tokens({p}), {p})
ExpireReport(p)              == Report("expire", TRUE, Tokens({p}), {p})

(* It names a subsystem only if there is one.                               *)
MetaUpdateReport(p, done) ==
  Report("meta", done, Tokens({p} \cap {q \in Positions : pos[q].status \in Holding}), {})

Heard(r) ==
  [p \in Positions |-> IF p \in r.cleared THEN None
                       ELSE IF p \in DOMAIN r.tokens THEN r.tokens[p] ELSE told[p]]

StoreReport(r) ==
  /\ told' = Heard(r)
  /\ mail' = IF config.notices THEN Append(mail, r) ELSE mail

NothingReported == UNCHANGED <<told, mail>>

-----------------------------------------------------------------------------

Init ==
  /\ config \in Configs
  /\ now = 0
  /\ pos = [p \in Positions |-> Vacant(0, 0)]
  /\ pending = {}
  /\ owned = {}
  /\ told = [p \in Positions |-> None]
  /\ mail = <<>>
  /\ aborted = FALSE

Due == {e \in pending : e.time = now}

(* The clock never passes an event of the memory, nor a report. *)
Tick ==
  /\ Due = {} /\ mail = <<>>
  /\ now < LastRequest \/ pending # {}
  /\ now' = now + 1
  /\ UNCHANGED <<config, pos, pending, owned, told, mail, aborted>>

-----------------------------------------------------------------------------
(* What an operation does, at once or when its completion comes back;      *)
(* rest is what is left of the pending events.                             *)

AbsorbFails(p, token, rest) ==
  /\ pos' = [pos EXCEPT ![p] = Vacant(token, now)]
  /\ pending' = rest
  /\ StoreReport(AbsorbFailedReport(p, token))

(* A mistake: the photon of a failed absorption keeps its new label. *)
FinishAbsorbLeaking(p, token, rest) ==
  /\ owned' = owned \cup {p}
  /\ \/ /\ pos' = [pos EXCEPT ![p] = NewOccupant(token)]
        /\ pending' = rest \cup ExpiryOf(p, token)
        /\ StoreReport(AbsorbReport(p, token))
     \/ AbsorbFails(p, token, rest)

FinishAbsorb(p, token, rest) ==
  \/ /\ p \notin owned
     /\ owned' = owned \cup {p}
     /\ pos' = [pos EXCEPT ![p] = NewOccupant(token)]
     /\ pending' = rest \cup ExpiryOf(p, token)
     /\ StoreReport(AbsorbReport(p, token))
  \/ AbsorbFails(p, token, rest) /\ UNCHANGED owned

(* A failed emission leaves the qubit where it was. *)
EmitFails(p) ==
  /\ pos' = [pos EXCEPT ![p] = Marked(Noised(@), "occupied")]
  /\ StoreReport(EmitFailedReport(p))

FinishEmit(p, rest) ==
  /\ pending' = rest
  /\ \/ /\ owned' = owned \ {p} /\ pos' = [pos EXCEPT ![p] = Removed(@)]
        /\ StoreReport(EmitReport(p))
     \/ EmitFails(p) /\ UNCHANGED owned

(* Without a notice port that is connected, no operator report is made.    *)
FinishOperator(S, rest) ==
  /\ pos' = With(S, LAMBDA r : Marked(r, "occupied"))
  /\ pending' = rest
  /\ IF config.notices THEN StoreReport(OperatorReport(S)) ELSE NothingReported
  /\ UNCHANGED owned

FinishMeasurement(S, destructive, rest) ==
  /\ pos' = With(S, LAMBDA r : IF destructive THEN Removed(r) ELSE Marked(r, "occupied"))
  /\ owned' = IF destructive THEN owned \ S ELSE owned
  /\ pending' = rest
  /\ StoreReport(MeasurementReport(S, IF destructive THEN S ELSE {}))

DiscardPosition(p, report, rest) ==
  /\ pos' = With({p}, Removed)
  /\ owned' = owned \ {p}
  /\ pending' = rest
  /\ StoreReport(report)

-----------------------------------------------------------------------------
(* Requests *)

Requested == now <= LastRequest /\ UNCHANGED <<config, now, aborted>>

(* A mistake: the completion of an operation covers one of its positions. *)
DelayedOne(kind, ticks, S) ==
  /\ pending' = pending \cup {[kind |-> kind, time |-> now + ticks,
                    tokens |-> [p \in {CHOOSE q \in S : TRUE} |-> pos'[p].token]]}
  /\ NothingReported /\ UNCHANGED owned

(* _schedule_completion *)
Delayed(kind, ticks, S) ==
  /\ pending' = pending \cup {[kind |-> kind, time |-> now + ticks,
                               tokens |-> [p \in S |-> pos'[p].token]]}
  /\ NothingReported /\ UNCHANGED owned

IsAvailable(p) == pos[p].status = "empty" /\ now >= pos[p].readyAt

(* A position that is asked for must be available; a request for any takes *)
(* the first that is.                                                      *)
SelectAbsorbPosition(requested) ==
  IF requested # None THEN {p \in {requested} : IsAvailable(p)}
  ELSE {p \in Positions : IsAvailable(p) /\ \A q \in Positions : IsAvailable(q) => p <= q}

(* A request, or a signal that comes through the input port: that is one   *)
(* for any position.                                                       *)
Absorb(requested) ==
  \E p \in SelectAbsorbPosition(requested) :
    /\ Requested
    /\ IF config.delay.absorb = 0
         THEN FinishAbsorb(p, pos[p].token + 1, pending)
         ELSE /\ pos' = [pos EXCEPT ![p] = Awaiting(@)]
              /\ Delayed("absorb", config.delay.absorb, {p})

Emit(p) ==
  /\ Requested
  /\ Occupied({p})
  /\ IF config.delay.emit = 0
       THEN FinishEmit(p, pending)
       ELSE /\ pos' = [pos EXCEPT ![p] = Marked(@, "emitting")]
            /\ Delayed("emit", config.delay.emit, {p})

(* The noise of the time until now comes before the operator. *)
ApplyOperator(S) ==
  /\ Requested
  /\ Occupied(S)
  /\ IF config.delay.operator = 0
       THEN /\ pos' = With(S, Noised) /\ UNCHANGED <<pending, owned>>
            /\ IF config.notices THEN StoreReport(OperatorReport(S)) ELSE NothingReported
       ELSE /\ pos' = With(S, LAMBDA r : Marked(Noised(r), "applying_operator"))
            /\ Delayed("operator", config.delay.operator, S)

Measure(S, destructive) ==
  /\ Requested
  /\ Occupied(S)
  /\ IF config.delay.measure > 0
       THEN /\ pos' = With(S, LAMBDA r : Marked(Noised(r), "measuring"))
            /\ Delayed(IF destructive THEN "destroy" ELSE "measure",
                       config.delay.measure, S)
       ELSE IF destructive THEN FinishMeasurement(S, TRUE, pending)
       ELSE /\ pos' = With(S, Noised) /\ UNCHANGED <<pending, owned>>
            /\ StoreReport(MeasurementReport(S, {}))

Discard(p) ==
  /\ Requested
  /\ Occupied({p})
  /\ DiscardPosition(p, DiscardReport(p), pending)

(* MEMORY_EXPIRE of a controller that names the current occupancy; one     *)
(* that names another, or a busy position, changes nothing.                *)
ExpireRequest(p) ==
  /\ Requested
  /\ Occupied({p})
  /\ DiscardPosition(p, ExpireReport(p), pending)

(* An entry replaces the one that there is under its key.                  *)
MergeMeta(record, tag) == [record EXCEPT !.tag = tag]

UpdatePositionMeta(p, tag) == pos' = [pos EXCEPT ![p] = MergeMeta(@, tag)]

(* A mistake: the token that is expected is not compared. *)
UpdateMetaUnguarded(p, meant, expected) ==
  /\ Requested
  /\ IF pos[p].status = "occupied"
       THEN UpdatePositionMeta(p, meant) /\ StoreReport(MetaUpdateReport(p, TRUE))
       ELSE UNCHANGED pos /\ StoreReport(MetaUpdateReport(p, FALSE))
  /\ UNCHANGED <<pending, owned>>

(* It is never refused: what it does not fit is reported. *)
UpdateMeta(p, meant, expected) ==
  /\ Requested
  /\ IF pos[p].status = "occupied" /\ expected \in {None, pos[p].token}
       THEN UpdatePositionMeta(p, meant) /\ StoreReport(MetaUpdateReport(p, TRUE))
       ELSE UNCHANGED pos /\ StoreReport(MetaUpdateReport(p, FALSE))
  /\ UNCHANGED <<pending, owned>>

-----------------------------------------------------------------------------
(* The memory's own events *)

(* A mistake: an expiry removes whatever occupies the position. *)
CurrentAnyToken(e) ==
  \A p \in DOMAIN e.tokens :
    pos[p].status = IF e.kind = "expire" THEN "occupied" ELSE BusyStatus[e.kind]

(* A mistake: an expiry does not ask whether its position is busy. *)
CurrentAnyStatus(e) ==
  \A p \in DOMAIN e.tokens :
    /\ pos[p].token = e.tokens[p]
    /\ e.kind # "expire" => pos[p].status = BusyStatus[e.kind]

(* _completion_is_current, and the two checks of _handle_expire. *)
Current(e) ==
  \A p \in DOMAIN e.tokens :
    /\ pos[p].token = e.tokens[p]
    /\ pos[p].status = IF e.kind = "expire" THEN "occupied" ELSE BusyStatus[e.kind]

(* Both have the memory's delivery priority, so that of two events of a    *)
(* tick the one that was scheduled first comes first: for one occupancy    *)
(* that is the expiry.  Events of different positions come in any order.   *)
Precedes(d, e) ==
  /\ d.kind = "expire" /\ e.kind # "expire"
  /\ \E p \in DOMAIN d.tokens \cap DOMAIN e.tokens : d.tokens[p] = e.tokens[p]

Arrives(e) ==
  /\ e \in Due
  /\ \A d \in Due : ~Precedes(d, e)

FinishingAbsorb(e, rest)   == e.kind = "absorb" /\ \E p \in DOMAIN e.tokens :
                                FinishAbsorb(p, e.tokens[p], rest)
FinishingEmit(e, rest)     == e.kind = "emit" /\ \E p \in DOMAIN e.tokens : FinishEmit(p, rest)
FinishingOperator(e, rest) == e.kind = "operator" /\ FinishOperator(DOMAIN e.tokens, rest)
FinishingMeasure(e, rest)  == e.kind \in {"measure", "destroy"} /\
                                FinishMeasurement(DOMAIN e.tokens, e.kind = "destroy", rest)
Expiring(e, rest)          == e.kind = "expire" /\ \E p \in DOMAIN e.tokens :
                                DiscardPosition(p, ExpireReport(p), rest)

Finish(e, rest) ==
  \/ FinishingAbsorb(e, rest) \/ FinishingEmit(e, rest) \/ FinishingOperator(e, rest)
  \/ FinishingMeasure(e, rest) \/ Expiring(e, rest)

(* An event that is no longer current is logged and skipped. *)
SkipStale(e) ==
  /\ ~Current(e)
  /\ pending' = pending \ {e} /\ NothingReported /\ UNCHANGED <<pos, owned>>

Handle(e) ==
  /\ Arrives(e)
  /\ (Current(e) /\ Finish(e, pending \ {e})) \/ SkipStale(e)
  /\ UNCHANGED <<config, now, aborted>>

-----------------------------------------------------------------------------
(* Exceptions leave the run method; what the engine had popped for this    *)
(* tick is lost with them (EventSchedule!Fail).                            *)

Aborting(rest) ==
  /\ aborted' = TRUE
  /\ \E lost \in SUBSET {e \in rest : e.time = now} : pending' = rest \ lost
  /\ NothingReported /\ UNCHANGED <<config, now, owned>>

(* A request that is refused, or an event of another component that fails. *)
(* A request that fails later than its checks has applied the noise.       *)
OtherRaises ==
  \E S \in SUBSET Positions :
    /\ Occupied(S)
    /\ pos' = With(S, Noised)
    /\ Aborting(pending)

(* A completion that fails, as the photon is gone, the output port is not  *)
(* connected or the operator does not fit, leaves its positions busy.      *)
CompletionRaises(e) ==
  /\ Arrives(e)
  /\ e.kind # "expire"
  /\ Current(e)
  /\ pos' = IF e.kind = "emit" THEN With(DOMAIN e.tokens, Noised) ELSE pos
  /\ Aborting(pending \ {e})

-----------------------------------------------------------------------------

Request ==
  \/ \E requested \in Positions \cup {None} :
       /\ \A p \in SelectAbsorbPosition(requested) : pos[p].token < MaxToken
       /\ Absorb(requested)
  \/ \E p \in Positions : Emit(p) \/ Discard(p) \/ ExpireRequest(p)
  \/ \E S \in (SUBSET Positions) \ {{}} :
       ApplyOperator(S) \/ \E destructive \in BOOLEAN : Measure(S, destructive)

OwnEvent == \E e \in pending : Handle(e)

Next == \/ Tick
        \/ Request
        \/ OwnEvent
        \/ OtherRaises
        \/ \E e \in pending : CompletionRaises(e)

Spec == Init /\ [][Next]_vars

(* The engine runs until its queue is empty. *)
FairSpec == Spec /\ WF_vars(Tick) /\ WF_vars(OwnEvent)

-----------------------------------------------------------------------------
(* Properties *)

(* No record is built that its own validation would refuse. *)
TypeOK ==
  /\ config \in Configs
  /\ now \in Nat
  /\ pos \in [Positions -> Record]
  /\ \A p \in Positions : WellFormed(pos[p])
  /\ \A e \in pending : IsEvent(e)
  /\ owned \subseteq Positions
  /\ told \in [Positions -> Token \cup {None}]
  /\ aborted \in BOOLEAN

(* The records are valid, and the events in flight agree with them: a      *)
(* delayed completion is never stale, whatever requests, expiries and      *)
(* exceptions come before it, no position has two of them, and an expiry   *)
(* with the token of the current occupant has its expiry time.             *)
EventsMatchPositions ==
  /\ TypeOK
  /\ \A e \in pending :
       /\ e.time >= now
       /\ e.kind # "expire" => Current(e)
       /\ e.kind = "expire" => \A p \in DOMAIN e.tokens :
            pos[p].token = e.tokens[p] =>
              pos[p].status \in Holding /\ pos[p].expires = e.time
  /\ \A d, e \in pending :
       d.kind # "expire" /\ e.kind # "expire" /\ d # e =>
         DOMAIN d.tokens \cap DOMAIN e.tokens = {}

(* The quantum state manager owns a position's label exactly while the     *)
(* record says that it stores a qubit, and the reports taken together tell *)
(* of the same positions, with the tokens of their occupants: relabelling  *)
(* never meets a label that is already owned, nor one that is gone, and    *)
(* nothing is lost that no report tells of.                                *)
LabelsMatch ==
  /\ owned = {p \in Positions : pos[p].status \in Holding}
  /\ told = [p \in Positions |-> IF p \in owned THEN pos[p].token ELSE None]

(* An expiry the memory scheduled removes only the occupant it was         *)
(* scheduled for, at the time written in its record: never a successor.    *)
ExpiresOnTime ==
  [][\A p \in Positions, e \in pending \ pending' :
       (e.kind = "expire" /\ p \in DOMAIN e.tokens /\ pos'[p].status # pos[p].status) =>
         /\ pos[p].expires = now
         /\ pos[p].token = e.tokens[p]]_vars

(* A busy position becomes free again, unless an exception comes between.  *)
BusyEnds ==
  \A p \in Positions :
    (pos[p].status \in Busy) ~> (pos[p].status \notin Busy \/ aborted)
=============================================================================

---------------------------- MODULE MemoryProofs ----------------------------
(***************************************************************************)
(* Proofs about modules QuantumMemory and MemoryClient, for any positions, *)
(* delays, recovery, lifetimes and bounds.  Every step of the memory is    *)
(* seen as three changes that fit together: of the records of some         *)
(* positions, of the events in flight, and of the labels and reports.  Of  *)
(* an agent that is alone with the memory it is shown what it may believe  *)
(* of a position, given the reports that it has still to read.             *)
(***************************************************************************)
EXTENDS MemoryClient, NaturalsInduction, WellFoundedInduction, TLAPS

(* No event carries a token that its position has not reached.             *)
TokensReached == \A e \in pending : \A p \in DOMAIN e.tokens : e.tokens[p] <= pos[p].token

(* Metadata is that of the occupant, and none is left where there is none. *)
TagsMatch == \A p \in Positions :
  /\ pos[p].tag \in {None, pos[p].token}
  /\ pos[p].status \notin Holding => pos[p].tag = None

(* The inductive invariant. *)
IInv == EventsMatchPositions /\ LabelsMatch /\ TokensReached /\ TagsMatch

-----------------------------------------------------------------------------
(* Records, events and what a step may do to them *)

Valid(r) ==
  /\ r \in Record /\ WellFormed(r)
  /\ r.tag \in {None, r.token} /\ (r.status \notin Holding => r.tag = None)

(* The occupant stays, or the token moves on, or there was no occupant.    *)
Advances(r, s) ==
  \/ r.status \in Holding /\ s.status \in Holding /\ s.token = r.token /\ s.expires = r.expires
  \/ s.token > r.token
  \/ r.status \notin Holding /\ s.token = r.token

RecordsStep(S) ==
  /\ pos' \in [Positions -> Record]
  /\ \A p \in Positions \ S : pos'[p] = pos[p]
  /\ \A p \in S : Valid(pos'[p]) /\ Advances(pos[p], pos'[p])

(* What a new event says of the records after the step.                    *)
Announces(e, S) ==
  /\ IsEvent(e) /\ e.time >= now /\ DOMAIN e.tokens \subseteq S
  /\ \A p \in DOMAIN e.tokens :
       /\ e.tokens[p] = pos'[p].token
       /\ e.kind # "expire" => pos'[p].status = BusyStatus[e.kind]
       /\ e.kind = "expire" => pos'[p].status \in Holding /\ pos'[p].expires = e.time

NoCompletionAt(S, events) ==
  \A e \in events : e.kind # "expire" => DOMAIN e.tokens \cap S = {}

EventsStep(S, kept, added) ==
  /\ kept \subseteq pending /\ pending' = kept \cup added
  /\ NoCompletionAt(S, kept)
  /\ \A e \in added : Announces(e, S)
  /\ \A d, e \in added : d = e

LabelsStep(S) ==
  /\ owned' \subseteq Positions
  /\ told' = [p \in Positions |-> told'[p]]
  /\ \A p \in Positions \ S : (p \in owned' <=> p \in owned) /\ told'[p] = told[p]
  /\ \A p \in S : /\ p \in owned' <=> pos'[p].status \in Holding
                  /\ told'[p] = IF p \in owned' THEN pos'[p].token ELSE None

-----------------------------------------------------------------------------

LEMMA EventFacts ==
  ASSUME NEW e, IsEvent(e)
  PROVE  /\ DOMAIN e.tokens \subseteq Positions /\ DOMAIN e.tokens # {}
         /\ \A p \in DOMAIN e.tokens : e.tokens[p] \in Nat
         /\ e.time \in Nat /\ e.kind \in {"absorb", "emit", "operator", "measure", "destroy", "expire"}
<1>1. DOMAIN BusyStatus = {"absorb", "emit", "operator", "measure", "destroy"}
  BY DEF BusyStatus
<1>2. PICK S \in (SUBSET Positions) \ {{}} :
        e \in [kind : DOMAIN BusyStatus \cup {"expire"}, time : Nat, tokens : [S -> Token]]
  BY DEF IsEvent
<1>. QED
  BY <1>1, <1>2 DEF Token

LEMMA NewEvent ==
  ASSUME NEW kind \in {"absorb", "emit", "operator", "measure", "destroy", "expire"},
         NEW time \in Nat, NEW S \in SUBSET Positions, S # {}, NEW tokens \in [S -> Nat]
  PROVE  IsEvent([kind |-> kind, time |-> time, tokens |-> tokens])
<1>1. DOMAIN BusyStatus = {"absorb", "emit", "operator", "measure", "destroy"}
  BY DEF BusyStatus
<1>. QED
  BY <1>1 DEF IsEvent, Token

(* A completion makes its positions busy. *)
LEMMA BusyFacts ==
  ASSUME NEW kind \in {"absorb", "emit", "operator", "measure", "destroy"}
  PROVE  /\ BusyStatus[kind] \in Busy /\ BusyStatus[kind] # "occupied"
         /\ kind = "absorb" <=> BusyStatus[kind] = "absorbing"
         /\ kind # "absorb" => BusyStatus[kind] \in Holding
  BY DEF BusyStatus, Busy, Holding, Statuses

LEMMA StatusFacts ==
  /\ Holding = {"occupied", "emitting", "applying_operator", "measuring"}
  /\ Statuses = {"empty", "occupied", "absorbing", "emitting", "applying_operator", "measuring"}
  BY DEF Holding, Statuses, Busy

LEMMA ConfigFacts ==
  ASSUME config \in Configs
  PROVE  /\ \A o \in {"absorb", "emit", "operator", "measure"} : config.delay[o] \in Nat
         /\ config.recovery \in Nat /\ config.lifetime \in Nat \cup {None}
         /\ config.notices \in BOOLEAN
  BY MemoryAssumption DEF Operations

LEMMA RecordFacts ==
  ASSUME IInv, NEW p \in Positions
  PROVE  Valid(pos[p]) /\ pos[p].token \in Nat /\ now \in Nat /\ config \in Configs
  BY DEF IInv, EventsMatchPositions, TypeOK, TagsMatch, Valid, Record, Token

-----------------------------------------------------------------------------
(* Three changes that fit together keep the invariant *)

LEMMA StepIInv ==
  ASSUME IInv, NEW S \in SUBSET Positions, NEW kept, NEW added,
         RecordsStep(S), EventsStep(S, kept, added), LabelsStep(S),
         UNCHANGED <<config, now>>, aborted' \in BOOLEAN
  PROVE  IInv'
<1>. USE DEF IInv
<1>1. /\ pos \in [Positions -> Record] /\ now \in Nat
      /\ \A p \in Positions : pos[p].token \in Nat /\ pos'[p].token \in Nat
  BY DEF EventsMatchPositions, TypeOK, RecordsStep, Record, Token
<1>2. \A p \in Positions : Valid(pos'[p])
  BY RecordFacts DEF RecordsStep
<1>3. \A e \in pending' : IsEvent(e)
  BY DEF EventsStep, Announces, EventsMatchPositions, TypeOK
<1>4. \A p \in Positions : told'[p] = IF p \in owned' THEN pos'[p].token ELSE None
  BY DEF LabelsMatch, LabelsStep, RecordsStep
<1>5. LabelsMatch'
  BY <1>4 DEF LabelsMatch, LabelsStep, RecordsStep
<1>6. TypeOK'
  <2>1. told' \in [Positions -> Token \cup {None}]
    BY <1>1, <1>4 DEF LabelsStep, Token
  <2>2. \A p \in Positions : WellFormed(pos[p])'
    BY <1>2 DEF Valid, WellFormed
  <2>. QED
    BY <1>3, <2>1, <2>2 DEF TypeOK, EventsMatchPositions, RecordsStep, LabelsStep
<1>7. ASSUME NEW e \in kept, NEW p \in DOMAIN e.tokens
      PROVE  /\ p \in Positions /\ e.tokens[p] \in Nat /\ e.tokens[p] <= pos[p].token
             /\ pos[p].token <= pos'[p].token
             /\ e.kind # "expire" => pos'[p] = pos[p]
             /\ e.kind = "expire" /\ pos'[p].token = e.tokens[p] =>
                  pos'[p].status \in Holding /\ pos'[p].expires = e.time
  <2>1. e \in pending /\ IsEvent(e)
    BY DEF EventsStep, EventsMatchPositions, TypeOK
  <2>2. p \in Positions /\ e.tokens[p] \in Nat /\ e.tokens[p] <= pos[p].token
    BY <2>1, EventFacts DEF TokensReached
  <2>3. e.kind = "expire" /\ pos[p].token = e.tokens[p] =>
          pos[p].status \in Holding /\ pos[p].expires = e.time
    BY <2>1 DEF EventsMatchPositions
  <2>4. CASE p \notin S
    <3>1. pos'[p] = pos[p]
      BY <2>2, <2>4 DEF RecordsStep
    <3>. QED
      BY <1>1, <2>2, <2>3, <3>1
  <2>5. CASE p \in S
    <3>1. e.kind = "expire"
      BY <2>5 DEF EventsStep, NoCompletionAt
    <3>2. Advances(pos[p], pos'[p])
      BY <2>5 DEF RecordsStep
    <3>. QED
      BY <1>1, <2>2, <2>3, <3>1, <3>2 DEF Advances
  <2>. QED
    BY <2>4, <2>5
<1>8. \A e \in added : Announces(e, S)
  BY DEF EventsStep
<1>9. TokensReached'
  <2>. SUFFICES ASSUME NEW e \in pending', NEW p \in DOMAIN e.tokens
                PROVE  e.tokens[p] <= pos'[p].token
    BY DEF TokensReached
  <2>1. CASE e \in kept
    BY <1>1, <1>7, <2>1
  <2>2. CASE e \in added
    <3>1. p \in Positions /\ e.tokens[p] = pos'[p].token
      BY <1>8, <2>2 DEF Announces
    <3>. QED
      BY <1>1, <3>1
  <2>. QED
    BY <2>1, <2>2 DEF EventsStep
<1>10. ASSUME NEW e \in pending'
       PROVE  /\ e.time >= now
              /\ e.kind # "expire" => Current(e)'
              /\ e.kind = "expire" => \A p \in DOMAIN e.tokens :
                   pos'[p].token = e.tokens[p] =>
                     pos'[p].status \in Holding /\ pos'[p].expires = e.time
  <2>1. CASE e \in kept
    <3>1. e.time >= now /\ (e.kind # "expire" => Current(e))
      BY <2>1 DEF EventsStep, EventsMatchPositions
    <3>2. e.kind # "expire" => Current(e)'
      BY <1>7, <2>1, <3>1 DEF Current
    <3>. QED
      BY <1>7, <2>1, <3>1, <3>2
  <2>2. CASE e \in added
    BY <1>8, <2>2 DEF Announces, Current
  <2>. QED
    BY <2>1, <2>2 DEF EventsStep
<1>11. ASSUME NEW d \in pending', NEW e \in pending',
              d.kind # "expire", e.kind # "expire", d # e
       PROVE  DOMAIN d.tokens \cap DOMAIN e.tokens = {}
  <2>1. CASE d \in kept /\ e \in kept
    BY <1>11, <2>1 DEF EventsStep, EventsMatchPositions
  <2>2. CASE d \in kept /\ e \in added
    <3>1. DOMAIN d.tokens \cap S = {} /\ DOMAIN e.tokens \subseteq S
      BY <1>11, <2>2 DEF EventsStep, NoCompletionAt, Announces
    <3>. QED
      BY <3>1
  <2>3. CASE d \in added /\ e \in kept
    <3>1. DOMAIN e.tokens \cap S = {} /\ DOMAIN d.tokens \subseteq S
      BY <1>11, <2>3 DEF EventsStep, NoCompletionAt, Announces
    <3>. QED
      BY <3>1
  <2>4. CASE d \in added /\ e \in added
    BY <1>11, <2>4 DEF EventsStep
  <2>. QED
    BY <2>1, <2>2, <2>3, <2>4 DEF EventsStep
<1>12. EventsMatchPositions'
  BY <1>6, <1>10, <1>11 DEF EventsMatchPositions
<1>13. TagsMatch'
  BY <1>2 DEF TagsMatch, Valid
<1>. QED
  BY <1>5, <1>9, <1>12, <1>13

-----------------------------------------------------------------------------
(* Records and reports *)

LEMMA VacantFacts ==
  ASSUME NEW token \in Nat, NEW readyAt \in Nat
  PROVE  /\ Valid(Vacant(token, readyAt)) /\ Vacant(token, readyAt).token = token
         /\ Vacant(token, readyAt).status \notin Holding
  BY StatusFacts DEF Vacant, Valid, WellFormed, Record, Token, Times

LEMMA RemovedFacts ==
  ASSUME IInv, NEW p \in Positions
  PROVE  /\ Valid(Removed(pos[p])) /\ Removed(pos[p]).status \notin Holding
         /\ Advances(pos[p], Removed(pos[p]))
<1>1. pos[p].token \in Nat /\ now \in Nat /\ config.recovery \in Nat
  BY RecordFacts, ConfigFacts
<1>. QED
  BY <1>1, VacantFacts DEF Removed, Advances

LEMMA NewOccupantFacts ==
  ASSUME IInv, NEW token \in Nat
  PROVE  /\ Valid(NewOccupant(token)) /\ NewOccupant(token).token = token
         /\ NewOccupant(token).status \in Holding
         /\ NewOccupant(token).expires = ExpiresAt
         /\ ExpiresAt \in Nat \cup {None}
         /\ config.lifetime # None => ExpiresAt \in Nat /\ ExpiresAt >= now
<1>1. now \in Nat /\ config.lifetime \in Nat \cup {None}
  BY ConfigFacts DEF IInv, EventsMatchPositions, TypeOK
<1>2. ExpiresAt \in Nat \cup {None} /\ (config.lifetime # None => ExpiresAt \in Nat /\ ExpiresAt >= now)
  BY <1>1 DEF ExpiresAt, None
<1>3. now # None
  BY <1>1 DEF None
<1>. QED
  BY <1>1, <1>2, <1>3, StatusFacts DEF NewOccupant, Valid, WellFormed, Record, Token, Times

(* The occupant stays where it is.                                         *)
Keeps(r, s) ==
  Valid(s) /\ s.status \in Holding /\ s.token = r.token /\ s.expires = r.expires

LEMMA KeepsFacts ==
  ASSUME IInv, NEW p \in Positions, pos[p].status \in Holding, NEW status \in Holding
  PROVE  /\ Keeps(pos[p], Marked(pos[p], status)) /\ Marked(pos[p], status).status = status
         /\ Keeps(pos[p], Noised(pos[p]))
         /\ Keeps(pos[p], Marked(Noised(pos[p]), status))
         /\ Marked(Noised(pos[p]), status).status = status
<1>1. Valid(pos[p]) /\ now \in Nat /\ now # None /\ status \in Statuses
  BY RecordFacts, StatusFacts DEF None
<1>. QED
  BY <1>1 DEF Keeps, Marked, Noised, Valid, WellFormed, Record, Times

Held(S) == \A p \in S : pos[p].status \in Holding

(* A report of occupants that stay tells nothing new.                      *)
LEMMA HeardKnown ==
  ASSUME IInv, NEW S \in SUBSET Positions, Held(S), NEW r,
         r.cleared = {}, r.tokens = Tokens(S), StoreReport(r)
  PROVE  told' = told
<1>1. \A p \in S : told[p] = pos[p].token
  BY DEF IInv, LabelsMatch, Held
<1>2. told = [p \in Positions |-> told[p]]
  BY DEF IInv, LabelsMatch
<1>. QED
  BY <1>1, <1>2 DEF StoreReport, Heard, Tokens

LEMMA KeepIInv ==
  ASSUME IInv, NEW S \in SUBSET Positions, Held(S), NEW rest, NEW added,
         rest \subseteq pending, NoCompletionAt(S, rest), pending' = rest \cup added,
         \A e \in added : Announces(e, S), \A d, e \in added : d = e,
         pos' = [p \in Positions |-> pos'[p]],
         \A p \in Positions \ S : pos'[p] = pos[p],
         \A p \in S : Keeps(pos[p], pos'[p]),
         UNCHANGED <<config, now, owned, told>>, aborted' \in BOOLEAN
  PROVE  IInv'
<1>1. RecordsStep(S)
  <2>1. \A p \in Positions : pos'[p] \in Record
    BY RecordFacts DEF Keeps, Valid
  <2>. QED
    BY <2>1 DEF RecordsStep, Keeps, Advances, Held
<1>2. LabelsStep(S)
  BY DEF LabelsStep, IInv, LabelsMatch, Held, Keeps
<1>3. EventsStep(S, rest, added)
  BY DEF EventsStep
<1>. QED
  BY <1>1, <1>2, <1>3, StepIInv

(* Nothing new is planned for them.                                         *)
LEMMA KeepOnlyIInv ==
  ASSUME IInv, NEW S \in SUBSET Positions, Held(S), NEW rest,
         rest \subseteq pending, NoCompletionAt(S, rest), pending' = rest,
         pos' = [p \in Positions |-> pos'[p]],
         \A p \in Positions \ S : pos'[p] = pos[p],
         \A p \in S : Keeps(pos[p], pos'[p]),
         UNCHANGED <<config, now, owned, told>>, aborted' \in BOOLEAN
  PROVE  IInv'
<1>. DEFINE added == {}
<1>1. /\ pending' = rest \cup added
      /\ \A e \in added : Announces(e, S)
      /\ \A d, e \in added : d = e
  OBVIOUS
<1>. HIDE DEF added
<1>. QED
  BY <1>1, KeepIInv

LEMMA RemoveIInv ==
  ASSUME IInv, NEW S \in SUBSET Positions, NEW rest,
         rest \subseteq pending, NoCompletionAt(S, rest), pending' = rest,
         pos' = [p \in Positions |-> IF p \in S THEN Removed(pos[p]) ELSE pos[p]],
         owned' = owned \ S, NEW r, r.cleared = S, DOMAIN r.tokens = S, StoreReport(r),
         UNCHANGED <<config, now>>, aborted' \in BOOLEAN
  PROVE  IInv'
<1>1. RecordsStep(S)
  <2>1. \A p \in Positions : pos'[p] \in Record
    BY RecordFacts, RemovedFacts DEF Valid
  <2>. QED
    BY <2>1, RemovedFacts DEF RecordsStep
<1>2. LabelsStep(S)
  <2>1. told' = [p \in Positions |-> IF p \in S THEN None ELSE told[p]]
    BY DEF StoreReport, Heard
  <2>2. owned \subseteq Positions
    BY DEF IInv, EventsMatchPositions, TypeOK
  <2>. QED
    BY <2>1, <2>2, RemovedFacts DEF LabelsStep
<1>3. EventsStep(S, rest, {})
  BY DEF EventsStep
<1>. QED
  BY <1>1, <1>2, <1>3, StepIInv

-----------------------------------------------------------------------------
(* Where a completion may be *)

LEMMA OccupiedFree ==
  ASSUME IInv, NEW S \in SUBSET Positions, Occupied(S)
  PROVE  NoCompletionAt(S, pending) /\ Held(S)
<1>1. ASSUME NEW e \in pending, e.kind # "expire", NEW p \in DOMAIN e.tokens
      PROVE  pos[p].status # "occupied"
  BY <1>1, EventFacts, BusyFacts DEF IInv, EventsMatchPositions, TypeOK, Current
<1>. QED
  BY <1>1, StatusFacts DEF NoCompletionAt, Occupied, Held

LEMMA EmptyFree ==
  ASSUME IInv, NEW p \in Positions, pos[p].status = "empty"
  PROVE  NoCompletionAt({p}, pending)
<1>1. ASSUME NEW e \in pending, e.kind # "expire", NEW q \in DOMAIN e.tokens
      PROVE  pos[q].status # "empty"
  BY <1>1, EventFacts, BusyFacts DEF IInv, EventsMatchPositions, TypeOK, Current, Busy
<1>. QED
  BY <1>1 DEF NoCompletionAt

LEMMA CurrentFree ==
  ASSUME IInv, NEW e \in pending, Current(e)
  PROVE  /\ NoCompletionAt(DOMAIN e.tokens, pending \ {e})
         /\ DOMAIN e.tokens \in SUBSET Positions /\ DOMAIN e.tokens # {}
         /\ e.kind # "absorb" => Held(DOMAIN e.tokens)
<1>1. IsEvent(e) /\ DOMAIN e.tokens \subseteq Positions /\ DOMAIN e.tokens # {}
  BY EventFacts DEF IInv, EventsMatchPositions, TypeOK
<1>2. CASE e.kind = "expire"
  <2>1. Occupied(DOMAIN e.tokens)
    BY <1>2 DEF Current, Occupied
  <2>. QED
    BY <1>1, <2>1, OccupiedFree DEF NoCompletionAt
<1>3. CASE e.kind # "expire"
  <2>1. NoCompletionAt(DOMAIN e.tokens, pending \ {e})
    BY <1>3 DEF NoCompletionAt, IInv, EventsMatchPositions
  <2>2. e.kind # "absorb" => Held(DOMAIN e.tokens)
    BY <1>1, <1>3, EventFacts, BusyFacts DEF Current, Held
  <2>. QED
    BY <1>1, <2>1, <2>2
<1>. QED
  BY <1>2, <1>3

-----------------------------------------------------------------------------
(* What an operation does *)

LEMMA FinishAbsorbIInv ==
  ASSUME IInv, NEW p \in Positions, NEW token \in Nat, NEW rest,
         rest \subseteq pending, NoCompletionAt({p}, rest),
         pos[p].status \notin Holding, token >= pos[p].token,
         FinishAbsorb(p, token, rest), UNCHANGED <<config, now, aborted>>
  PROVE  IInv'
<1>. DEFINE S == {p}
<1>1. pos \in [Positions -> Record] /\ pos[p].token \in Nat /\ now \in Nat
      /\ aborted' \in BOOLEAN /\ owned \subseteq Positions
  BY RecordFacts DEF IInv, EventsMatchPositions, TypeOK
<1>2. CASE /\ p \notin owned
           /\ owned' = owned \cup {p}
           /\ pos' = [pos EXCEPT ![p] = NewOccupant(token)]
           /\ pending' = rest \cup ExpiryOf(p, token)
           /\ StoreReport(AbsorbReport(p, token))
  <2>1. /\ pos'[p] = NewOccupant(token) /\ \A q \in Positions \ S : pos'[q] = pos[q]
        /\ pos' \in [Positions -> Record]
    BY <1>1, <1>2, NewOccupantFacts DEF Valid
  <2>2. RecordsStep(S)
    <3>1. Advances(pos[p], pos'[p])
      BY <1>1, <2>1, NewOccupantFacts DEF Advances
    <3>. QED
      BY <2>1, <3>1, NewOccupantFacts DEF RecordsStep
  <2>3. told' = [q \in Positions |-> IF q = p THEN token ELSE told[q]]
    BY <1>2 DEF StoreReport, Heard, AbsorbReport, Report
  <2>4. LabelsStep(S)
    BY <1>1, <1>2, <2>1, <2>3, NewOccupantFacts DEF LabelsStep
  <2>5. ASSUME NEW e \in ExpiryOf(p, token)
        PROVE  Announces(e, S)
    <3>1. /\ config.lifetime # None
          /\ e = [kind |-> "expire", time |-> ExpiresAt, tokens |-> [q \in {p} |-> token]]
      BY <2>5 DEF ExpiryOf
    <3>2. IsEvent(e)
      BY <3>1, NewEvent, NewOccupantFacts
    <3>. QED
      BY <2>1, <3>1, <3>2, NewOccupantFacts DEF Announces
  <2>6. EventsStep(S, rest, ExpiryOf(p, token))
    <3>1. \A d, e \in ExpiryOf(p, token) : d = e
      BY DEF ExpiryOf
    <3>. QED
      BY <1>2, <2>5, <3>1 DEF EventsStep
  <2>. QED
    BY <1>1, <2>2, <2>4, <2>6, StepIInv
<1>3. CASE AbsorbFails(p, token, rest) /\ UNCHANGED owned
  <2>1. /\ pos'[p] = Vacant(token, now) /\ \A q \in Positions \ S : pos'[q] = pos[q]
        /\ pos' \in [Positions -> Record]
    BY <1>1, <1>3, VacantFacts DEF AbsorbFails, Valid
  <2>2. RecordsStep(S)
    <3>1. Advances(pos[p], pos'[p])
      BY <1>1, <2>1, VacantFacts DEF Advances
    <3>. QED
      BY <1>1, <2>1, <3>1, VacantFacts DEF RecordsStep
  <2>3. told' = [q \in Positions |-> IF q = p THEN None ELSE told[q]]
    BY <1>3 DEF AbsorbFails, StoreReport, Heard, AbsorbFailedReport, Report
  <2>4. p \notin owned
    BY DEF IInv, LabelsMatch
  <2>5. LabelsStep(S)
    BY <1>1, <1>3, <2>1, <2>3, <2>4, VacantFacts DEF LabelsStep
  <2>6. EventsStep(S, rest, {})
    BY <1>3 DEF EventsStep, AbsorbFails
  <2>. QED
    BY <1>1, <2>2, <2>5, <2>6, StepIInv
<1>. QED
  BY <1>2, <1>3 DEF FinishAbsorb

LEMMA DiscardPositionIInv ==
  ASSUME IInv, NEW p \in Positions, NEW rest, rest \subseteq pending,
         NoCompletionAt({p}, rest), NEW report,
         report.cleared = {p}, report.tokens = Tokens({p}),
         DiscardPosition(p, report, rest), UNCHANGED <<config, now, aborted>>
  PROVE  IInv'
<1>1. aborted' \in BOOLEAN
  BY DEF IInv, EventsMatchPositions, TypeOK
<1>2. pos' = [q \in Positions |-> IF q \in {p} THEN Removed(pos[q]) ELSE pos[q]]
  BY DEF DiscardPosition, With
<1>3. owned' = owned \ {p} /\ pending' = rest /\ StoreReport(report)
  BY DEF DiscardPosition
<1>4. DOMAIN report.tokens = {p}
  BY DEF Tokens
<1>. QED
  BY <1>1, <1>2, <1>3, <1>4, RemoveIInv

LEMMA FinishEmitIInv ==
  ASSUME IInv, NEW p \in Positions, NEW rest, rest \subseteq pending,
         NoCompletionAt({p}, rest), Held({p}),
         FinishEmit(p, rest), UNCHANGED <<config, now, aborted>>
  PROVE  IInv'
<1>1. aborted' \in BOOLEAN /\ pos \in [Positions -> Record]
  BY DEF IInv, EventsMatchPositions, TypeOK
<1>2. CASE /\ owned' = owned \ {p} /\ pos' = [pos EXCEPT ![p] = Removed(@)]
           /\ StoreReport(EmitReport(p)) /\ pending' = rest
  <2>1. EmitReport(p).cleared = {p} /\ DOMAIN EmitReport(p).tokens = {p}
    BY DEF EmitReport, Report, Tokens
  <2>2. pos' = [q \in Positions |-> IF q \in {p} THEN Removed(pos[q]) ELSE pos[q]]
    BY <1>1, <1>2
  <2>. QED
    BY <1>1, <1>2, <2>1, <2>2, RemoveIInv
<1>3. CASE EmitFails(p) /\ UNCHANGED owned /\ pending' = rest
  <2>1. EmitFailedReport(p).cleared = {} /\ EmitFailedReport(p).tokens = Tokens({p})
    BY DEF EmitFailedReport, Report
  <2>2. told' = told
    BY <1>3, <2>1, HeardKnown DEF EmitFails
  <2>3. /\ pos' = [q \in Positions |-> pos'[q]] /\ \A q \in Positions \ {p} : pos'[q] = pos[q]
        /\ pos'[p] = Marked(Noised(pos[p]), "occupied")
    BY <1>1, <1>3 DEF EmitFails
  <2>4. Keeps(pos[p], pos'[p])
    BY <2>3, KeepsFacts, StatusFacts DEF Held
  <2>5. \A q \in {p} : Keeps(pos[q], pos'[q])
    BY <2>4
  <2>. QED
    BY <1>1, <1>3, <2>2, <2>3, <2>5, KeepOnlyIInv
<1>. QED
  BY <1>2, <1>3 DEF FinishEmit

LEMMA OperatorHeard ==
  ASSUME IInv, NEW S \in SUBSET Positions, Held(S),
         IF config.notices THEN StoreReport(OperatorReport(S)) ELSE NothingReported
  PROVE  told' = told
<1>1. OperatorReport(S).cleared = {} /\ OperatorReport(S).tokens = Tokens(S)
  BY DEF OperatorReport, Report
<1>. QED
  BY <1>1, HeardKnown DEF NothingReported

LEMMA FinishOperatorIInv ==
  ASSUME IInv, NEW S \in SUBSET Positions, NEW rest, rest \subseteq pending,
         NoCompletionAt(S, rest), Held(S),
         FinishOperator(S, rest), UNCHANGED <<config, now, aborted>>
  PROVE  IInv'
<1>1. aborted' \in BOOLEAN
  BY DEF IInv, EventsMatchPositions, TypeOK
<1>2. told' = told
  BY OperatorHeard DEF FinishOperator
<1>3. pos' = [p \in Positions |-> IF p \in S THEN Marked(pos[p], "occupied") ELSE pos[p]]
  BY DEF FinishOperator, With
<1>4. pos' = [p \in Positions |-> pos'[p]] /\ \A p \in Positions \ S : pos'[p] = pos[p]
  BY <1>3
<1>5. \A p \in S : Keeps(pos[p], pos'[p])
  BY <1>3, KeepsFacts, StatusFacts DEF Held
<1>6. pending' = rest /\ owned' = owned
  BY DEF FinishOperator
<1>. QED
  BY <1>1, <1>2, <1>4, <1>5, <1>6, KeepOnlyIInv

LEMMA FinishMeasurementIInv ==
  ASSUME IInv, NEW S \in SUBSET Positions, NEW rest, rest \subseteq pending,
         NoCompletionAt(S, rest), Held(S), NEW destructive \in BOOLEAN,
         FinishMeasurement(S, destructive, rest), UNCHANGED <<config, now, aborted>>
  PROVE  IInv'
<1>1. aborted' \in BOOLEAN
  BY DEF IInv, EventsMatchPositions, TypeOK
<1>2. CASE destructive
  <2>1. pos' = [p \in Positions |-> IF p \in S THEN Removed(pos[p]) ELSE pos[p]]
    BY <1>2 DEF FinishMeasurement, With
  <2>2. owned' = owned \ S /\ pending' = rest /\ StoreReport(MeasurementReport(S, S))
    BY <1>2 DEF FinishMeasurement
  <2>3. MeasurementReport(S, S).cleared = S /\ DOMAIN MeasurementReport(S, S).tokens = S
    BY DEF MeasurementReport, Report, Tokens
  <2>. QED
    BY <1>1, <2>1, <2>2, <2>3, RemoveIInv
<1>3. CASE ~destructive
  <2>1. pos' = [p \in Positions |-> IF p \in S THEN Marked(pos[p], "occupied") ELSE pos[p]]
    BY <1>3 DEF FinishMeasurement, With
  <2>2. owned' = owned /\ pending' = rest /\ StoreReport(MeasurementReport(S, {}))
    BY <1>3 DEF FinishMeasurement
  <2>3. MeasurementReport(S, {}).cleared = {} /\ MeasurementReport(S, {}).tokens = Tokens(S)
    BY DEF MeasurementReport, Report
  <2>4. told' = told
    BY <2>2, <2>3, HeardKnown
  <2>5. pos' = [p \in Positions |-> pos'[p]] /\ \A p \in Positions \ S : pos'[p] = pos[p]
    BY <2>1
  <2>6. \A p \in S : Keeps(pos[p], pos'[p])
    BY <2>1, KeepsFacts, StatusFacts DEF Held
  <2>. QED
    BY <1>1, <2>2, <2>4, <2>5, <2>6, KeepOnlyIInv
<1>. QED
  BY <1>2, <1>3
-----------------------------------------------------------------------------
(* Requests *)

(* An operation with a delay leaves its positions busy until its           *)
(* completion comes back.                                                  *)
LEMMA DelayedIInv ==
  ASSUME IInv, NEW S \in SUBSET Positions, S # {}, Occupied(S),
         NEW kind \in {"emit", "operator", "measure", "destroy"}, NEW ticks \in Nat,
         pos' = [p \in Positions |-> pos'[p]],
         \A p \in Positions \ S : pos'[p] = pos[p],
         \A p \in S : Keeps(pos[p], pos'[p]) /\ pos'[p].status = BusyStatus[kind],
         Delayed(kind, ticks, S), UNCHANGED <<config, now, aborted>>
  PROVE  IInv'
<1>. DEFINE event == [kind |-> kind, time |-> now + ticks, tokens |-> [p \in S |-> pos'[p].token]]
            added == {event}
<1>1. aborted' \in BOOLEAN /\ now \in Nat
  BY DEF IInv, EventsMatchPositions, TypeOK
<1>2. NoCompletionAt(S, pending) /\ Held(S)
  BY OccupiedFree
<1>3. Announces(event, S)
  <2>1. \A p \in S : pos'[p].token \in Nat
    BY RecordFacts DEF Keeps
  <2>2. [p \in S |-> pos'[p].token] \in [S -> Nat] /\ now + ticks \in Nat
    BY <1>1, <2>1
  <2>3. IsEvent(event)
    BY <2>2, NewEvent
  <2>. QED
    BY <1>1, <2>3 DEF Announces
<1>4. pending' = pending \cup added /\ UNCHANGED <<owned, told>>
  BY DEF Delayed, NothingReported
<1>5. (\A e \in added : Announces(e, S)) /\ (\A d, e \in added : d = e)
  BY <1>3
<1>. HIDE DEF added
<1>. QED
  BY <1>1, <1>2, <1>4, <1>5, KeepIInv

LEMMA AbsorbIInv ==
  ASSUME IInv, NEW requested \in Positions \cup {None}, Absorb(requested)
  PROVE  IInv'
<1>1. PICK p \in SelectAbsorbPosition(requested) :
        /\ Requested
        /\ IF config.delay.absorb = 0
             THEN FinishAbsorb(p, pos[p].token + 1, pending)
             ELSE /\ pos' = [pos EXCEPT ![p] = Awaiting(@)]
                  /\ Delayed("absorb", config.delay.absorb, {p})
  BY DEF Absorb
<1>2. p \in Positions /\ pos[p].status = "empty"
  BY <1>1 DEF SelectAbsorbPosition, IsAvailable
<1>3. /\ pos \in [Positions -> Record] /\ Valid(pos[p]) /\ pos[p].token \in Nat
      /\ now \in Nat /\ config.delay.absorb \in Nat
  BY <1>2, RecordFacts, ConfigFacts DEF IInv, EventsMatchPositions, TypeOK
<1>4. NoCompletionAt({p}, pending) /\ UNCHANGED <<config, now, aborted>> /\ pos[p].status \notin Holding
  BY <1>1, <1>2, EmptyFree, StatusFacts DEF Requested
<1>5. CASE config.delay.absorb = 0
  BY <1>1, <1>2, <1>3, <1>4, <1>5, FinishAbsorbIInv
<1>6. CASE config.delay.absorb # 0
  <2>. DEFINE S == {p}
              r == Awaiting(pos[p])
              event == [kind |-> "absorb", time |-> now + config.delay.absorb,
                        tokens |-> [q \in {p} |-> pos'[q].token]]
  <2>1. pos' = [pos EXCEPT ![p] = r] /\ Delayed("absorb", config.delay.absorb, {p})
    BY <1>1, <1>6
  <2>2. Valid(r) /\ r.status = "absorbing" /\ r.token = pos[p].token + 1
    <3>1. /\ pos[p] \in Record /\ pos[p].status = "empty" /\ WellFormed(pos[p])
          /\ pos[p].tag = None /\ pos[p].token + 1 \in Nat
      BY <1>2, <1>3, StatusFacts DEF Valid
    <3>2. /\ r \in Record /\ r.status = "absorbing" /\ r.token = pos[p].token + 1
          /\ r.stored = pos[p].stored /\ r.lastNoise = pos[p].lastNoise
          /\ r.expires = pos[p].expires /\ r.tag = pos[p].tag
      BY <3>1, StatusFacts DEF Awaiting, Record, Token
    <3>3. WellFormed(r)
      BY <3>1, <3>2, StatusFacts DEF WellFormed
    <3>. QED
      BY <3>1, <3>2, <3>3 DEF Valid
  <2>. HIDE DEF r
  <2>3. /\ pos'[p] = r /\ \A q \in Positions \ S : pos'[q] = pos[q]
        /\ pos' \in [Positions -> Record]
    BY <1>2, <1>3, <2>1, <2>2 DEF Valid
  <2>4. RecordsStep(S)
    BY <1>3, <2>2, <2>3 DEF RecordsStep, Advances
  <2>5. pending' = pending \cup {event} /\ UNCHANGED <<owned, told>>
    BY <2>1 DEF Delayed, NothingReported
  <2>6. p \notin owned /\ told[p] = None /\ told = [q \in Positions |-> told[q]]
        /\ owned \subseteq Positions
    BY <1>2, <1>4 DEF IInv, LabelsMatch
  <2>7. LabelsStep(S)
    BY <2>2, <2>3, <2>5, <2>6, StatusFacts DEF LabelsStep
  <2>8. Announces(event, S)
    <3>1. [q \in {p} |-> pos'[q].token] \in [{p} -> Nat] /\ now + config.delay.absorb \in Nat
      BY <1>3, <2>2, <2>3
    <3>2. IsEvent(event)
      BY <1>2, <3>1, NewEvent
    <3>. QED
      BY <1>3, <2>2, <2>3, <3>2 DEF Announces, BusyStatus
  <2>9. EventsStep(S, pending, {event})
    BY <1>4, <2>5, <2>8 DEF EventsStep
  <2>10. aborted' \in BOOLEAN
    BY <1>4 DEF IInv, EventsMatchPositions, TypeOK
  <2>. QED
    BY <1>2, <1>4, <2>4, <2>7, <2>9, <2>10, StepIInv
<1>. QED
  BY <1>5, <1>6

LEMMA EmitIInv ==
  ASSUME IInv, NEW p \in Positions, Emit(p)
  PROVE  IInv'
<1>1. Requested /\ UNCHANGED <<config, now, aborted>> /\ Occupied({p})
  BY DEF Emit, Requested
<1>2. NoCompletionAt({p}, pending) /\ Held({p}) /\ pos[p].status \in Holding
  BY <1>1, OccupiedFree DEF Held
<1>3. CASE config.delay.emit = 0
  BY <1>1, <1>2, <1>3, FinishEmitIInv DEF Emit
<1>4. CASE config.delay.emit # 0
  <2>1. pos' = [pos EXCEPT ![p] = Marked(@, "emitting")] /\ Delayed("emit", config.delay.emit, {p})
    BY <1>4 DEF Emit
  <2>2. pos \in [Positions -> Record] /\ config.delay.emit \in Nat
    BY ConfigFacts DEF IInv, EventsMatchPositions, TypeOK
  <2>3. /\ pos' = [q \in Positions |-> pos'[q]]
        /\ \A q \in Positions \ {p} : pos'[q] = pos[q]
        /\ pos'[p] = Marked(pos[p], "emitting")
    BY <2>1, <2>2
  <2>4. Keeps(pos[p], pos'[p]) /\ pos'[p].status = BusyStatus["emit"]
    BY <1>2, <2>3, KeepsFacts, StatusFacts DEF BusyStatus
  <2>5. \A q \in {p} : Keeps(pos[q], pos'[q]) /\ pos'[q].status = BusyStatus["emit"]
    BY <2>4
  <2>6. {p} \in SUBSET Positions /\ {p} # {} /\ "emit" \in {"emit", "operator", "measure", "destroy"}
    OBVIOUS
  <2>. QED
    BY <1>1, <2>1, <2>2, <2>3, <2>5, <2>6, DelayedIInv
<1>. QED
  BY <1>3, <1>4

(* The noise until now leaves occupants where they are.                    *)
LEMMA NoisedFacts ==
  ASSUME IInv, NEW S \in SUBSET Positions, Held(S), pos' = With(S, Noised)
  PROVE  /\ pos' = [p \in Positions |-> pos'[p]]
         /\ \A p \in Positions \ S : pos'[p] = pos[p]
         /\ \A p \in S : Keeps(pos[p], pos'[p])
  BY KeepsFacts DEF With, Held

LEMMA ApplyOperatorIInv ==
  ASSUME IInv, NEW S \in SUBSET Positions, S # {}, ApplyOperator(S)
  PROVE  IInv'
<1>1. Requested /\ UNCHANGED <<config, now, aborted>> /\ Occupied(S)
  BY DEF ApplyOperator, Requested
<1>2. NoCompletionAt(S, pending) /\ Held(S) /\ aborted' \in BOOLEAN
  BY <1>1, OccupiedFree DEF IInv, EventsMatchPositions, TypeOK
<1>3. CASE config.delay.operator = 0
  <2>1. pos' = With(S, Noised) /\ UNCHANGED <<pending, owned>> /\ told' = told
    BY <1>2, <1>3, OperatorHeard DEF ApplyOperator
  <2>. QED
    BY <1>1, <1>2, <2>1, NoisedFacts, KeepOnlyIInv
<1>4. CASE config.delay.operator # 0
  <2>. DEFINE busy(r) == Marked(Noised(r), "applying_operator")
  <2>1. /\ pos' = [p \in Positions |-> IF p \in S THEN busy(pos[p]) ELSE pos[p]]
        /\ Delayed("operator", config.delay.operator, S)
    BY <1>4 DEF ApplyOperator, With
  <2>2. \A p \in S : Keeps(pos[p], pos'[p]) /\ pos'[p].status = BusyStatus["operator"]
    BY <1>2, <2>1, KeepsFacts, StatusFacts DEF Held, BusyStatus
  <2>3. /\ pos' = [p \in Positions |-> pos'[p]] /\ \A p \in Positions \ S : pos'[p] = pos[p]
        /\ config.delay.operator \in Nat
    BY <2>1, ConfigFacts DEF IInv, EventsMatchPositions, TypeOK
  <2>. QED
    BY <1>1, <2>1, <2>2, <2>3, DelayedIInv
<1>. QED
  BY <1>3, <1>4

LEMMA MeasureIInv ==
  ASSUME IInv, NEW S \in SUBSET Positions, S # {}, NEW destructive \in BOOLEAN,
         Measure(S, destructive)
  PROVE  IInv'
<1>1. Requested /\ UNCHANGED <<config, now, aborted>> /\ Occupied(S)
  BY DEF Measure, Requested
<1>2. /\ NoCompletionAt(S, pending) /\ Held(S) /\ aborted' \in BOOLEAN
      /\ config.delay.measure \in Nat
  BY <1>1, OccupiedFree, ConfigFacts DEF IInv, EventsMatchPositions, TypeOK
<1>3. CASE config.delay.measure > 0
  <2>. DEFINE busy(r) == Marked(Noised(r), "measuring")
              kind == IF destructive THEN "destroy" ELSE "measure"
  <2>1. /\ pos' = [p \in Positions |-> IF p \in S THEN busy(pos[p]) ELSE pos[p]]
        /\ Delayed(kind, config.delay.measure, S)
    BY <1>3 DEF Measure, With
  <2>2. \A p \in S : Keeps(pos[p], pos'[p]) /\ pos'[p].status = BusyStatus[kind]
    BY <1>2, <2>1, KeepsFacts, StatusFacts DEF Held, BusyStatus
  <2>3. /\ pos' = [p \in Positions |-> pos'[p]] /\ \A p \in Positions \ S : pos'[p] = pos[p]
        /\ kind \in {"emit", "operator", "measure", "destroy"}
    BY <2>1
  <2>. QED
    BY <1>1, <1>2, <2>1, <2>2, <2>3, DelayedIInv
<1>4. CASE ~(config.delay.measure > 0) /\ destructive
  BY <1>1, <1>2, <1>4, FinishMeasurementIInv DEF Measure
<1>5. CASE ~(config.delay.measure > 0) /\ ~destructive
  <2>1. /\ pos' = With(S, Noised) /\ UNCHANGED <<pending, owned>>
        /\ StoreReport(MeasurementReport(S, {}))
    BY <1>5 DEF Measure
  <2>2. MeasurementReport(S, {}).cleared = {} /\ MeasurementReport(S, {}).tokens = Tokens(S)
    BY DEF MeasurementReport, Report
  <2>3. told' = told
    BY <1>2, <2>1, <2>2, HeardKnown
  <2>. QED
    BY <1>1, <1>2, <2>1, <2>3, NoisedFacts, KeepOnlyIInv
<1>. QED
  BY <1>3, <1>4, <1>5

LEMMA DiscardIInv ==
  ASSUME IInv, NEW p \in Positions, Discard(p) \/ ExpireRequest(p)
  PROVE  IInv'
<1>1. Requested /\ UNCHANGED <<config, now, aborted>> /\ Occupied({p})
  BY DEF Discard, ExpireRequest, Requested
<1>2. NoCompletionAt({p}, pending)
  BY <1>1, OccupiedFree
<1>3. /\ DiscardReport(p).cleared = {p} /\ DiscardReport(p).tokens = Tokens({p})
      /\ ExpireReport(p).cleared = {p} /\ ExpireReport(p).tokens = Tokens({p})
  BY DEF DiscardReport, ExpireReport, Report
<1>. QED
  BY <1>1, <1>2, <1>3, DiscardPositionIInv DEF Discard, ExpireRequest

LEMMA UpdateMetaIInv ==
  ASSUME IInv, NEW p \in Positions, NEW expected, UpdateMeta(p, expected, expected)
  PROVE  IInv'
<1>. DEFINE S == {q \in {p} : pos[q].status \in Holding}
<1>1. UNCHANGED <<config, now, aborted, pending, owned>> /\ aborted' \in BOOLEAN
  BY DEF UpdateMeta, Requested, IInv, EventsMatchPositions, TypeOK
<1>2. told' = told
  <2>1. \A done : /\ MetaUpdateReport(p, done).cleared = {}
                  /\ MetaUpdateReport(p, done).tokens = Tokens(S)
    BY DEF MetaUpdateReport, Report, Tokens
  <2>2. Held(S) /\ S \in SUBSET Positions
    BY DEF Held
  <2>3. \E done : StoreReport(MetaUpdateReport(p, done))
    BY DEF UpdateMeta
  <2>. QED
    BY <2>1, <2>2, <2>3, HeardKnown
<1>3. CASE pos[p].status = "occupied" /\ expected \in {None, pos[p].token}
  <2>1. pos' = [pos EXCEPT ![p] = [@ EXCEPT !.tag = expected]]
    BY <1>3 DEF UpdateMeta, UpdatePositionMeta, MergeMeta
  <2>2. pos \in [Positions -> Record] /\ Valid(pos[p]) /\ pos[p].token \in Nat
    BY RecordFacts DEF IInv, EventsMatchPositions, TypeOK
  <2>3. /\ pos' = [q \in Positions |-> pos'[q]]
        /\ \A q \in Positions \ {p} : pos'[q] = pos[q]
        /\ pos'[p] = [pos[p] EXCEPT !.tag = expected]
    BY <2>1, <2>2
  <2>4. \A q \in {p} : Keeps(pos[q], pos'[q])
    BY <1>3, <2>2, <2>3, StatusFacts DEF Keeps, Valid, WellFormed, Record, Token
  <2>5. Occupied({p})
    BY <1>3 DEF Occupied
  <2>6. NoCompletionAt({p}, pending) /\ Held({p})
    BY <2>5, OccupiedFree
  <2>. QED
    BY <1>1, <1>2, <2>3, <2>4, <2>6, KeepOnlyIInv
<1>4. CASE ~(pos[p].status = "occupied" /\ expected \in {None, pos[p].token})
  <2>1. pos' = pos
    BY <1>4 DEF UpdateMeta
  <2>. QED
    BY <1>1, <1>2, <2>1 DEF IInv, EventsMatchPositions, TypeOK, WellFormed, Current,
                            LabelsMatch, TokensReached, TagsMatch
<1>. QED
  BY <1>3, <1>4
AnyRequestFor(p) ==
  \/ Emit(p) \/ Discard(p) \/ ExpireRequest(p)
  \/ \E expected : UpdateMeta(p, expected, expected)

(* Every request there is, of an agent or of anybody.                      *)
RequestStep ==
  \/ \E requested \in Positions \cup {None} : Absorb(requested)
  \/ \E p \in Positions : AnyRequestFor(p)
  \/ \E S \in (SUBSET Positions) \ {{}} :
       ApplyOperator(S) \/ \E destructive \in BOOLEAN : Measure(S, destructive)

LEMMA RequestStepIInv == IInv /\ RequestStep => IInv'
  BY AbsorbIInv, EmitIInv, DiscardIInv, UpdateMetaIInv, ApplyOperatorIInv, MeasureIInv
  DEF RequestStep, AnyRequestFor

-----------------------------------------------------------------------------
(* The memory's own events, exceptions and time *)

LEMMA HandleIInv ==
  ASSUME IInv, NEW e \in pending, Handle(e)
  PROVE  IInv'
<1>. DEFINE S == DOMAIN e.tokens
            rest == pending \ {e}
<1>1. UNCHANGED <<config, now, aborted>> /\ rest \subseteq pending
  BY DEF Handle
<1>2. CASE SkipStale(e)
  <2>1. UNCHANGED <<pos, owned, told>> /\ pending' = rest
    BY <1>2 DEF SkipStale, NothingReported
  <2>. QED
    BY <1>1, <2>1 DEF IInv, EventsMatchPositions, TypeOK, WellFormed, Current, LabelsMatch,
                      TokensReached, TagsMatch
<1>3. CASE Current(e) /\ Finish(e, rest)
  <2>1. /\ NoCompletionAt(S, rest) /\ S \in SUBSET Positions /\ S # {}
        /\ e.kind # "absorb" => Held(S)
    BY <1>3, CurrentFree
  <2>2. IsEvent(e)
    BY DEF IInv, EventsMatchPositions, TypeOK
  <2>3. ASSUME NEW p \in S
        PROVE  p \in Positions /\ NoCompletionAt({p}, rest) /\ (e.kind # "absorb" => Held({p}))
    BY <2>1 DEF NoCompletionAt, Held
  <2>4. CASE FinishingAbsorb(e, rest)
    <3>1. PICK p \in S : FinishAbsorb(p, e.tokens[p], rest)
      BY <2>4 DEF FinishingAbsorb
    <3>2. e.kind = "absorb"
      BY <2>4 DEF FinishingAbsorb
    <3>3. /\ e.tokens[p] = pos[p].token /\ e.tokens[p] \in Nat /\ e.tokens[p] >= pos[p].token
          /\ pos[p].status \notin Holding
      BY <1>3, <2>2, <3>1, <3>2, EventFacts, StatusFacts DEF Current, BusyStatus
    <3>. QED
      BY <1>1, <2>3, <3>1, <3>3, FinishAbsorbIInv
  <2>5. CASE FinishingEmit(e, rest)
    <3>1. e.kind = "emit" /\ \E p \in S : FinishEmit(p, rest)
      BY <2>5 DEF FinishingEmit
    <3>. QED
      BY <1>1, <2>3, <3>1, FinishEmitIInv
  <2>6. CASE FinishingOperator(e, rest)
    <3>1. e.kind = "operator" /\ FinishOperator(S, rest)
      BY <2>6 DEF FinishingOperator
    <3>. QED
      BY <1>1, <2>1, <3>1, FinishOperatorIInv
  <2>7. CASE FinishingMeasure(e, rest)
    <3>1. e.kind # "absorb" /\ FinishMeasurement(S, e.kind = "destroy", rest)
      BY <2>7 DEF FinishingMeasure
    <3>2. (e.kind = "destroy") \in BOOLEAN
      OBVIOUS
    <3>. QED
      BY <1>1, <2>1, <3>1, <3>2, FinishMeasurementIInv
  <2>8. CASE Expiring(e, rest)
    <3>1. PICK p \in S : DiscardPosition(p, ExpireReport(p), rest)
      BY <2>8 DEF Expiring
    <3>2. ExpireReport(p).cleared = {p} /\ ExpireReport(p).tokens = Tokens({p})
      BY DEF ExpireReport, Report
    <3>. QED
      BY <1>1, <2>3, <3>1, <3>2, DiscardPositionIInv
  <2>. QED
    BY <1>3, <2>4, <2>5, <2>6, <2>7, <2>8 DEF Finish
<1>. QED
  BY <1>2, <1>3 DEF Handle

(* An exception loses events and changes no occupant.                      *)
LEMMA AbortingIInv ==
  ASSUME IInv, NEW S \in SUBSET Positions, Held(S), NEW rest, rest \subseteq pending,
         NoCompletionAt(S, rest), Aborting(rest), pos' = With(S, Noised)
  PROVE  IInv'
<1>1. /\ UNCHANGED <<config, now, owned, told>> /\ aborted' \in BOOLEAN
      /\ pending' \subseteq rest
  BY DEF Aborting, NothingReported
<1>2. pending' \subseteq pending /\ NoCompletionAt(S, pending')
  BY <1>1 DEF NoCompletionAt
<1>. QED
  BY <1>1, <1>2, NoisedFacts, KeepOnlyIInv

LEMMA RaisesIInv ==
  ASSUME IInv, OtherRaises \/ \E e \in pending : CompletionRaises(e)
  PROVE  IInv'
<1>1. CASE OtherRaises
  <2>1. PICK S \in SUBSET Positions : Occupied(S) /\ pos' = With(S, Noised) /\ Aborting(pending)
    BY <1>1 DEF OtherRaises
  <2>. QED
    BY <2>1, OccupiedFree, AbortingIInv
<1>2. ASSUME NEW e \in pending, CompletionRaises(e)
      PROVE  IInv'
  <2>. DEFINE rest == pending \ {e}
  <2>1. Current(e) /\ Aborting(rest) /\ rest \subseteq pending
    BY <1>2 DEF CompletionRaises
  <2>2. CASE e.kind = "emit"
    <3>1. pos' = With(DOMAIN e.tokens, Noised)
      BY <1>2, <2>2 DEF CompletionRaises
    <3>2. NoCompletionAt(DOMAIN e.tokens, rest) /\ DOMAIN e.tokens \in SUBSET Positions
          /\ Held(DOMAIN e.tokens)
      BY <2>1, <2>2, CurrentFree
    <3>. QED
      BY <2>1, <3>1, <3>2, AbortingIInv
  <2>3. CASE e.kind # "emit"
    <3>1. pos' = pos
      BY <1>2, <2>3 DEF CompletionRaises
    <3>2. pos = [p \in Positions |-> pos[p]]
      BY DEF IInv, EventsMatchPositions, TypeOK
    <3>3. pos' = With({}, Noised)
      BY <3>1, <3>2 DEF With
    <3>4. NoCompletionAt({}, rest) /\ Held({})
      BY DEF NoCompletionAt, Held
    <3>. QED
      BY <2>1, <3>3, <3>4, AbortingIInv
  <2>. QED
    BY <2>2, <2>3
<1>. QED
  BY <1>1, <1>2

LEMMA TickIInv == IInv /\ Tick => IInv'
<1>. SUFFICES ASSUME IInv, Tick PROVE IInv'
  OBVIOUS
<1>1. /\ now \in Nat /\ now' = now + 1
      /\ UNCHANGED <<config, pos, pending, owned, told, aborted>>
  BY DEF Tick, IInv, EventsMatchPositions, TypeOK
<1>2. \A e \in pending : e.time >= now'
  <2>. TAKE e \in pending
  <2>1. e.time \in Nat /\ e.time >= now /\ e.time # now
    BY EventFacts DEF Tick, Due, IInv, EventsMatchPositions, TypeOK
  <2>. QED
    BY <1>1, <2>1
<1>3. TypeOK'
  BY <1>1 DEF IInv, EventsMatchPositions, TypeOK, WellFormed
<1>4. EventsMatchPositions'
  BY <1>1, <1>2, <1>3 DEF IInv, EventsMatchPositions, Current
<1>. QED
  BY <1>1, <1>4 DEF IInv, LabelsMatch, TokensReached, TagsMatch

(* What touches neither the memory nor the clock.                          *)
Elsewhere == UNCHANGED <<config, now, pos, pending, owned, told>> /\ aborted' \in BOOLEAN

LEMMA ElsewhereIInv == IInv /\ Elsewhere => IInv'
  BY DEF Elsewhere, IInv, EventsMatchPositions, TypeOK, WellFormed, Current, LabelsMatch,
         TokensReached, TagsMatch

(* Every step of the memory, with an agent or with anybody.                *)
MemoryStep ==
  \/ Tick \/ RequestStep \/ Elsewhere
  \/ OtherRaises \/ \E e \in pending : Handle(e) \/ CompletionRaises(e)

LEMMA MemoryStepIInv == IInv /\ MemoryStep => IInv'
  BY TickIInv, RequestStepIInv, ElsewhereIInv, RaisesIInv, HandleIInv DEF MemoryStep

LEMMA InitIInv == Init => IInv
<1>. SUFFICES ASSUME Init PROVE IInv
  OBVIOUS
<1>1. \A p \in Positions : Valid(pos[p]) /\ pos[p].status \notin Holding
  BY VacantFacts DEF Init
<1>2. TypeOK
  <2>1. pos \in [Positions -> Record]
    BY <1>1 DEF Init, Valid
  <2>. QED
    BY <1>1, <2>1 DEF Init, TypeOK, Valid
<1>3. EventsMatchPositions /\ TokensReached
  BY <1>2 DEF Init, EventsMatchPositions, TokensReached
<1>4. LabelsMatch /\ TagsMatch
  BY <1>1 DEF Init, LabelsMatch, TagsMatch, Valid
<1>. QED
  BY <1>3, <1>4 DEF IInv

LEMMA NextIsMemoryStep == IInv /\ [Next]_vars => MemoryStep
<1>1. IInv /\ UNCHANGED vars => Elsewhere
  BY DEF vars, Elsewhere, IInv, EventsMatchPositions, TypeOK
<1>2. Next => MemoryStep
  BY DEF Next, Request, OwnEvent, MemoryStep, RequestStep, AnyRequestFor
<1>. QED
  BY <1>1, <1>2 DEF MemoryStep

LEMMA SpecIInv == Spec => []IInv
<1>1. IInv /\ [Next]_vars => IInv'
  BY NextIsMemoryStep, MemoryStepIInv
<1>. QED
  BY <1>1, InitIInv, PTL DEF Spec
-----------------------------------------------------------------------------
(* The agent of MemoryClient *)

(* A request that control/memory.py may have put on the timeline.          *)
Askable(r) ==
  /\ r.kind = "absorb" => r.at \subseteq Positions \cup {None}
  /\ r.kind # "absorb" => r.at \subseteq Positions
  /\ r.kind \in {"operator", "measure"} => r.at # {}
  /\ r.kind = "measure" => r.destructive \in BOOLEAN

AskedInv == \E Q : asked \in Seq(Q) /\ \A r \in Q : Askable(r)

LEMMA AskedAppend ==
  ASSUME AskedInv, NEW r, Askable(r), asked' = Append(asked, r)
  PROVE  AskedInv'
<1>1. PICK Q : asked \in Seq(Q) /\ \A q \in Q : Askable(q)
  BY DEF AskedInv
<1>2. asked' \in Seq(Q \cup {r})
  <2>1. asked \in Seq(Q \cup {r})
    BY <1>1
  <2>. QED
    BY <2>1
<1>3. \A q \in Q \cup {r} : Askable(q)'
  BY <1>1 DEF Askable
<1>. QED
  BY <1>2, <1>3 DEF AskedInv

LEMMA AskedTail ==
  ASSUME AskedInv, asked # <<>>
  PROVE  Askable(Head(asked)) /\ (asked' = Tail(asked) => AskedInv')
<1>1. PICK Q : asked \in Seq(Q) /\ \A q \in Q : Askable(q)
  BY DEF AskedInv
<1>2. Head(asked) \in Q /\ Tail(asked) \in Seq(Q)
  BY <1>1
<1>. QED
  BY <1>1, <1>2 DEF AskedInv, Askable

LEMMA AskAsked ==
  ASSUME AskedInv, Ask
  PROVE  AskedInv' /\ UNCHANGED vars
<1>1. ASSUME NEW r, Askable(r), Schedule(r)
      PROVE  AskedInv' /\ UNCHANGED vars
  BY <1>1, AskedAppend DEF Schedule
<1>2. ASSUME NEW p \in Positions \cup {None}, AskAbsorb(p)
      PROVE  AskedInv' /\ UNCHANGED vars
  <2>1. Askable(AbsorbRequest(p))
    BY DEF Askable, AbsorbRequest
  <2>. QED
    BY <1>1, <1>2, <2>1 DEF AskAbsorb
<1>3. ASSUME NEW p \in Positions, AskEmit(p) \/ AskDiscard(p) \/ AskUpdateMeta(p)
      PROVE  AskedInv' /\ UNCHANGED vars
  <2>1. Askable(EmitRequest(p)) /\ Askable(DiscardRequest(p))
        /\ Askable(UpdateMetaRequest(p, view[p].token))
    BY DEF Askable, EmitRequest, DiscardRequest, UpdateMetaRequest
  <2>. QED
    BY <1>1, <1>3, <2>1 DEF AskEmit, AskDiscard, AskUpdateMeta
<1>4. ASSUME NEW S \in SUBSET Positions, NEW destructive \in BOOLEAN,
             AskApply(S) \/ AskMeasure(S, destructive)
      PROVE  AskedInv' /\ UNCHANGED vars
  <2>1. Knows(S)
    BY <1>4 DEF AskApply, AskMeasure
  <2>2. Askable(ApplyOperatorRequest(S)) /\ Askable(MeasureRequest(S, destructive))
    BY <2>1 DEF Knows, Askable, ApplyOperatorRequest, MeasureRequest
  <2>. QED
    BY <1>1, <1>4, <2>2 DEF AskApply, AskMeasure
<1>. QED
  BY <1>2, <1>3, <1>4 DEF Ask

LEMMA ServeIsMemoryStep ==
  ASSUME IInv, AskedInv, ServeRequest
  PROVE  MemoryStep /\ AskedInv'
<1>. DEFINE r == Head(asked)
<1>1. asked # <<>> /\ asked' = Tail(asked) /\ Askable(r) /\ AskedInv'
  BY AskedTail DEF ServeRequest
<1>2. CASE HandleRequest(r)
  <2>1. CASE r.kind = "absorb" /\ \E p \in r.at : Absorb(p)
    BY <1>1, <2>1 DEF Askable, MemoryStep, RequestStep
  <2>2. CASE \/ r.kind = "emit" /\ \E p \in r.at : Emit(p)
             \/ r.kind = "discard" /\ \E p \in r.at : Discard(p)
             \/ r.kind = "meta" /\ \E p \in r.at : UpdateMeta(p, r.expected, r.expected)
    BY <1>1, <2>2 DEF Askable, MemoryStep, RequestStep, AnyRequestFor
  <2>3. CASE r.kind = "operator" /\ ApplyOperator(r.at)
    BY <1>1, <2>3 DEF Askable, MemoryStep, RequestStep
  <2>4. CASE r.kind = "measure" /\ Measure(r.at, r.destructive)
    BY <1>1, <2>4 DEF Askable, MemoryStep, RequestStep
  <2>. QED
    BY <1>2, <2>1, <2>2, <2>3, <2>4 DEF HandleRequest
<1>3. CASE Refuse
  <2>1. Elsewhere
    BY <1>3 DEF Refuse, Elsewhere
  <2>. QED
    BY <1>1, <2>1 DEF MemoryStep
<1>. QED
  BY <1>1, <1>2, <1>3 DEF ServeRequest

LEMMA ClientStep ==
  ASSUME IInv, AskedInv, [ClientNext]_<<vars, clientVars>>
  PROVE  MemoryStep /\ AskedInv'
<1>1. aborted \in BOOLEAN
  BY DEF IInv, EventsMatchPositions, TypeOK
<1>2. asked' = asked => AskedInv'
  BY DEF AskedInv, Askable
<1>3. CASE ClientTick
  BY <1>2, <1>3 DEF ClientTick, clientVars, MemoryStep
<1>4. CASE ClientOwnEvent
  BY <1>2, <1>4 DEF ClientOwnEvent, OwnEvent, clientVars, MemoryStep
<1>5. CASE AnyRequest
  BY <1>2, <1>5 DEF AnyRequest, Request, clientVars, MemoryStep, RequestStep, AnyRequestFor
<1>6. CASE Ask
  BY <1>1, <1>6, AskAsked DEF vars, MemoryStep, Elsewhere
<1>7. CASE ServeRequest
  BY <1>7, ServeIsMemoryStep
<1>8. CASE SignalArrives
  <2>1. Refuse \/ Absorb(None)
    BY <1>8 DEF SignalArrives
  <2>2. MemoryStep
    BY <2>1 DEF Refuse, MemoryStep, Elsewhere, RequestStep
  <2>. QED
    BY <1>2, <1>8, <2>2 DEF SignalArrives
<1>9. CASE ReadReport
  BY <1>1, <1>2, <1>9 DEF ReadReport, MemoryStep, Elsewhere
<1>10. CASE UNCHANGED <<vars, clientVars>>
  BY <1>1, <1>2, <1>10 DEF vars, clientVars, MemoryStep, Elsewhere
<1>. QED
  BY <1>3, <1>4, <1>5, <1>6, <1>7, <1>8, <1>9, <1>10 DEF ClientNext

LEMMA ClientInv == ClientSpec => [](IInv /\ AskedInv)
<1>1. ClientInit => IInv /\ AskedInv
  <2>. SUFFICES ASSUME ClientInit PROVE IInv /\ AskedInv
    OBVIOUS
  <2>1. asked \in Seq({})
    BY DEF ClientInit
  <2>2. AskedInv
    BY <2>1 DEF AskedInv
  <2>. QED
    BY <2>2, InitIInv DEF ClientInit
<1>2. IInv /\ AskedInv /\ [ClientNext]_<<vars, clientVars>> => (IInv /\ AskedInv)'
  BY ClientStep, MemoryStepIInv
<1>. QED
  BY <1>1, <1>2, PTL DEF ClientSpec

-----------------------------------------------------------------------------
(* Which events a step takes away *)

(* A request withdraws no event; only the handling of an expiry changes    *)
(* a status and takes an expiry away.                                      *)
LEMMA RequestKeepsEvents ==
  ASSUME RequestStep
  PROVE  pending \subseteq pending'
<1>1. ASSUME NEW requested \in Positions \cup {None}, Absorb(requested)
      PROVE  pending \subseteq pending'
  BY <1>1 DEF Absorb, FinishAbsorb, AbsorbFails, Delayed
<1>2. ASSUME NEW p \in Positions, AnyRequestFor(p)
      PROVE  pending \subseteq pending'
  BY <1>2 DEF AnyRequestFor, Emit, FinishEmit, EmitFails, Discard, ExpireRequest,
              DiscardPosition, UpdateMeta, Delayed
<1>3. ASSUME NEW S, ApplyOperator(S)
      PROVE  pending \subseteq pending'
  BY <1>3 DEF ApplyOperator, Delayed
<1>4. ASSUME NEW S, NEW destructive \in BOOLEAN, Measure(S, destructive)
      PROVE  pending \subseteq pending'
  BY <1>4 DEF Measure, FinishMeasurement, Delayed
<1>. QED
  BY <1>1, <1>2, <1>3, <1>4 DEF RequestStep

LEMMA NoisedStatus ==
  ASSUME NEW S \in SUBSET Positions, pos \in [Positions -> Record], pos' = With(S, Noised),
         NEW p \in Positions
  PROVE  pos'[p].status = pos[p].status
  BY DEF With, Noised, Record

LEMMA ExpiryTaken ==
  ASSUME IInv, MemoryStep, NEW p \in Positions, NEW e \in pending \ pending',
         e.kind = "expire", p \in DOMAIN e.tokens, pos'[p].status # pos[p].status
  PROVE  pos[p].expires = now /\ pos[p].token = e.tokens[p]
<1>1. pos \in [Positions -> Record]
  BY DEF IInv, EventsMatchPositions, TypeOK
<1>2. PICK d \in pending : Handle(d)
  <2>1. ~RequestStep /\ ~Tick /\ ~Elsewhere
    BY RequestKeepsEvents DEF Tick, Elsewhere
  <2>2. ~OtherRaises
    BY <1>1, NoisedStatus DEF OtherRaises
  <2>3. ASSUME NEW d \in pending, CompletionRaises(d)
        PROVE  FALSE
    <3>1. pos' = pos \/ pos' = With(DOMAIN d.tokens, Noised)
      BY <2>3 DEF CompletionRaises
    <3>2. DOMAIN d.tokens \in SUBSET Positions
      BY EventFacts DEF IInv, EventsMatchPositions, TypeOK
    <3>. QED
      BY <1>1, <3>1, <3>2, NoisedStatus
  <2>. QED
    BY <2>1, <2>2, <2>3 DEF MemoryStep
<1>3. e = d
  BY <1>2 DEF Handle, SkipStale, Finish, FinishingAbsorb, FinishAbsorb, AbsorbFails,
              FinishingEmit, FinishEmit, FinishingOperator, FinishOperator, FinishingMeasure,
              FinishMeasurement, Expiring, DiscardPosition
<1>4. Current(e) /\ e.time = now
  BY <1>2, <1>3 DEF Handle, SkipStale, Arrives, Due
<1>. QED
  BY <1>4 DEF Current, IInv, EventsMatchPositions

-----------------------------------------------------------------------------
(* What the agent knows, and what it has still to read.                    *)

About(p, r)  == p \in r.cleared \cup DOMAIN r.tokens
NewsOf(p)    == {i \in DOMAIN mail : About(p, mail[i])}

(* A report names positions with the tokens they had; an update of an      *)
(* entry clears none.                                                      *)
IsReport(r) ==
  /\ DOMAIN r.tokens \subseteq Positions /\ r.cleared \subseteq DOMAIN r.tokens
  /\ \A p \in DOMAIN r.tokens : r.tokens[p] \in Nat
  /\ r.kind = "meta" => r.cleared = {}

MailOfReports == \E Q : mail \in Seq(Q) /\ \A r \in Q : IsReport(r)

(* The last report about a position tells of its occupant; without one the *)
(* agent knows of it already.                                              *)
MailTells == \A p \in Positions :
  /\ view[p].is = "occupied" => view[p].token \in Nat
  /\ view[p].is = "occupied" /\ NewsOf(p) = {} => told[p] = view[p].token
  /\ \A i \in NewsOf(p) : (\A j \in NewsOf(p) : j <= i) =>
       told[p] = IF p \in mail[i].cleared THEN None ELSE mail[i].tokens[p]

NotesInv ==
  /\ view \in [Positions -> [is : {"empty", "awaited", "occupied", "asked"}, token : Int]]
  /\ MailOfReports
  /\ config.notices => MailTells

LEMMA MailAppend ==
  ASSUME MailOfReports, NEW r, IsReport(r), mail' = Append(mail, r)
  PROVE  /\ MailOfReports' /\ Len(mail) \in Nat /\ Len(mail) + 1 \in DOMAIN mail'
         /\ DOMAIN mail' = DOMAIN mail \cup {Len(mail) + 1}
         /\ mail'[Len(mail) + 1] = r
         /\ \A i \in DOMAIN mail : i \in Nat /\ i >= 1 /\ i <= Len(mail) /\ mail'[i] = mail[i]
         /\ \A p : NewsOf(p)' = IF About(p, r) THEN NewsOf(p) \cup {Len(mail) + 1} ELSE NewsOf(p)
<1>1. PICK Q : mail \in Seq(Q) /\ \A q \in Q : IsReport(q)
  BY DEF MailOfReports
<1>2. mail \in Seq(Q \cup {r}) /\ \A q \in Q \cup {r} : IsReport(q)
  BY <1>1
<1>3. mail' \in Seq(Q \cup {r})
  BY <1>2
<1>4. MailOfReports'
  BY <1>2, <1>3 DEF MailOfReports, IsReport
<1>5. /\ Len(mail) \in Nat /\ DOMAIN mail' = DOMAIN mail \cup {Len(mail) + 1}
      /\ mail'[Len(mail) + 1] = r
      /\ \A i \in DOMAIN mail : i \in Nat /\ i >= 1 /\ i <= Len(mail) /\ mail'[i] = mail[i]
  BY <1>1
<1>6. \A p : NewsOf(p)' = IF About(p, r) THEN NewsOf(p) \cup {Len(mail) + 1} ELSE NewsOf(p)
  <2>. TAKE p
  <2>1. ASSUME NEW i PROVE i \in NewsOf(p)' <=> i \in DOMAIN mail' /\ About(p, mail'[i])
    BY DEF NewsOf, About
  <2>2. ASSUME NEW i PROVE i \in NewsOf(p) <=> i \in DOMAIN mail /\ About(p, mail[i])
    BY DEF NewsOf
  <2>. QED
    BY <1>5, <2>1, <2>2
<1>. QED
  BY <1>4, <1>5, <1>6

LEMMA MailTail ==
  ASSUME MailOfReports, mail # <<>>, mail' = Tail(mail)
  PROVE  /\ MailOfReports' /\ 1 \in DOMAIN mail /\ Head(mail) = mail[1] /\ IsReport(mail[1])
         /\ \A i \in DOMAIN mail : i \in Nat /\ i >= 1
         /\ \A i \in DOMAIN mail' : i \in Nat /\ i >= 1 /\ i + 1 \in DOMAIN mail /\ mail'[i] = mail[i + 1]
         /\ \A i \in DOMAIN mail : i # 1 => i - 1 \in DOMAIN mail' /\ mail'[i - 1] = mail[i]
         /\ \A p, i : i \in NewsOf(p)' => i \in Nat /\ i >= 1 /\ i + 1 \in NewsOf(p)
         /\ \A p, i : i \in NewsOf(p) => i = 1 \/ i - 1 \in NewsOf(p)'
<1>1. PICK Q : mail \in Seq(Q) /\ \A q \in Q : IsReport(q)
  BY DEF MailOfReports
<1>2. mail' \in Seq(Q) /\ Len(mail) \in Nat \ {0} /\ DOMAIN mail = 1..Len(mail)
      /\ DOMAIN mail' = 1..(Len(mail) - 1) /\ Head(mail) = mail[1] /\ mail[1] \in Q
      /\ \A i \in DOMAIN mail' : mail'[i] = mail[i + 1]
  BY <1>1
<1>3. MailOfReports'
  BY <1>1, <1>2 DEF MailOfReports, IsReport
<1>4. /\ \A i \in DOMAIN mail : i \in Nat /\ i >= 1
      /\ \A i \in DOMAIN mail' : i \in Nat /\ i >= 1 /\ i + 1 \in DOMAIN mail /\ mail'[i] = mail[i + 1]
      /\ \A i \in DOMAIN mail : i # 1 => i - 1 \in DOMAIN mail' /\ mail'[i - 1] = mail[i]
  BY <1>2
<1>5. ASSUME NEW p, NEW i
      PROVE  /\ i \in NewsOf(p)' <=> i \in DOMAIN mail' /\ About(p, mail'[i])
             /\ i \in NewsOf(p) <=> i \in DOMAIN mail /\ About(p, mail[i])
  BY DEF NewsOf, About
<1>6. ASSUME NEW p, NEW i, i \in NewsOf(p)'
      PROVE  i \in Nat /\ i >= 1 /\ i + 1 \in NewsOf(p)
  BY <1>4, <1>5, <1>6
<1>7. ASSUME NEW p, NEW i, i \in NewsOf(p)
      PROVE  i = 1 \/ i - 1 \in NewsOf(p)'
  BY <1>4, <1>5, <1>7
<1>. QED
  BY <1>1, <1>2, <1>3, <1>4, <1>6, <1>7

LEMMA MailSame ==
  ASSUME mail' = mail
  PROVE  /\ \A p : NewsOf(p)' = NewsOf(p)
         /\ MailOfReports => MailOfReports'
  BY DEF NewsOf, About, MailOfReports, IsReport

(* A step of the memory reports once, or not at all.                       *)
LEMMA Reporting ==
  ASSUME IInv, RequestStep \/ \E e \in pending : Handle(e)
  PROVE  \/ UNCHANGED <<told, mail>>
         \/ \E r : IsReport(r) /\ StoreReport(r)
<1>1. ASSUME NEW S \in SUBSET Positions, NEW kind, NEW done, NEW cleared \in SUBSET S, kind # "meta"
      PROVE  IsReport(Report(kind, done, Tokens(S), cleared))
  <2>1. \A p \in S : pos[p].token \in Nat
    BY RecordFacts
  <2>. QED
    BY <1>1, <2>1 DEF IsReport, Report, Tokens
<1>2. ASSUME NEW p \in Positions, NEW token \in Nat, NEW rest, FinishAbsorb(p, token, rest)
      PROVE  \E r : IsReport(r) /\ StoreReport(r)
  <2>1. IsReport(AbsorbReport(p, token)) /\ IsReport(AbsorbFailedReport(p, token))
    BY DEF IsReport, AbsorbReport, AbsorbFailedReport, Report
  <2>. QED
    BY <1>2, <2>1 DEF FinishAbsorb, AbsorbFails
<1>3. ASSUME NEW p \in Positions, NEW rest, FinishEmit(p, rest)
      PROVE  \E r : IsReport(r) /\ StoreReport(r)
  <2>1. IsReport(EmitReport(p)) /\ IsReport(EmitFailedReport(p))
    BY <1>1 DEF EmitReport, EmitFailedReport
  <2>. QED
    BY <1>3, <2>1 DEF FinishEmit, EmitFails
<1>4. ASSUME NEW S \in SUBSET Positions
      PROVE  /\ IsReport(OperatorReport(S)) /\ IsReport(MeasurementReport(S, {}))
             /\ IsReport(MeasurementReport(S, S))
  BY <1>1 DEF OperatorReport, MeasurementReport
<1>5. ASSUME NEW p \in Positions
      PROVE  IsReport(DiscardReport(p)) /\ IsReport(ExpireReport(p))
  BY <1>1 DEF DiscardReport, ExpireReport
<1>6. ASSUME NEW p \in Positions, NEW done
      PROVE  IsReport(MetaUpdateReport(p, done))
  <2>1. pos[p].token \in Nat
    BY RecordFacts
  <2>. QED
    BY <2>1 DEF MetaUpdateReport, Tokens, IsReport, Report
<1>7. ASSUME NEW p \in Positions \cup {None}, Absorb(p)
      PROVE  UNCHANGED <<told, mail>> \/ \E r : IsReport(r) /\ StoreReport(r)
  <2>1. PICK q \in SelectAbsorbPosition(p) :
             IF config.delay.absorb = 0 THEN FinishAbsorb(q, pos[q].token + 1, pending)
             ELSE Delayed("absorb", config.delay.absorb, {q})
    BY <1>7 DEF Absorb
  <2>3. q \in Positions
    BY DEF SelectAbsorbPosition
  <2>4. pos[q].token + 1 \in Nat
    BY <2>3, RecordFacts
  <2>. QED
    BY <1>2, <2>1, <2>3, <2>4 DEF Delayed, NothingReported
<1>8. ASSUME NEW p \in Positions, AnyRequestFor(p)
      PROVE  UNCHANGED <<told, mail>> \/ \E r : IsReport(r) /\ StoreReport(r)
  BY <1>3, <1>5, <1>6, <1>8
  DEF AnyRequestFor, Emit, Discard, ExpireRequest, UpdateMeta, DiscardPosition, Delayed, NothingReported
<1>9. ASSUME NEW S \in SUBSET Positions, NEW destructive \in BOOLEAN,
             ApplyOperator(S) \/ Measure(S, destructive)
      PROVE  UNCHANGED <<told, mail>> \/ \E r : IsReport(r) /\ StoreReport(r)
  BY <1>4, <1>9 DEF ApplyOperator, Measure, FinishMeasurement, Delayed, NothingReported
<1>10. ASSUME NEW e \in pending, Handle(e)
       PROVE  UNCHANGED <<told, mail>> \/ \E r : IsReport(r) /\ StoreReport(r)
  <2>1. DOMAIN e.tokens \subseteq Positions /\ \A p \in DOMAIN e.tokens : e.tokens[p] \in Nat
    BY EventFacts DEF IInv, EventsMatchPositions, TypeOK
  <2>2. CASE SkipStale(e)
    BY <2>2 DEF SkipStale, NothingReported
  <2>3. CASE Finish(e, pending \ {e})
    BY <1>2, <1>3, <1>4, <1>5, <2>1, <2>3
    DEF Finish, FinishingAbsorb, FinishingEmit, FinishingOperator, FinishingMeasure, Expiring,
        FinishOperator, FinishMeasurement, DiscardPosition, NothingReported
  <2>. QED
    BY <1>10, <2>2, <2>3 DEF Handle
<1>. QED
  BY <1>7, <1>8, <1>9, <1>10 DEF RequestStep

LEMMA ReportTold ==
  ASSUME IInv, NotesInv, NEW r, IsReport(r), StoreReport(r), UNCHANGED <<config, view>>
  PROVE  NotesInv'
<1>1. CASE config.notices
  <2>. DEFINE n == Len(mail)
  <2>1. mail' = Append(mail, r) /\ told' = Heard(r)
    BY <1>1 DEF StoreReport
  <2>2. /\ MailOfReports' /\ n \in Nat
        /\ mail'[n + 1] = r
        /\ \A i \in DOMAIN mail : i \in Nat /\ i <= n /\ mail'[i] = mail[i]
        /\ \A p : NewsOf(p)' = IF About(p, r) THEN NewsOf(p) \cup {n + 1} ELSE NewsOf(p)
    BY <2>1, MailAppend DEF NotesInv
  <2>. HIDE DEF n
  <2>3. ASSUME NEW p \in Positions
        PROVE  told'[p] = IF p \in r.cleared THEN None
                          ELSE IF p \in DOMAIN r.tokens THEN r.tokens[p] ELSE told[p]
    BY <2>1 DEF Heard
  <2>4. MailTells
    BY <1>1 DEF NotesInv
  <2>5. ASSUME NEW p \in Positions, About(p, r)
        PROVE  /\ NewsOf(p)' # {}
               /\ \A i \in NewsOf(p)' : (\A j \in NewsOf(p)' : j <= i) =>
                    told'[p] = IF p \in mail'[i].cleared THEN None ELSE mail'[i].tokens[p]
    <3>1. NewsOf(p)' = NewsOf(p) \cup {n + 1}
      BY <2>2, <2>5
    <3>2. ASSUME NEW i \in NewsOf(p)', \A j \in NewsOf(p)' : j <= i
          PROVE  i = n + 1
      <4>1. i >= n + 1
        BY <2>2, <3>1, <3>2
      <4>. QED
        BY <2>2, <3>1, <4>1 DEF NewsOf
    <3>3. told'[p] = IF p \in r.cleared THEN None ELSE r.tokens[p]
      BY <2>3, <2>5 DEF About
    <3>. QED
      BY <2>2, <3>1, <3>2, <3>3
  <2>6. ASSUME NEW p \in Positions, ~About(p, r)
        PROVE  /\ NewsOf(p)' = NewsOf(p) /\ told'[p] = told[p]
               /\ \A i \in NewsOf(p) : mail'[i] = mail[i]
    BY <2>2, <2>3, <2>6 DEF About, NewsOf
  <2>7. MailTells'
    <3>. SUFFICES ASSUME NEW p \in Positions
                  PROVE  /\ view'[p].is = "occupied" => view'[p].token \in Nat
                         /\ view'[p].is = "occupied" /\ NewsOf(p)' = {} => told'[p] = view'[p].token
                         /\ \A i \in NewsOf(p)' : (\A j \in NewsOf(p)' : j <= i) =>
                              told'[p] = IF p \in mail'[i].cleared THEN None ELSE mail'[i].tokens[p]
      BY DEF MailTells
    <3>. view' = view
      OBVIOUS
    <3>1. CASE About(p, r)
      BY <2>4, <2>5, <3>1 DEF MailTells
    <3>2. CASE ~About(p, r)
      BY <2>4, <2>6, <3>2 DEF MailTells
    <3>. QED
      BY <3>1, <3>2
  <2>. QED
    BY <2>2, <2>7 DEF NotesInv
<1>2. CASE ~config.notices
  BY <1>2, MailSame DEF StoreReport, NotesInv
<1>. QED
  BY <1>1, <1>2

(* Asking makes a position's news count for less. *)
LEMMA AskedTold ==
  ASSUME NotesInv, UNCHANGED <<config, told, mail>>,
         view' \in [Positions -> [is : {"empty", "awaited", "occupied", "asked"}, token : Int]],
         \A p \in Positions : view'[p] = view[p] \/ view'[p].is # "occupied"
  PROVE  NotesInv'
<1>1. MailOfReports' /\ \A p : NewsOf(p)' = NewsOf(p)
  BY MailSame DEF NotesInv
<1>2. MailTells => MailTells'
  BY <1>1 DEF MailTells
<1>. QED
  BY <1>1, <1>2 DEF NotesInv

LEMMA ViewMarked ==
  ASSUME NotesInv, NEW S, Mark(S)
  PROVE  /\ view' \in [Positions -> [is : {"empty", "awaited", "occupied", "asked"}, token : Int]]
         /\ \A p \in Positions \ S : view'[p] = view[p]
         /\ \A p \in Positions \cap S : view'[p].is = "asked"
  BY DEF NotesInv, Mark, AskedOf

LEMMA ViewAwaited ==
  ASSUME NotesInv, NEW x, AskAbsorb(x)
  PROVE  /\ view' \in [Positions -> [is : {"empty", "awaited", "occupied", "asked"}, token : Int]]
         /\ \A p \in Positions : view'[p] = view[p] \/ (view[p].is = "empty" /\ view'[p].is = "awaited")
         /\ \A p \in Positions : view[p] = Empty /\ x \in {p, None} => view'[p].is = "awaited"
  BY DEF NotesInv, AskAbsorb, Awaited, Empty, None

LEMMA AskKeepsNotes ==
  ASSUME NotesInv, Ask
  PROVE  NotesInv'
<1>1. UNCHANGED <<config, told, mail>>
  BY DEF Ask, AskAbsorb, AskEmit, AskDiscard, AskUpdateMeta, AskApply, AskMeasure, Schedule, vars
<1>2. CASE \E x : AskAbsorb(x)
  BY <1>1, <1>2, ViewAwaited, AskedTold
<1>3. CASE \E S : Mark(S)
  BY <1>1, <1>3, ViewMarked, AskedTold
<1>4. CASE UNCHANGED view
  BY <1>1, <1>4, AskedTold DEF NotesInv
<1>. QED
  BY <1>2, <1>3, <1>4 DEF Ask, AskEmit, AskDiscard, AskUpdateMeta, AskApply, AskMeasure

LEMMA ViewLearned ==
  ASSUME NotesInv, NEW r, IsReport(r), view' = Learned(r)
  PROVE  /\ view' \in [Positions -> [is : {"empty", "awaited", "occupied", "asked"}, token : Int]]
         /\ \A p \in Positions :
              /\ p \in r.cleared => view'[p] = Empty
              /\ About(p, r) /\ p \notin r.cleared =>
                   \/ view'[p] = Known(r.tokens[p]) /\ r.tokens[p] \in Nat
                   \/ r.kind = "meta" /\ view[p].is = "asked" /\ view'[p] = view[p]
              /\ ~About(p, r) =>
                   \/ view'[p] = view[p] /\ ~(r.kind = "absorb" /\ view[p] = Awaited)
                   \/ r.kind = "absorb" /\ view[p] = Awaited /\ view'[p] = Empty
<1>1. ASSUME NEW p \in Positions
      PROVE  /\ view'[p] \in [is : {"empty", "awaited", "occupied", "asked"}, token : Int]
             /\ p \in r.cleared => view'[p] = Empty
             /\ About(p, r) /\ p \notin r.cleared =>
                  \/ view'[p] = Known(r.tokens[p]) /\ r.tokens[p] \in Nat
                  \/ r.kind = "meta" /\ view[p].is = "asked" /\ view'[p] = view[p]
             /\ ~About(p, r) =>
                  \/ view'[p] = view[p] /\ ~(r.kind = "absorb" /\ view[p] = Awaited)
                  \/ r.kind = "absorb" /\ view[p] = Awaited /\ view'[p] = Empty
  <2>1. view'[p] = IF p \in r.cleared THEN Empty
                   ELSE IF p \in DOMAIN r.tokens
                     THEN IF r.kind = "meta" /\ view[p].is = "asked" THEN view[p] ELSE Known(r.tokens[p])
                   ELSE IF r.kind = "absorb" /\ view[p] = Awaited THEN Empty ELSE view[p]
    BY DEF Learned
  <2>2. /\ Empty \in [is : {"empty", "awaited", "occupied", "asked"}, token : Int]
        /\ view[p] \in [is : {"empty", "awaited", "occupied", "asked"}, token : Int]
        /\ \A t \in Nat : Known(t) \in [is : {"empty", "awaited", "occupied", "asked"}, token : Int]
    BY DEF Empty, Known, None, NotesInv
  <2>3. p \in DOMAIN r.tokens => r.tokens[p] \in Nat
    BY DEF IsReport
  <2>. QED
    BY <2>1, <2>2, <2>3 DEF About
<1>. QED
  BY <1>1 DEF Learned

LEMMA ReadKeepsNotes ==
  ASSUME NotesInv, ReadReport
  PROVE  NotesInv'
<1>. DEFINE r == Head(mail)
<1>1. mail # <<>> /\ mail' = Tail(mail) /\ view' = Learned(r) /\ UNCHANGED <<config, told>>
  BY DEF ReadReport
<1>2. /\ MailOfReports' /\ 1 \in DOMAIN mail /\ r = mail[1] /\ IsReport(r)
      /\ \A i \in DOMAIN mail' : mail'[i] = mail[i + 1]
      /\ \A p, i : i \in NewsOf(p)' => i \in Nat /\ i >= 1 /\ i + 1 \in NewsOf(p)
      /\ \A p, i : i \in NewsOf(p) => i = 1 \/ i - 1 \in NewsOf(p)'
      /\ \A i \in DOMAIN mail : i \in Nat /\ i >= 1
  BY <1>1, MailTail DEF NotesInv
<1>. HIDE DEF r
<1>3. ASSUME MailTells
      PROVE  MailTells'
  <2>. SUFFICES ASSUME NEW p \in Positions
                PROVE  /\ view'[p].is = "occupied" => view'[p].token \in Nat
                       /\ view'[p].is = "occupied" /\ NewsOf(p)' = {} => told'[p] = view'[p].token
                       /\ \A i \in NewsOf(p)' : (\A j \in NewsOf(p)' : j <= i) =>
                            told'[p] = IF p \in mail'[i].cleared THEN None ELSE mail'[i].tokens[p]
    BY DEF MailTells
  <2>1. view'[p].is = "occupied" => view'[p].token \in Nat
    <3>1. \/ view'[p] = Empty \/ view'[p] = view[p]
          \/ view'[p] = Known(r.tokens[p]) /\ r.tokens[p] \in Nat
      BY <1>1, <1>2, ViewLearned
    <3>2. view[p].is = "occupied" => view[p].token \in Nat
      BY <1>3 DEF MailTells
    <3>. QED
      BY <3>1, <3>2 DEF Empty, Known
  <2>2. ASSUME view'[p].is = "occupied", NewsOf(p)' = {}
        PROVE  told[p] = view'[p].token
    <3>1. \A i \in NewsOf(p) : i = 1
      BY <1>2, <2>2
    <3>2. CASE About(p, r)
      <4>1. 1 \in NewsOf(p)
        BY <1>2, <3>2 DEF NewsOf
      <4>2. told[p] = IF p \in r.cleared THEN None ELSE r.tokens[p]
        BY <1>2, <1>3, <3>1, <4>1 DEF MailTells
      <4>3. p \notin r.cleared /\ view'[p] = Known(r.tokens[p])
        BY <1>1, <1>2, <2>2, <3>2, ViewLearned DEF Empty
      <4>. QED
        BY <4>2, <4>3 DEF Known
    <3>3. CASE ~About(p, r)
      <4>1. NewsOf(p) = {}
        BY <1>2, <3>1, <3>3 DEF NewsOf
      <4>2. view'[p] = view[p]
        BY <1>1, <1>2, <2>2, <3>3, ViewLearned DEF Empty
      <4>. QED
        BY <1>3, <2>2, <4>1, <4>2 DEF MailTells
    <3>. QED
      BY <3>2, <3>3
  <2>3. ASSUME NEW i \in NewsOf(p)', \A j \in NewsOf(p)' : j <= i
        PROVE  told[p] = IF p \in mail'[i].cleared THEN None ELSE mail'[i].tokens[p]
    <3>1. i \in Nat /\ i >= 1 /\ i + 1 \in NewsOf(p) /\ mail'[i] = mail[i + 1]
      BY <1>2 DEF NewsOf
    <3>2. \A j \in NewsOf(p) : j <= i + 1
      <4>. TAKE j \in NewsOf(p)
      <4>1. j \in Nat /\ (j = 1 \/ j - 1 <= i)
        BY <1>2, <2>3 DEF NewsOf
      <4>. QED
        BY <3>1, <4>1
    <3>. QED
      BY <1>3, <3>1, <3>2 DEF MailTells
  <2>. QED
    BY <1>1, <2>1, <2>2, <2>3
<1>4. view' \in [Positions -> [is : {"empty", "awaited", "occupied", "asked"}, token : Int]]
  BY <1>1, <1>2, ViewLearned
<1>. QED
  BY <1>1, <1>2, <1>3, <1>4 DEF NotesInv

LEMMA ClientKeepsNotes ==
  ASSUME IInv, AskedInv, NotesInv, [ClientNext]_<<vars, clientVars>>
  PROVE  NotesInv'
<1>1. ASSUME UNCHANGED <<told, mail, config, view>>
      PROVE  NotesInv'
  BY <1>1, AskedTold DEF NotesInv
<1>2. ASSUME RequestStep \/ \E e \in pending : Handle(e), UNCHANGED <<config, view>>
      PROVE  NotesInv'
  BY <1>1, <1>2, Reporting, ReportTold
<1>3. CASE ClientTick
  BY <1>1, <1>3 DEF ClientTick, Tick, clientVars
<1>4. CASE ClientOwnEvent
  BY <1>2, <1>4 DEF ClientOwnEvent, OwnEvent, clientVars, Handle
<1>5. CASE AnyRequest
  <2>1. UNCHANGED view
    BY <1>5 DEF AnyRequest, clientVars
  <2>2. CASE Request
    <3>1. RequestStep
      BY <2>2 DEF Request, RequestStep, AnyRequestFor
    <3>2. UNCHANGED config
      BY <2>2 DEF Request, Absorb, Emit, Discard, ExpireRequest, ApplyOperator, Measure, Requested
    <3>. QED
      BY <1>2, <2>1, <3>1, <3>2
  <2>3. CASE OtherRaises \/ \E e \in pending : CompletionRaises(e)
    BY <1>1, <2>1, <2>3 DEF OtherRaises, CompletionRaises, Aborting, NothingReported
  <2>. QED
    BY <1>5, <2>2, <2>3 DEF AnyRequest
<1>6. CASE Ask
  BY <1>6, AskKeepsNotes
<1>7. CASE ServeRequest
  <2>1. HandleRequest(Head(asked)) \/ Refuse
    BY <1>7 DEF ServeRequest
  <2>2. CASE Refuse
    BY <1>1, <1>7, <2>2 DEF Refuse, ServeRequest
  <2>3. CASE HandleRequest(Head(asked))
    <3>1. Askable(Head(asked))
      BY <1>7, AskedTail DEF ServeRequest
    <3>2. RequestStep
      BY <2>3, <3>1 DEF HandleRequest, RequestStep, AnyRequestFor, Askable
    <3>3. UNCHANGED config
      BY <2>3 DEF HandleRequest, Absorb, Emit, Discard, UpdateMeta, ApplyOperator, Measure, Requested
    <3>. QED
      BY <1>2, <1>7, <3>2, <3>3 DEF ServeRequest
  <2>. QED
    BY <2>1, <2>2, <2>3
<1>8. CASE SignalArrives
  <2>1. CASE Refuse
    BY <1>1, <1>8, <2>1 DEF Refuse, SignalArrives
  <2>2. CASE Absorb(None)
    BY <1>2, <1>8, <2>2 DEF Absorb, Requested, RequestStep, SignalArrives
  <2>. QED
    BY <1>8, <2>1, <2>2 DEF SignalArrives
<1>9. CASE ReadReport
  BY <1>9, ReadKeepsNotes
<1>10. CASE UNCHANGED <<vars, clientVars>>
  BY <1>1, <1>10 DEF vars, clientVars
<1>. QED
  BY <1>3, <1>4, <1>5, <1>6, <1>7, <1>8, <1>9, <1>10 DEF ClientNext

LEMMA ClientNotes == ClientSpec => []NotesInv
<1>1. ClientInit => NotesInv
  <2>. SUFFICES ASSUME ClientInit PROVE NotesInv
    OBVIOUS
  <2>1. mail = <<>> /\ mail \in Seq({})
    BY DEF ClientInit, Init
  <2>2. MailOfReports /\ \A p : NewsOf(p) = {}
    BY <2>1 DEF MailOfReports, NewsOf
  <2>3. \A p \in Positions : view[p] = Empty
    BY DEF ClientInit
  <2>4. view \in [Positions -> [is : {"empty", "awaited", "occupied", "asked"}, token : Int]]
    BY DEF ClientInit, Empty, None
  <2>. QED
    BY <2>2, <2>3, <2>4 DEF NotesInv, MailTells, Empty
<1>2. IInv /\ AskedInv /\ NotesInv /\ [ClientNext]_<<vars, clientVars>> => NotesInv'
  BY ClientKeepsNotes
<1>. QED
  BY <1>1, <1>2, ClientInv, PTL DEF ClientSpec

(* When the agent has read all reports it knows what is stored.            *)
LEMMA ReadIsKnown ==
  ASSUME IInv, NotesInv, config.notices, mail = <<>>, NEW p \in Positions, view[p].is = "occupied"
  PROVE  pos[p].token = view[p].token
<1>1. NewsOf(p) = {}
  BY DEF NewsOf
<1>2. told[p] = view[p].token /\ view[p].token \in Nat
  BY <1>1 DEF NotesInv, MailTells
<1>3. told[p] = IF p \in owned THEN pos[p].token ELSE None
  BY DEF IInv, LabelsMatch
<1>. QED
  BY <1>2, <1>3 DEF None
-----------------------------------------------------------------------------
(* An agent that is alone with a memory that forgets nothing               *)

Alone == config.notices /\ config.lifetime = None /\ config.recovery = 0 /\ ~arriving

(* After report i: no further report about p; only of entries.             *)
NoNews(p, i)      == \A k \in NewsOf(p) : k <= i
OnlyEntries(p, i) == \A k \in NewsOf(p) : k <= i \/ mail[k].kind = "meta"

(* What the agent may believe of p when it has read report i: p is free, or *)
(* it is being filled, or has been and the report of that comes first.      *)
Full(p, i) == pos[p].status = "occupied" /\ OnlyEntries(p, i)
Free(p, i) == pos[p].status \in {"empty", "absorbing"} /\ NoNews(p, i)
FreeAt(p, i) ==
  \/ Free(p, i)
  \/ \E k \in NewsOf(p) :
       /\ k > i /\ mail[k].kind = "absorb" /\ \A j \in NewsOf(p) : j <= i \/ k <= j
       /\ IF p \in mail[k].cleared THEN Free(p, k) ELSE Full(p, k)

(* An operation on p is to come or in progress, or its report is.          *)
Engaged(p) ==
  \/ pos[p].status \in Holding /\ OnlyEntries(p, 0)
  \/ \E k \in NewsOf(p) :
       /\ mail[k].kind \notin {"absorb", "meta"}
       /\ \A j \in NewsOf(p) : j >= k \/ mail[j].kind = "meta"
       /\ IF p \in mail[k].cleared THEN FreeAt(p, k) ELSE Full(p, k)

BeliefsHold == \A p \in Positions :
  /\ view[p].is \in {"empty", "awaited", "occupied", "asked"}
  /\ view[p].is \in {"empty", "awaited"} => FreeAt(p, 0)
  /\ view[p].is = "occupied" => Full(p, 0)
  /\ view[p].is = "asked" => Engaged(p)

Operation(r) == r.kind \notin {"absorb", "meta"}

(* Nothing comes between the question for an operation and its start.      *)
OperationsPossible ==
  /\ \A i \in DOMAIN asked : Operation(asked[i]) =>
       \A p \in asked[i].at :
         view[p].is = "asked" /\ pos[p].status = "occupied" /\ OnlyEntries(p, 0)
  /\ \A i, j \in DOMAIN asked :
       Operation(asked[i]) /\ Operation(asked[j]) /\ i # j => asked[i].at \cap asked[j].at = {}

(* There is at most one absorption, and while there is the agent waits.    *)
AbsorbAsked == {i \in DOMAIN asked : asked[i].kind = "absorb"}
Absorbing   == {p \in Positions : pos[p].status = "absorbing"}
AbsorbTold  == {i \in DOMAIN mail : mail[i].kind = "absorb"}

OneAbsorption ==
  /\ \A i, j \in AbsorbAsked : i = j
  /\ \A p, q \in Absorbing : p = q
  /\ \A i, j \in AbsorbTold : i = j
  /\ AbsorbAsked # {} => Absorbing = {} /\ AbsorbTold = {}
  /\ Absorbing # {} => AbsorbTold = {}
  /\ AbsorbAsked \cup Absorbing \cup AbsorbTold # {} => \E q \in Positions : view[q].is = "awaited"
  /\ \A i \in AbsorbAsked : \E x \in Positions \cup {None} :
       asked[i].at = {x} /\ (x # None => view[x].is = "awaited")

(* Of a memory that forgets nothing: no expiry is planned, and an empty     *)
(* position can be used at once.                                           *)
Steady ==
  /\ \A e \in pending : e.kind # "expire"
  /\ \A p \in Positions : pos[p].readyAt <= now

AloneInv ==
  Alone => Steady /\ BeliefsHold /\ OperationsPossible /\ OneAbsorption /\ ~aborted
-----------------------------------------------------------------------------
(* What a step of the memory does to the agent's beliefs *)

(* Nothing new about p.                                                    *)
PlaceStays(p) ==
  /\ NewsOf(p)' = NewsOf(p) /\ \A i \in NewsOf(p) : mail'[i] = mail[i]
  /\ pos'[p].status = pos[p].status

(* An operation or absorption at S that takes its time, and one that ends. *)
Begun(S, status) ==
  /\ mail' = mail
  /\ \A p \in S : pos'[p].status = status
  /\ \A p \in Positions \ S : pos'[p].status = pos[p].status

Ended(S, r) ==
  /\ mail' = Append(mail, r) /\ IsReport(r) /\ DOMAIN r.tokens = S
  /\ \A p \in S : pos'[p].status = IF p \in r.cleared THEN "empty" ELSE "occupied"
  /\ \A p \in Positions \ S : pos'[p].status = pos[p].status

LEMMA StaysFacts ==
  ASSUME NEW p, PlaceStays(p)
  PROVE  /\ \A i : FreeAt(p, i) => FreeAt(p, i)'
         /\ \A i : Full(p, i) => Full(p, i)'
         /\ Engaged(p) => Engaged(p)'
         /\ \A i : OnlyEntries(p, i) => OnlyEntries(p, i)'
<1>1. \A i : NoNews(p, i)' <=> NoNews(p, i)
  BY DEF PlaceStays, NoNews
<1>2. \A i : OnlyEntries(p, i)' <=> OnlyEntries(p, i)
  BY DEF PlaceStays, OnlyEntries
<1>3. \A i : (Full(p, i)' <=> Full(p, i)) /\ (Free(p, i)' <=> Free(p, i))
  BY <1>1, <1>2 DEF PlaceStays, Full, Free
<1>4. \A i : FreeAt(p, i) => FreeAt(p, i)'
  <2>. SUFFICES ASSUME NEW i, FreeAt(p, i) PROVE FreeAt(p, i)'
    OBVIOUS
  <2>1. CASE Free(p, i)
    BY <1>3, <2>1 DEF FreeAt
  <2>2. CASE ~Free(p, i)
    <3>1. PICK k \in NewsOf(p) :
            /\ k > i /\ mail[k].kind = "absorb" /\ \A j \in NewsOf(p) : j <= i \/ k <= j
            /\ IF p \in mail[k].cleared THEN Free(p, k) ELSE Full(p, k)
      BY <2>2 DEF FreeAt
    <3>2. /\ k \in NewsOf(p)' /\ mail'[k].kind = "absorb" /\ \A j \in NewsOf(p)' : j <= i \/ k <= j
          /\ IF p \in mail'[k].cleared THEN Free(p, k)' ELSE Full(p, k)'
      BY <1>3, <3>1 DEF PlaceStays
    <3>. QED
      BY <3>1, <3>2 DEF FreeAt
  <2>. QED
    BY <2>1, <2>2
<1>5. Engaged(p) => Engaged(p)'
  <2>. SUFFICES ASSUME Engaged(p) PROVE Engaged(p)'
    OBVIOUS
  <2>1. CASE pos[p].status \in Holding /\ OnlyEntries(p, 0)
    BY <1>2, <2>1 DEF Engaged, PlaceStays
  <2>2. CASE ~(pos[p].status \in Holding /\ OnlyEntries(p, 0))
    <3>1. PICK k \in NewsOf(p) :
            /\ mail[k].kind \notin {"absorb", "meta"}
            /\ \A j \in NewsOf(p) : j >= k \/ mail[j].kind = "meta"
            /\ IF p \in mail[k].cleared THEN FreeAt(p, k) ELSE Full(p, k)
      BY <2>2 DEF Engaged
    <3>2. /\ k \in NewsOf(p)' /\ mail'[k].kind \notin {"absorb", "meta"}
          /\ \A j \in NewsOf(p)' : j >= k \/ mail'[j].kind = "meta"
          /\ IF p \in mail'[k].cleared THEN FreeAt(p, k)' ELSE Full(p, k)'
      BY <1>3, <1>4, <3>1 DEF PlaceStays
    <3>. QED
      BY <3>2 DEF Engaged
  <2>. QED
    BY <2>1, <2>2
<1>. QED
  BY <1>2, <1>3, <1>4, <1>5

LEMMA ElsewhereStays ==
  ASSUME MailOfReports, NEW S, (\E status : Begun(S, status)) \/ \E r : Ended(S, r),
         NEW p \in Positions \ S
  PROVE  PlaceStays(p)
<1>1. CASE \E status : Begun(S, status)
  BY <1>1, MailSame DEF Begun, PlaceStays
<1>2. ASSUME NEW r, Ended(S, r)
      PROVE  PlaceStays(p)
  <2>1. ~About(p, r)
    BY <1>2 DEF Ended, About, IsReport
  <2>. QED
    BY <1>2, <2>1, MailAppend DEF Ended, PlaceStays, NewsOf
<1>. QED
  BY <1>1, <1>2

(* What is believed of p rests on p alone. *)
LEMMA BeliefsElsewhere ==
  ASSUME MailOfReports, BeliefsHold, UNCHANGED view, NEW S,
         (\E status : Begun(S, status)) \/ \E r : Ended(S, r),
         \A p \in Positions \cap S :
           /\ view[p].is \in {"empty", "awaited"} => FreeAt(p, 0)'
           /\ view[p].is = "occupied" => Full(p, 0)'
           /\ view[p].is = "asked" => Engaged(p)'
  PROVE  BeliefsHold'
<1>. SUFFICES ASSUME NEW p \in Positions
              PROVE  /\ view[p].is \in {"empty", "awaited", "occupied", "asked"}
                     /\ view[p].is \in {"empty", "awaited"} => FreeAt(p, 0)'
                     /\ view[p].is = "occupied" => Full(p, 0)'
                     /\ view[p].is = "asked" => Engaged(p)'
  BY DEF BeliefsHold
<1>1. CASE p \in S
  BY <1>1 DEF BeliefsHold
<1>2. CASE p \notin S
  BY <1>2, ElsewhereStays, StaysFacts DEF BeliefsHold
<1>. QED
  BY <1>1, <1>2

LEMMA OperationBelieved ==
  ASSUME MailOfReports, BeliefsHold, UNCHANGED view, NEW S \in SUBSET Positions,
         \A p \in S : view[p].is = "asked" /\ pos[p].status \in Holding /\ OnlyEntries(p, 0),
         (\E status \in Holding : Begun(S, status)) \/ \E r : Operation(r) /\ Ended(S, r)
  PROVE  BeliefsHold'
<1>1. ASSUME NEW p \in S
      PROVE  Engaged(p)'
  <2>1. CASE \E status \in Holding : Begun(S, status)
    <3>1. NewsOf(p)' = NewsOf(p) /\ mail' = mail /\ pos'[p].status \in Holding
      BY <2>1, MailSame DEF Begun
    <3>2. OnlyEntries(p, 0)'
      BY <3>1 DEF OnlyEntries
    <3>. QED
      BY <3>1, <3>2 DEF Engaged
  <2>2. ASSUME NEW r, Operation(r), Ended(S, r)
        PROVE  Engaged(p)'
    <3>1. PICK n \in Nat :
            /\ mail'[n + 1] = r /\ NewsOf(p)' = NewsOf(p) \cup {n + 1}
            /\ \A i \in NewsOf(p) : i \in Nat /\ i >= 1 /\ i <= n /\ mail'[i] = mail[i]
      BY <2>2, MailAppend DEF Ended, About, NewsOf
    <3>2. \A j \in NewsOf(p)' : j \in Nat /\ j <= n + 1
      BY <3>1
    <3>3. \A j \in NewsOf(p)' : j >= n + 1 \/ mail'[j].kind = "meta"
      BY <3>1 DEF OnlyEntries
    <3>4. CASE p \in r.cleared
      <4>1. Free(p, n + 1)'
        BY <2>2, <3>1, <3>2, <3>4 DEF Ended, Free, NoNews
      <4>. QED
        BY <2>2, <3>1, <3>3, <3>4, <4>1 DEF Engaged, FreeAt, Operation
    <3>5. CASE p \notin r.cleared
      <4>1. Full(p, n + 1)'
        BY <2>2, <3>1, <3>2, <3>5 DEF Ended, Full, OnlyEntries
      <4>. QED
        BY <2>2, <3>1, <3>3, <3>5, <4>1 DEF Engaged, Operation
    <3>. QED
      BY <3>4, <3>5
  <2>. QED
    BY <2>1, <2>2
<1>. QED
  BY <1>1, BeliefsElsewhere

LEMMA AbsorptionBelieved ==
  ASSUME MailOfReports, BeliefsHold, UNCHANGED view, AbsorbTold = {}, NEW p \in Positions,
         \/ pos[p].status = "empty" /\ Begun({p}, "absorbing")
         \/ pos[p].status \in {"empty", "absorbing"} /\ \E r : r.kind = "absorb" /\ Ended({p}, r)
  PROVE  BeliefsHold'
<1>1. pos[p].status \in {"empty", "absorbing"}
  OBVIOUS
<1>2. \A i : FreeAt(p, i) => Free(p, i)
  BY DEF FreeAt, AbsorbTold, NewsOf
<1>3. ASSUME NEW i \in Nat, i = 0 \/ i \in NewsOf(p), Free(p, i)
      PROVE  FreeAt(p, i)'
  <2>1. CASE Begun({p}, "absorbing")
    <3>1. NewsOf(p)' = NewsOf(p) /\ pos'[p].status = "absorbing"
      BY <2>1, MailSame DEF Begun
    <3>. QED
      BY <1>3, <3>1 DEF FreeAt, Free, NoNews
  <2>2. ASSUME NEW r, r.kind = "absorb", Ended({p}, r)
        PROVE  FreeAt(p, i)'
    <3>1. PICK n \in Nat :
            /\ mail'[n + 1] = r /\ NewsOf(p)' = NewsOf(p) \cup {n + 1}
            /\ \A j \in NewsOf(p) : j \in Nat /\ j >= 1 /\ j <= n /\ mail'[j] = mail[j]
      BY <2>2, MailAppend DEF Ended, About, NewsOf
    <3>2. \A j \in NewsOf(p)' : j \in Nat /\ j <= n + 1
      BY <3>1
    <3>3. n + 1 > i /\ \A j \in NewsOf(p)' : j <= i \/ n + 1 <= j
      BY <1>3, <3>1 DEF Free, NoNews
    <3>4. IF p \in r.cleared THEN Free(p, n + 1)' ELSE Full(p, n + 1)'
      BY <2>2, <3>1, <3>2 DEF Ended, Free, NoNews, Full, OnlyEntries
    <3>. QED
      BY <2>2, <3>1, <3>3, <3>4 DEF FreeAt
  <2>. QED
    BY <2>1, <2>2
<1>4. ASSUME Engaged(p)
      PROVE  Engaged(p)'
  <2>1. PICK k \in NewsOf(p) :
          /\ mail[k].kind \notin {"absorb", "meta"}
          /\ \A j \in NewsOf(p) : j >= k \/ mail[j].kind = "meta"
          /\ p \in mail[k].cleared /\ FreeAt(p, k)
    BY <1>1, <1>4, StatusFacts DEF Engaged, Full
  <2>2. k \in Nat
    BY DEF NewsOf, MailOfReports
  <2>3. FreeAt(p, k)'
    BY <1>2, <1>3, <2>1, <2>2
  <2>4. /\ mail'[k] = mail[k] /\ k \in NewsOf(p)'
        /\ \A j \in NewsOf(p)' : j >= k \/ mail'[j].kind = "meta"
    <3>1. CASE mail' = mail
      BY <2>1, <3>1, MailSame
    <3>2. ASSUME NEW r, Ended({p}, r)
          PROVE  /\ mail'[k] = mail[k] /\ k \in NewsOf(p)'
                 /\ \A j \in NewsOf(p)' : j >= k \/ mail'[j].kind = "meta"
      <4>1. /\ Len(mail) \in Nat /\ NewsOf(p)' = NewsOf(p) \cup {Len(mail) + 1}
            /\ \A j \in NewsOf(p) : j \in Nat /\ j <= Len(mail) /\ mail'[j] = mail[j]
        BY <3>2, MailAppend DEF Ended, About, NewsOf
      <4>. QED
        BY <2>1, <4>1
    <3>. QED
      BY <3>1, <3>2 DEF Begun
  <2>. QED
    BY <2>1, <2>3, <2>4 DEF Engaged
<1>5. /\ view[p].is \in {"empty", "awaited"} => FreeAt(p, 0)'
      /\ view[p].is = "occupied" => Full(p, 0)'
      /\ view[p].is = "asked" => Engaged(p)'
  BY <1>1, <1>2, <1>3, <1>4 DEF BeliefsHold, Full
<1>6. (\E status : Begun({p}, status)) \/ \E r : Ended({p}, r)
  OBVIOUS
<1>. QED
  BY <1>5, <1>6, BeliefsElsewhere

(* The report of an entry changes no belief.                               *)
LEMMA EntryBelieved ==
  ASSUME MailOfReports, BeliefsHold, UNCHANGED view, NEW r, r.kind = "meta", IsReport(r),
         mail' = Append(mail, r), \A p \in DOMAIN r.tokens : pos[p].status \in Holding,
         \A p \in Positions : pos'[p].status = pos[p].status
  PROVE  /\ BeliefsHold'
         /\ \A p \in Positions : OnlyEntries(p, 0) => OnlyEntries(p, 0)'
<1>1. PICK n \in Nat :
        /\ mail'[n + 1] = r
        /\ \A p : NewsOf(p)' = IF About(p, r) THEN NewsOf(p) \cup {n + 1} ELSE NewsOf(p)
        /\ \A j \in DOMAIN mail : j \in Nat /\ j <= n /\ mail'[j] = mail[j]
  BY MailAppend
<1>2. ASSUME NEW p \in Positions, ~About(p, r)
      PROVE  PlaceStays(p)
  BY <1>1, <1>2 DEF PlaceStays, NewsOf
<1>3. ASSUME NEW p \in Positions, About(p, r)
      PROVE  /\ NewsOf(p)' = NewsOf(p) \cup {n + 1} /\ pos[p].status \in Holding
             /\ \A j \in NewsOf(p) : j \in Nat /\ j <= n /\ mail'[j] = mail[j]
             /\ \A i \in Nat : OnlyEntries(p, i) => OnlyEntries(p, i)'
             /\ \A i \in Nat : Full(p, i) => Full(p, i)'
  <2>1. /\ NewsOf(p)' = NewsOf(p) \cup {n + 1} /\ pos[p].status \in Holding
        /\ \A j \in NewsOf(p) : j \in Nat /\ j <= n /\ mail'[j] = mail[j]
    BY <1>1, <1>3 DEF About, IsReport, NewsOf
  <2>2. \A i \in Nat : OnlyEntries(p, i) => OnlyEntries(p, i)'
    BY <1>1, <2>1 DEF OnlyEntries
  <2>. QED
    BY <2>1, <2>2 DEF Full
<1>4. ASSUME NEW p \in Positions, About(p, r), NEW i \in Nat, i <= n, FreeAt(p, i)
      PROVE  FreeAt(p, i)'
  <2>1. PICK k \in NewsOf(p) :
          /\ k > i /\ mail[k].kind = "absorb" /\ \A j \in NewsOf(p) : j <= i \/ k <= j
          /\ p \notin mail[k].cleared /\ Full(p, k)
    BY <1>3, <1>4, StatusFacts DEF FreeAt, Free
  <2>2. /\ k \in NewsOf(p)' /\ mail'[k].kind = "absorb" /\ p \notin mail'[k].cleared
        /\ \A j \in NewsOf(p)' : j <= i \/ k <= j
    <3>1. /\ NewsOf(p)' = NewsOf(p) \cup {n + 1}
          /\ \A j \in NewsOf(p) : j \in Nat /\ j <= n /\ mail'[j] = mail[j]
      BY <1>3, <1>4
    <3>2. k \in NewsOf(p)' /\ mail'[k] = mail[k] /\ k \in Nat /\ k <= n
      BY <3>1
    <3>3. \A j \in NewsOf(p)' : j <= i \/ k <= j
      <4>. TAKE j \in NewsOf(p)'
      <4>1. CASE j = n + 1
        BY <3>2, <4>1
      <4>2. CASE j \in NewsOf(p)
        BY <2>1, <4>2
      <4>. QED
        BY <3>1, <4>1, <4>2
    <3>. QED
      BY <2>1, <3>2, <3>3
  <2>3. Full(p, k)'
    BY <1>3, <1>4, <2>1
  <2>. QED
    BY <2>1, <2>2, <2>3 DEF FreeAt
<1>5. ASSUME NEW p \in Positions, About(p, r), Engaged(p)
      PROVE  Engaged(p)'
  <2>1. CASE pos[p].status \in Holding /\ OnlyEntries(p, 0)
    BY <1>3, <1>5, <2>1 DEF Engaged
  <2>2. CASE ~(pos[p].status \in Holding /\ OnlyEntries(p, 0))
    <3>1. PICK k \in NewsOf(p) :
            /\ mail[k].kind \notin {"absorb", "meta"}
            /\ \A j \in NewsOf(p) : j >= k \/ mail[j].kind = "meta"
            /\ IF p \in mail[k].cleared THEN FreeAt(p, k) ELSE Full(p, k)
      BY <1>5, <2>2 DEF Engaged
    <3>2. /\ k \in NewsOf(p)' /\ mail'[k] = mail[k] /\ k \in Nat /\ k <= n
          /\ \A j \in NewsOf(p)' : j >= k \/ mail'[j].kind = "meta"
      <4>1. /\ NewsOf(p)' = NewsOf(p) \cup {n + 1}
            /\ \A j \in NewsOf(p) : j \in Nat /\ j <= n /\ mail'[j] = mail[j]
        BY <1>3, <1>5
      <4>2. k \in NewsOf(p)' /\ mail'[k] = mail[k] /\ k \in Nat /\ k <= n
        BY <4>1
      <4>3. \A j \in NewsOf(p)' : j >= k \/ mail'[j].kind = "meta"
        <5>. TAKE j \in NewsOf(p)'
        <5>1. CASE j = n + 1
          BY <4>2, <5>1
        <5>2. CASE j \in NewsOf(p)
          BY <3>1, <4>1, <5>2
        <5>. QED
          BY <4>1, <5>1, <5>2
      <4>. QED
        BY <4>2, <4>3
    <3>3. IF p \in mail[k].cleared THEN FreeAt(p, k)' ELSE Full(p, k)'
      BY <1>3, <1>4, <1>5, <3>1, <3>2
    <3>. QED
      BY <3>1, <3>2, <3>3 DEF Engaged
  <2>. QED
    BY <2>1, <2>2
<1>6. \A p \in Positions : OnlyEntries(p, 0) => OnlyEntries(p, 0)'
  BY <1>2, <1>3, StaysFacts
<1>7. BeliefsHold'
  <2>. SUFFICES ASSUME NEW p \in Positions
                PROVE  /\ view[p].is \in {"empty", "awaited", "occupied", "asked"}
                       /\ view[p].is \in {"empty", "awaited"} => FreeAt(p, 0)'
                       /\ view[p].is = "occupied" => Full(p, 0)'
                       /\ view[p].is = "asked" => Engaged(p)'
    BY DEF BeliefsHold
  <2>1. CASE About(p, r)
    BY <1>1, <1>3, <1>4, <1>5, <2>1 DEF BeliefsHold
  <2>2. CASE ~About(p, r)
    BY <1>2, <2>2, StaysFacts DEF BeliefsHold
  <2>. QED
    BY <2>1, <2>2
<1>. QED
  BY <1>6, <1>7

(* What remains when a report has been read.                               *)
LEMMA MailShifts ==
  ASSUME MailOfReports, mail # <<>>, mail' = Tail(mail), UNCHANGED pos, NEW p \in Positions
  PROVE  /\ \A i \in Nat : OnlyEntries(p, i + 1) => OnlyEntries(p, i)'
         /\ \A i \in Nat : Full(p, i + 1) => Full(p, i)'
         /\ \A i \in Nat : FreeAt(p, i + 1) => FreeAt(p, i)'
<1>1. /\ \A i \in NewsOf(p)' : i \in Nat /\ i >= 1 /\ i + 1 \in NewsOf(p) /\ mail'[i] = mail[i + 1]
      /\ \A i \in NewsOf(p) : i \in Nat /\ i >= 1
      /\ \A i \in NewsOf(p) : i # 1 => i - 1 \in NewsOf(p)' /\ mail'[i - 1] = mail[i]
  BY MailTail DEF NewsOf
<1>2. ASSUME NEW i \in Nat
      PROVE  /\ OnlyEntries(p, i + 1) => OnlyEntries(p, i)'
             /\ NoNews(p, i + 1) => NoNews(p, i)'
  <2>1. ASSUME NEW k \in NewsOf(p)', k + 1 <= i + 1
        PROVE  k <= i
    BY <1>1, <2>1
  <2>2. OnlyEntries(p, i + 1) => OnlyEntries(p, i)'
    <3>. SUFFICES ASSUME OnlyEntries(p, i + 1), NEW k \in NewsOf(p)'
                  PROVE  k <= i \/ mail'[k].kind = "meta"
      BY DEF OnlyEntries
    <3>. QED
      BY <1>1, <2>1 DEF OnlyEntries
  <2>3. NoNews(p, i + 1) => NoNews(p, i)'
    BY <1>1, <2>1 DEF NoNews
  <2>. QED
    BY <2>2, <2>3
<1>3. ASSUME NEW i \in Nat
      PROVE  (Full(p, i + 1) => Full(p, i)') /\ (Free(p, i + 1) => Free(p, i)')
  BY <1>2 DEF Full, Free
<1>4. ASSUME NEW i \in Nat, FreeAt(p, i + 1)
      PROVE  FreeAt(p, i)'
  <2>1. CASE Free(p, i + 1)
    BY <1>3, <2>1 DEF FreeAt
  <2>2. CASE ~Free(p, i + 1)
    <3>1. PICK k \in NewsOf(p) :
            /\ k > i + 1 /\ mail[k].kind = "absorb" /\ \A j \in NewsOf(p) : j <= i + 1 \/ k <= j
            /\ IF p \in mail[k].cleared THEN Free(p, k) ELSE Full(p, k)
      BY <1>4, <2>2 DEF FreeAt
    <3>2. k \in Nat /\ k # 1 /\ k - 1 \in Nat /\ k - 1 > i /\ (k - 1) + 1 = k
      BY <1>1, <3>1
    <3>3. PICK l \in Nat : l = k - 1
      BY <3>2
    <3>4. l \in NewsOf(p)' /\ mail'[l] = mail[k] /\ l > i /\ k = l + 1
      BY <1>1, <3>2, <3>3
    <3>5. \A j \in NewsOf(p)' : j <= i \/ l <= j
      BY <1>1, <3>1, <3>4
    <3>6. IF p \in mail'[l].cleared THEN Free(p, l)' ELSE Full(p, l)'
      BY <1>3, <3>1, <3>4
    <3>. QED
      BY <3>1, <3>4, <3>5, <3>6 DEF FreeAt
  <2>. QED
    BY <2>1, <2>2
<1>. QED
  BY <1>2, <1>3, <1>4

(* A report that is not about p is as good as none.                        *)
LEMMA FirstIsElsewhere ==
  ASSUME MailOfReports, NEW p \in Positions, 1 \notin NewsOf(p)
  PROVE  /\ OnlyEntries(p, 0) => OnlyEntries(p, 1)
         /\ Full(p, 0) => Full(p, 1)
         /\ FreeAt(p, 0) => FreeAt(p, 1)
<1>1. \A i \in NewsOf(p) : i \in Nat /\ i >= 2
  BY DEF NewsOf, MailOfReports
<1>2. OnlyEntries(p, 0) => OnlyEntries(p, 1)
  BY <1>1 DEF OnlyEntries
<1>3. Free(p, 0) => Free(p, 1)
  BY <1>1 DEF Free, NoNews
<1>4. FreeAt(p, 0) => FreeAt(p, 1)
  BY <1>1, <1>3 DEF FreeAt
<1>. QED
  BY <1>2, <1>4 DEF Full

LEMMA ReportBelieved ==
  ASSUME NotesInv, BeliefsHold, ReadReport
  PROVE  BeliefsHold'
<1>. DEFINE r == mail[1]
<1>1. /\ mail # <<>> /\ mail' = Tail(mail) /\ view' = Learned(r) /\ UNCHANGED pos
      /\ IsReport(r) /\ 1 \in DOMAIN mail /\ MailOfReports
  BY MailTail DEF ReadReport, NotesInv
<1>2. \A i \in DOMAIN mail : i \in Nat /\ i >= 1
  BY <1>1, MailTail
<1>. SUFFICES ASSUME NEW p \in Positions
              PROVE  /\ view'[p].is \in {"empty", "awaited", "occupied", "asked"}
                     /\ view'[p].is \in {"empty", "awaited"} => FreeAt(p, 0)'
                     /\ view'[p].is = "occupied" => Full(p, 0)'
                     /\ view'[p].is = "asked" => Engaged(p)'
  BY DEF BeliefsHold
<1>3. view'[p] \in [is : {"empty", "awaited", "occupied", "asked"}, token : Int]
  BY <1>1, ViewLearned
<1>4. /\ OnlyEntries(p, 1) => OnlyEntries(p, 0)'
      /\ Full(p, 1) => Full(p, 0)'
      /\ FreeAt(p, 1) => FreeAt(p, 0)'
  <2>1. 0 \in Nat /\ 0 + 1 = 1
    OBVIOUS
  <2>. QED
    BY <1>1, <2>1, MailShifts
<1>5. ASSUME NEW k \in NewsOf(p), k # 1, mail[k].kind \notin {"absorb", "meta"},
             \A j \in NewsOf(p) : j >= k \/ mail[j].kind = "meta",
             IF p \in mail[k].cleared THEN FreeAt(p, k) ELSE Full(p, k)
      PROVE  Engaged(p)'
  <2>1. k \in Nat /\ k >= 2
    BY <1>2, <1>5 DEF NewsOf
  <2>2. PICK l \in Nat : l = k - 1
    BY <2>1
  <2>3. k = l + 1
    BY <2>1, <2>2
  <2>4. /\ l \in NewsOf(p)' /\ mail'[l] = mail[k]
        /\ \A j \in NewsOf(p)' : j \in Nat /\ j + 1 \in NewsOf(p) /\ mail'[j] = mail[j + 1]
    BY <1>1, <1>5, <2>2, MailTail DEF NewsOf
  <2>5. \A j \in NewsOf(p)' : j >= l \/ mail'[j].kind = "meta"
    BY <1>5, <2>3, <2>4
  <2>6. IF p \in mail'[l].cleared THEN FreeAt(p, l)' ELSE Full(p, l)'
    BY <1>1, <1>5, <2>3, <2>4, MailShifts
  <2>. QED
    BY <1>5, <2>4, <2>5, <2>6 DEF Engaged
<1>6. Engaged(p) => \/ pos[p].status \in Holding /\ OnlyEntries(p, 0)
                    \/ \E k \in NewsOf(p) :
                         /\ mail[k].kind \notin {"absorb", "meta"}
                         /\ \A j \in NewsOf(p) : j >= k \/ mail[j].kind = "meta"
                         /\ IF p \in mail[k].cleared THEN FreeAt(p, k) ELSE Full(p, k)
  BY DEF Engaged
<1>7. CASE ~About(p, r)
  <2>1. 1 \notin NewsOf(p)
    BY <1>7 DEF NewsOf
  <2>2. \/ view'[p] = view[p]
        \/ view[p] = Awaited /\ view'[p] = Empty
    BY <1>1, <1>7, ViewLearned
  <2>3. /\ FreeAt(p, 0) => FreeAt(p, 0)'
        /\ Full(p, 0) => Full(p, 0)'
        /\ OnlyEntries(p, 0) => OnlyEntries(p, 0)'
    BY <1>1, <1>4, <2>1, FirstIsElsewhere
  <2>4. Engaged(p) => Engaged(p)'
    <3>1. CASE pos[p].status \in Holding /\ OnlyEntries(p, 0)
      BY <1>1, <2>3, <3>1 DEF Engaged
    <3>. QED
      BY <1>5, <1>6, <2>1, <3>1
  <2>. QED
    BY <1>3, <2>2, <2>3, <2>4 DEF BeliefsHold, Awaited, Empty
<1>8. CASE About(p, r)
  <2>1. 1 \in NewsOf(p)
    BY <1>1, <1>8 DEF NewsOf
  <2>2. /\ p \in r.cleared => view'[p] = Empty
        /\ p \notin r.cleared =>
             \/ view'[p] = Known(r.tokens[p])
             \/ r.kind = "meta" /\ view[p].is = "asked" /\ view'[p] = view[p]
    BY <1>1, <1>8, ViewLearned
  <2>3. OnlyEntries(p, 0) => r.kind = "meta" /\ p \notin r.cleared /\ OnlyEntries(p, 1)
    BY <1>1, <1>2, <2>1 DEF OnlyEntries, IsReport, NewsOf
  <2>4. CASE view[p].is \in {"empty", "awaited"}
    <3>1. FreeAt(p, 0)
      BY <2>4 DEF BeliefsHold
    <3>2. ~NoNews(p, 0)
      BY <2>1 DEF NoNews
    <3>3. PICK k \in NewsOf(p) :
            /\ k > 0 /\ mail[k].kind = "absorb" /\ \A j \in NewsOf(p) : j <= 0 \/ k <= j
            /\ IF p \in mail[k].cleared THEN Free(p, k) ELSE Full(p, k)
      BY <3>1, <3>2 DEF FreeAt, Free
    <3>4. k = 1
      BY <1>2, <2>1, <3>3 DEF NewsOf
    <3>5. IF p \in r.cleared THEN FreeAt(p, 0)' ELSE Full(p, 0)'
      BY <1>4, <3>3, <3>4 DEF FreeAt
    <3>. QED
      BY <2>2, <2>4, <3>5 DEF Empty, Known
  <2>5. CASE view[p].is = "occupied"
    <3>1. Full(p, 0) /\ OnlyEntries(p, 0)
      BY <2>5 DEF BeliefsHold, Full
    <3>2. Full(p, 1) /\ p \notin r.cleared
      BY <2>3, <3>1 DEF Full
    <3>. QED
      BY <1>4, <2>2, <2>5, <3>2 DEF Known
  <2>6. CASE view[p].is = "asked"
    <3>1. Engaged(p)
      BY <2>6 DEF BeliefsHold
    <3>2. CASE pos[p].status \in Holding /\ OnlyEntries(p, 0)
      <4>1. Engaged(p)' /\ p \notin r.cleared
        BY <1>1, <1>4, <2>3, <3>2 DEF Engaged
      <4>2. view'[p] = view[p]
        BY <1>1, <1>8, <2>3, <2>6, <3>2 DEF Learned, About, IsReport
      <4>. QED
        BY <2>6, <4>1, <4>2
    <3>3. ASSUME NEW k \in NewsOf(p), mail[k].kind \notin {"absorb", "meta"},
                 \A j \in NewsOf(p) : j >= k \/ mail[j].kind = "meta",
                 IF p \in mail[k].cleared THEN FreeAt(p, k) ELSE Full(p, k)
          PROVE  /\ view'[p].is \in {"empty", "awaited"} => FreeAt(p, 0)'
                 /\ view'[p].is = "occupied" => Full(p, 0)'
                 /\ view'[p].is = "asked" => Engaged(p)'
      <4>1. CASE k = 1
        <5>1. IF p \in r.cleared THEN FreeAt(p, 0)' ELSE Full(p, 0)'
          BY <1>4, <3>3, <4>1
        <5>. QED
          BY <2>2, <3>3, <4>1, <5>1 DEF Empty, Known
      <4>2. CASE k # 1
        <5>1. Engaged(p)'
          BY <1>5, <3>3, <4>2
        <5>2. r.kind = "meta"
          BY <1>2, <2>1, <3>3, <4>2 DEF NewsOf
        <5>3. view'[p] = view[p]
          BY <1>1, <1>8, <2>6, <5>2 DEF Learned, About, IsReport
        <5>. QED
          BY <2>6, <5>1, <5>3
      <4>. QED
        BY <4>1, <4>2
    <3>. QED
      BY <1>3, <1>6, <3>1, <3>2, <3>3
  <2>. QED
    BY <1>3, <2>4, <2>5, <2>6 DEF BeliefsHold
<1>. QED
  BY <1>7, <1>8

-----------------------------------------------------------------------------
(* The agent asks *)

LEMMA AskedFacts ==
  ASSUME AskedInv
  PROVE  /\ \A i \in DOMAIN asked : i \in Nat /\ i >= 1 /\ Askable(asked[i])
         /\ \A r : asked' = Append(asked, r) =>
              /\ Len(asked) \in Nat /\ DOMAIN asked' = DOMAIN asked \cup {Len(asked) + 1}
              /\ asked'[Len(asked) + 1] = r
              /\ \A i \in DOMAIN asked : i <= Len(asked) /\ asked'[i] = asked[i]
         /\ asked # <<>> /\ asked' = Tail(asked) =>
              /\ 1 \in DOMAIN asked /\ Head(asked) = asked[1]
              /\ \A i \in DOMAIN asked' : i \in Nat /\ i >= 1 /\ i + 1 \in DOMAIN asked
                                          /\ asked'[i] = asked[i + 1]
<1>1. PICK Q : asked \in Seq(Q) /\ \A q \in Q : Askable(q)
  BY DEF AskedInv
<1>2. \A i \in DOMAIN asked : i \in Nat /\ i >= 1 /\ Askable(asked[i])
  BY <1>1
<1>3. ASSUME NEW r, asked' = Append(asked, r)
      PROVE  /\ Len(asked) \in Nat /\ DOMAIN asked' = DOMAIN asked \cup {Len(asked) + 1}
             /\ asked'[Len(asked) + 1] = r
             /\ \A i \in DOMAIN asked : i <= Len(asked) /\ asked'[i] = asked[i]
  BY <1>1, <1>3
<1>4. ASSUME asked # <<>>, asked' = Tail(asked)
      PROVE  /\ 1 \in DOMAIN asked /\ Head(asked) = asked[1]
             /\ \A i \in DOMAIN asked' : i \in Nat /\ i >= 1 /\ i + 1 \in DOMAIN asked
                                         /\ asked'[i] = asked[i + 1]
  BY <1>1, <1>4
<1>. QED
  BY <1>2, <1>3, <1>4

LEMMA OperationsLeft ==
  ASSUME AskedInv, OperationsPossible, asked' = asked \/ (asked # <<>> /\ asked' = Tail(asked)),
         \A i \in DOMAIN asked : Operation(asked[i]) /\ (asked' = asked \/ i > 1) =>
           \A p \in asked[i].at :
             view'[p].is = "asked" /\ pos'[p].status = "occupied" /\ OnlyEntries(p, 0)'
  PROVE  OperationsPossible'
<1>1. CASE asked' = asked
  BY <1>1 DEF OperationsPossible, Operation
<1>2. CASE asked # <<>> /\ asked' = Tail(asked)
  <2>1. \A i \in DOMAIN asked' : i \in Nat /\ i >= 1 /\ i + 1 \in DOMAIN asked /\ asked'[i] = asked[i + 1]
    BY <1>2, AskedFacts
  <2>2. \A i \in DOMAIN asked' : Operation(asked'[i]) =>
          \A p \in asked'[i].at :
            view'[p].is = "asked" /\ pos'[p].status = "occupied" /\ OnlyEntries(p, 0)'
    <3>. TAKE i \in DOMAIN asked'
    <3>1. i + 1 \in DOMAIN asked /\ asked'[i] = asked[i + 1] /\ i + 1 > 1
      BY <2>1
    <3>. QED
      BY <3>1
  <2>3. ASSUME NEW i \in DOMAIN asked', NEW j \in DOMAIN asked',
               Operation(asked'[i]), Operation(asked'[j]), i # j
        PROVE  asked'[i].at \cap asked'[j].at = {}
    <3>1. /\ i + 1 \in DOMAIN asked /\ asked'[i] = asked[i + 1]
          /\ j + 1 \in DOMAIN asked /\ asked'[j] = asked[j + 1] /\ i + 1 # j + 1
      BY <2>1, <2>3
    <3>. QED
      BY <2>3, <3>1 DEF OperationsPossible
  <2>. QED
    BY <2>2, <2>3 DEF OperationsPossible, Operation
<1>. QED
  BY <1>1, <1>2

LEMMA AbsorptionsStay ==
  ASSUME AskedInv, OneAbsorption, asked' = asked \/ (asked # <<>> /\ asked' = Tail(asked)),
         Absorbing' \subseteq Absorbing, AbsorbTold' \subseteq AbsorbTold, UNCHANGED view
  PROVE  OneAbsorption'
<1>1. \A i \in AbsorbAsked' : \E j \in AbsorbAsked : asked'[i] = asked[j] /\ i \in Nat
                                                    /\ IF asked' = asked THEN j = i ELSE j = i + 1
  <2>1. CASE asked' = asked
    BY <2>1, AskedFacts DEF AbsorbAsked
  <2>2. CASE asked' # asked
    <3>. TAKE i \in AbsorbAsked'
    <3>1. i \in DOMAIN asked' /\ asked'[i].kind = "absorb"
      BY DEF AbsorbAsked
    <3>2. i \in Nat /\ i + 1 \in DOMAIN asked /\ asked'[i] = asked[i + 1]
      BY <2>2, <3>1, AskedFacts
    <3>. QED
      BY <2>2, <3>1, <3>2 DEF AbsorbAsked
  <2>. QED
    BY <2>1, <2>2
<1>2. \A i, j \in AbsorbAsked' : i = j
  <2>. TAKE i, j \in AbsorbAsked'
  <2>1. PICK k \in AbsorbAsked : i \in Nat /\ IF asked' = asked THEN k = i ELSE k = i + 1
    BY <1>1
  <2>2. PICK l \in AbsorbAsked : j \in Nat /\ IF asked' = asked THEN l = j ELSE l = j + 1
    BY <1>1
  <2>3. k = l
    BY DEF OneAbsorption
  <2>. QED
    BY <2>1, <2>2, <2>3
<1>3. AbsorbAsked' # {} => AbsorbAsked # {}
  BY <1>1
<1>4. \A i \in AbsorbAsked' : \E x \in Positions \cup {None} :
        asked'[i].at = {x} /\ (x # None => view'[x].is = "awaited")
  <2>. TAKE i \in AbsorbAsked'
  <2>1. PICK j \in AbsorbAsked : asked'[i] = asked[j]
    BY <1>1
  <2>2. PICK x \in Positions \cup {None} : asked[j].at = {x} /\ (x # None => view[x].is = "awaited")
    BY DEF OneAbsorption
  <2>. QED
    BY <2>1, <2>2
<1>. QED
  BY <1>2, <1>3, <1>4 DEF OneAbsorption

LEMMA AbsorptionMoves ==
  ASSUME OneAbsorption, AbsorbAsked' = {}, \E q \in Positions : view'[q].is = "awaited",
         \/ AbsorbTold' = {} /\ \A p, q \in Absorbing' : p = q
         \/ Absorbing' = {} /\ \A i, j \in AbsorbTold' : i = j
  PROVE  OneAbsorption'
  BY DEF OneAbsorption

LEMMA AskSteady ==
  ASSUME AskedInv, NotesInv, BeliefsHold, OperationsPossible, OneAbsorption, Ask
  PROVE  BeliefsHold' /\ OperationsPossible' /\ OneAbsorption'
<1>1. UNCHANGED <<pos, mail>>
  BY DEF Ask, AskAbsorb, AskEmit, AskDiscard, AskUpdateMeta, AskApply, AskMeasure, Schedule, vars
<1>2. \A p : NewsOf(p)' = NewsOf(p)
  BY <1>1, MailSame
<1>3. \A p : PlaceStays(p)
  BY <1>1, <1>2 DEF PlaceStays
<1>4. Absorbing' = Absorbing /\ AbsorbTold' = AbsorbTold
  BY <1>1 DEF Absorbing, AbsorbTold
<1>5. ASSUME NEW r, r.kind # "absorb", asked' = Append(asked, r)
      PROVE  AbsorbAsked' = AbsorbAsked /\ \A i \in AbsorbAsked : asked'[i] = asked[i]
  BY <1>5, AskedFacts DEF AbsorbAsked
<1>6. ASSUME NEW S \in SUBSET Positions, Knows(S), NEW r, Operation(r), r.at = S, asked' = Append(asked, r), Mark(S)
      PROVE  BeliefsHold' /\ OperationsPossible' /\ OneAbsorption'
  <2>1. /\ \A p \in Positions \ S : view'[p] = view[p]
        /\ \A p \in S : view[p].is = "occupied" /\ view'[p].is = "asked"
    BY <1>6, ViewMarked DEF Knows
  <2>2. \A p \in S : Full(p, 0)' /\ Engaged(p)' /\ pos'[p].status = "occupied" /\ OnlyEntries(p, 0)'
    <3>. TAKE p \in S
    <3>1. Full(p, 0)
      BY <2>1 DEF BeliefsHold
    <3>2. Full(p, 0)'
      BY <1>3, <3>1, StaysFacts
    <3>. QED
      BY <3>2, StatusFacts DEF Full, Engaged
  <2>3. BeliefsHold'
    <3>. SUFFICES ASSUME NEW p \in Positions
                  PROVE  /\ view'[p].is \in {"empty", "awaited", "occupied", "asked"}
                         /\ view'[p].is \in {"empty", "awaited"} => FreeAt(p, 0)'
                         /\ view'[p].is = "occupied" => Full(p, 0)'
                         /\ view'[p].is = "asked" => Engaged(p)'
      BY DEF BeliefsHold
    <3>1. CASE p \in S
      BY <2>1, <2>2, <3>1
    <3>2. CASE p \notin S
      BY <1>3, <2>1, <3>2, StaysFacts DEF BeliefsHold
    <3>. QED
      BY <3>1, <3>2
  <2>4. PICK n \in Nat : /\ DOMAIN asked' = DOMAIN asked \cup {n + 1} /\ asked'[n + 1] = r
                         /\ \A i \in DOMAIN asked : asked'[i] = asked[i]
    BY <1>6, AskedFacts
  <2>5. ASSUME NEW i \in DOMAIN asked, Operation(asked[i])
        PROVE  /\ asked[i].at \cap S = {}
               /\ \A p \in asked[i].at :
                    view'[p].is = "asked" /\ pos'[p].status = "occupied" /\ OnlyEntries(p, 0)'
    <3>1. asked[i].at \subseteq Positions
      BY <2>5, AskedFacts DEF Askable, Operation
    <3>2. \A p \in asked[i].at : view[p].is = "asked" /\ pos[p].status = "occupied" /\ OnlyEntries(p, 0)
      BY <2>5 DEF OperationsPossible
    <3>3. asked[i].at \cap S = {}
      BY <2>1, <3>2
    <3>. QED
      BY <1>1, <1>3, <2>1, <3>1, <3>2, <3>3, StaysFacts
  <2>6. OperationsPossible'
    <3>1. \A i \in DOMAIN asked' : Operation(asked'[i]) =>
            \A p \in asked'[i].at :
              view'[p].is = "asked" /\ pos'[p].status = "occupied" /\ OnlyEntries(p, 0)'
      BY <1>6, <2>1, <2>2, <2>4, <2>5
    <3>2. \A i, j \in DOMAIN asked' :
            Operation(asked'[i]) /\ Operation(asked'[j]) /\ i # j => asked'[i].at \cap asked'[j].at = {}
      <4>. SUFFICES ASSUME NEW i \in DOMAIN asked', NEW j \in DOMAIN asked',
                           Operation(asked'[i]), Operation(asked'[j]), i # j
                    PROVE  asked'[i].at \cap asked'[j].at = {}
        OBVIOUS
      <4>1. CASE i = n + 1
        BY <1>6, <2>4, <2>5, <4>1
      <4>2. CASE j = n + 1
        BY <1>6, <2>4, <2>5, <4>2
      <4>3. CASE i \in DOMAIN asked /\ j \in DOMAIN asked
        BY <2>4, <4>3 DEF OperationsPossible
      <4>. QED
        BY <2>4, <4>1, <4>2, <4>3
    <3>. QED
      BY <3>1, <3>2 DEF OperationsPossible, Operation
  <2>7. OneAbsorption'
    <3>1. AbsorbAsked' = AbsorbAsked /\ \A i \in AbsorbAsked : asked'[i] = asked[i]
      BY <1>5, <1>6 DEF Operation
    <3>2. \A p \in Positions : view[p].is = "awaited" => view'[p].is = "awaited"
      BY <2>1
    <3>. QED
      BY <1>4, <3>1, <3>2 DEF OneAbsorption
  <2>. QED
    BY <2>3, <2>6, <2>7
<1>7. ASSUME NEW p \in Positions, AskUpdateMeta(p)
      PROVE  BeliefsHold' /\ OperationsPossible' /\ OneAbsorption'
  <2>. DEFINE r == UpdateMetaRequest(p, view[p].token)
  <2>1. asked' = Append(asked, r) /\ UNCHANGED view /\ r.kind = "meta"
    BY <1>7 DEF AskUpdateMeta, Schedule, UpdateMetaRequest
  <2>. HIDE DEF r
  <2>2. BeliefsHold'
    BY <1>3, <2>1, StaysFacts DEF BeliefsHold
  <2>3. PICK n \in Nat : /\ DOMAIN asked' = DOMAIN asked \cup {n + 1} /\ asked'[n + 1].kind = "meta"
                         /\ \A i \in DOMAIN asked : asked'[i] = asked[i]
    BY <2>1, AskedFacts
  <2>4. \A i \in DOMAIN asked' : Operation(asked'[i]) => i \in DOMAIN asked
    BY <2>3 DEF Operation
  <2>5. OperationsPossible'
    BY <1>1, <1>3, <2>1, <2>3, <2>4, StaysFacts DEF OperationsPossible, Operation
  <2>6. OneAbsorption'
    <3>1. AbsorbAsked' = AbsorbAsked /\ \A i \in AbsorbAsked : asked'[i] = asked[i]
      BY <1>5, <2>1
    <3>2. \A q \in Positions : view[q].is = "awaited" => view'[q].is = "awaited"
      BY <2>1
    <3>. QED
      BY <1>4, <3>1, <3>2 DEF OneAbsorption
  <2>. QED
    BY <2>2, <2>5, <2>6
<1>8. ASSUME NEW x \in Positions \cup {None}, AskAbsorb(x)
      PROVE  BeliefsHold' /\ OperationsPossible' /\ OneAbsorption'
  <2>1. /\ \A q \in Positions : view[q].is # "awaited"
        /\ \E q \in Positions : view[q] = Empty /\ x \in {q, None}
        /\ asked' = Append(asked, AbsorbRequest(x))
    BY <1>8 DEF AskAbsorb, Schedule
  <2>2. /\ \A p \in Positions : view'[p] = view[p] \/ (view[p].is = "empty" /\ view'[p].is = "awaited")
        /\ \A p \in Positions : view[p] = Empty /\ x \in {p, None} => view'[p].is = "awaited"
    BY <1>8, ViewAwaited
  <2>3. AbsorbAsked = {} /\ Absorbing = {} /\ AbsorbTold = {}
    BY <2>1 DEF OneAbsorption
  <2>4. BeliefsHold'
    <3>. SUFFICES ASSUME NEW p \in Positions
                  PROVE  /\ view'[p].is \in {"empty", "awaited", "occupied", "asked"}
                         /\ view'[p].is \in {"empty", "awaited"} => FreeAt(p, 0)'
                         /\ view'[p].is = "occupied" => Full(p, 0)'
                         /\ view'[p].is = "asked" => Engaged(p)'
      BY DEF BeliefsHold
    <3>. QED
      BY <1>3, <2>2, StaysFacts DEF BeliefsHold
  <2>5. PICK n \in Nat : /\ DOMAIN asked' = DOMAIN asked \cup {n + 1}
                         /\ asked'[n + 1].kind = "absorb" /\ asked'[n + 1].at = {x}
                         /\ \A i \in DOMAIN asked : asked'[i] = asked[i]
    BY <2>1, AskedFacts DEF AbsorbRequest
  <2>6. OperationsPossible'
    <3>1. \A i \in DOMAIN asked' : Operation(asked'[i]) => i \in DOMAIN asked /\ asked'[i] = asked[i]
      BY <2>5 DEF Operation
    <3>2. ASSUME NEW i \in DOMAIN asked, Operation(asked[i]), NEW p \in asked[i].at
          PROVE  view'[p].is = "asked" /\ pos'[p].status = "occupied" /\ OnlyEntries(p, 0)'
      <4>1. p \in Positions
        BY <3>2, AskedFacts DEF Askable, Operation
      <4>2. view[p].is = "asked" /\ pos[p].status = "occupied" /\ OnlyEntries(p, 0)
        BY <3>2 DEF OperationsPossible
      <4>. QED
        BY <1>1, <1>3, <2>2, <4>1, <4>2, StaysFacts
    <3>. QED
      BY <3>1, <3>2 DEF OperationsPossible, Operation
  <2>7. OneAbsorption'
    <3>1. AbsorbAsked' = {n + 1}
      BY <2>3, <2>5 DEF AbsorbAsked
    <3>2. \E q \in Positions : view'[q].is = "awaited"
      BY <2>1, <2>2
    <3>3. x # None => view'[x].is = "awaited"
      BY <2>1, <2>2
    <3>. QED
      BY <1>4, <2>3, <2>5, <3>1, <3>2, <3>3 DEF OneAbsorption
  <2>. QED
    BY <2>4, <2>6, <2>7
<1>9. ASSUME NEW p \in Positions, AskEmit(p) \/ AskDiscard(p)
      PROVE  BeliefsHold' /\ OperationsPossible' /\ OneAbsorption'
  <2>1. /\ Knows({p}) /\ Mark({p})
        /\ asked' = Append(asked, EmitRequest(p)) \/ asked' = Append(asked, DiscardRequest(p))
    BY <1>9 DEF AskEmit, AskDiscard, Schedule
  <2>2. /\ Operation(EmitRequest(p)) /\ EmitRequest(p).at = {p}
        /\ Operation(DiscardRequest(p)) /\ DiscardRequest(p).at = {p}
    BY DEF Operation, EmitRequest, DiscardRequest
  <2>. QED
    BY <1>6, <2>1, <2>2
<1>10. ASSUME NEW S \in SUBSET Positions, NEW destructive \in BOOLEAN,
              AskApply(S) \/ AskMeasure(S, destructive)
       PROVE  BeliefsHold' /\ OperationsPossible' /\ OneAbsorption'
  <2>1. /\ Knows(S) /\ Mark(S)
        /\ \/ asked' = Append(asked, ApplyOperatorRequest(S))
           \/ asked' = Append(asked, MeasureRequest(S, destructive))
    BY <1>10 DEF AskApply, AskMeasure, Schedule
  <2>2. /\ Operation(ApplyOperatorRequest(S)) /\ ApplyOperatorRequest(S).at = S
        /\ Operation(MeasureRequest(S, destructive)) /\ MeasureRequest(S, destructive).at = S
    BY DEF Operation, ApplyOperatorRequest, MeasureRequest
  <2>. QED
    BY <1>6, <2>1, <2>2
<1>. QED
  BY <1>7, <1>8, <1>9, <1>10 DEF Ask

(* Reading a report of an absorption ends the wait for it.                 *)
LEMMA ReadSteady ==
  ASSUME AskedInv, NotesInv, BeliefsHold, OperationsPossible, OneAbsorption, ReadReport
  PROVE  BeliefsHold' /\ OperationsPossible' /\ OneAbsorption'
<1>. DEFINE r == mail[1]
<1>1. /\ mail # <<>> /\ mail' = Tail(mail) /\ view' = Learned(r) /\ UNCHANGED <<pos, asked>>
      /\ IsReport(r) /\ 1 \in DOMAIN mail /\ MailOfReports
  BY MailTail DEF ReadReport, NotesInv
<1>2. /\ \A i \in DOMAIN mail : i \in Nat /\ i >= 1
      /\ \A i \in DOMAIN mail' : i \in Nat /\ i >= 1 /\ i + 1 \in DOMAIN mail /\ mail'[i] = mail[i + 1]
  BY <1>1, MailTail
<1>3. BeliefsHold'
  BY ReportBelieved
<1>4. OperationsPossible'
  <2>1. ASSUME NEW i \in DOMAIN asked, Operation(asked[i]), NEW p \in asked[i].at
        PROVE  view'[p].is = "asked" /\ pos'[p].status = "occupied" /\ OnlyEntries(p, 0)'
    <3>1. p \in Positions
      BY <2>1, AskedFacts DEF Askable, Operation
    <3>2. view[p].is = "asked" /\ pos[p].status = "occupied" /\ OnlyEntries(p, 0)
      BY <2>1 DEF OperationsPossible
    <3>3. OnlyEntries(p, 1)
      BY <1>2, <3>2 DEF OnlyEntries, NewsOf
    <3>4. OnlyEntries(p, 0)'
      <4>1. 0 \in Nat /\ 0 + 1 = 1
        OBVIOUS
      <4>. QED
        BY <1>1, <3>1, <3>3, <4>1, MailShifts
    <3>5. About(p, r) => r.kind = "meta" /\ p \notin r.cleared
      BY <1>1, <3>2 DEF OnlyEntries, NewsOf, IsReport
    <3>6. view'[p].is = "asked"
      <4>1. view'[p] = view[p]
        BY <1>1, <3>1, <3>2, <3>5 DEF Learned, About, Awaited
      <4>. QED
        BY <3>2, <4>1
    <3>. QED
      BY <1>1, <3>2, <3>4, <3>6
  <2>. QED
    BY <1>1, <2>1, OperationsLeft
<1>5. OneAbsorption'
  <2>1. AbsorbAsked' = AbsorbAsked /\ Absorbing' = Absorbing
    BY <1>1 DEF AbsorbAsked, Absorbing
  <2>2. \A i \in AbsorbTold' : i \in Nat /\ i >= 1 /\ i + 1 \in AbsorbTold
    BY <1>2 DEF AbsorbTold
  <2>3. \A i, j \in AbsorbTold' : i = j
    <3>. TAKE i, j \in AbsorbTold'
    <3>1. i + 1 = j + 1
      BY <2>2 DEF OneAbsorption
    <3>. QED
      BY <2>2, <3>1
  <2>4. CASE r.kind = "absorb"
    <3>1. AbsorbTold = {1}
      BY <1>1, <2>4 DEF AbsorbTold, OneAbsorption
    <3>2. AbsorbTold' = {} /\ AbsorbAsked = {} /\ Absorbing = {}
      BY <2>2, <3>1 DEF OneAbsorption
    <3>. QED
      BY <2>1, <3>2 DEF OneAbsorption
  <2>5. CASE r.kind # "absorb"
    <3>1. ASSUME NEW q \in Positions, view[q].is = "awaited"
          PROVE  view'[q] = view[q]
      <4>1. FreeAt(q, 0)
        BY <3>1 DEF BeliefsHold
      <4>2. ~About(q, r)
        <5>. SUFFICES ASSUME About(q, r) PROVE FALSE
          OBVIOUS
        <5>1. 1 \in NewsOf(q)
          BY <1>1 DEF NewsOf
        <5>2. ~Free(q, 0)
          BY <5>1 DEF Free, NoNews
        <5>3. PICK k \in NewsOf(q) : mail[k].kind = "absorb" /\ \A j \in NewsOf(q) : j <= 0 \/ k <= j
          BY <4>1, <5>2 DEF FreeAt
        <5>4. k = 1
          BY <1>2, <5>1, <5>3 DEF NewsOf
        <5>. QED
          BY <2>5, <5>3, <5>4
      <4>. QED
        BY <1>1, <2>5, <4>2 DEF Learned, About
    <3>2. AbsorbTold' # {} => AbsorbTold # {}
      BY <2>2
    <3>3. \A q \in Positions : view[q].is = "awaited" => view'[q].is = "awaited"
      BY <3>1
    <3>4. \A i \in AbsorbAsked : asked'[i] = asked[i]
      BY <1>1
    <3>. QED
      BY <2>1, <2>3, <3>2, <3>3, <3>4 DEF OneAbsorption
  <2>. QED
    BY <2>4, <2>5
<1>. QED
  BY <1>3, <1>4, <1>5

-----------------------------------------------------------------------------
(* The memory answers *)

(* What an operation does that the memory starts, or that has ended. *)
Works(S) ==
  \/ \E status \in Holding : Begun(S, status)
  \/ \E r : Operation(r) /\ Ended(S, r)

(* r is a report of an operation at S. *)
OfOperation(r, S) == Operation(r) /\ IsReport(r) /\ DOMAIN r.tokens = S

LEMMA OperationReports ==
  ASSUME IInv, NEW S \in SUBSET Positions
  PROVE  /\ OfOperation(OperatorReport(S), S) /\ OperatorReport(S).cleared = {}
         /\ \A cleared \in SUBSET S : /\ OfOperation(MeasurementReport(S, cleared), S)
                                     /\ MeasurementReport(S, cleared).cleared = cleared
         /\ \A p \in S : S = {p} =>
              /\ OfOperation(EmitReport(p), S) /\ EmitReport(p).cleared = S
              /\ OfOperation(EmitFailedReport(p), S) /\ EmitFailedReport(p).cleared = {}
              /\ OfOperation(DiscardReport(p), S) /\ DiscardReport(p).cleared = S
<1>1. \A p \in S : pos[p].token \in Nat
  BY RecordFacts
<1>. QED
  BY <1>1 DEF OfOperation, Operation, IsReport, Report, Tokens, OperatorReport, MeasurementReport,
              EmitReport, EmitFailedReport, DiscardReport

LEMMA StatusMarked ==
  ASSUME IInv, NEW p \in Positions
  PROVE  /\ \A status : Marked(pos[p], status).status = status
                        /\ Marked(pos[p], status).readyAt = pos[p].readyAt
         /\ \A status : Marked(Noised(pos[p]), status).status = status
                        /\ Marked(Noised(pos[p]), status).readyAt = pos[p].readyAt
         /\ Noised(pos[p]).status = pos[p].status /\ Noised(pos[p]).readyAt = pos[p].readyAt
         /\ Removed(pos[p]).status = "empty" /\ Removed(pos[p]).readyAt = now + config.recovery
         /\ Awaiting(pos[p]).status = "absorbing" /\ Awaiting(pos[p]).readyAt = pos[p].readyAt
<1>1. pos[p] \in Record
  BY RecordFacts DEF Valid
<1>. QED
  BY <1>1 DEF Marked, Noised, Removed, Vacant, Awaiting, Record

LEMMA StatusStored ==
  ASSUME NEW token \in Nat, NEW p \in Positions, NEW rest
  PROVE  /\ NewOccupant(token).status = "occupied" /\ NewOccupant(token).readyAt = now
         /\ Vacant(token, now).status = "empty" /\ Vacant(token, now).readyAt = now
         /\ config.lifetime = None => rest \cup ExpiryOf(p, token) = rest
  BY DEF NewOccupant, Vacant, ExpiryOf

(* An operation ends: at its start, or when its completion comes.          *)
LEMMA OperationEnds ==
  ASSUME IInv, Steady, config.notices, config.recovery = 0, now' = now,
         NEW S \in SUBSET Positions, NEW rest \in SUBSET pending,
         \/ \E p \in S : S = {p} /\ FinishEmit(p, rest)
         \/ FinishOperator(S, rest)
         \/ \E destructive \in BOOLEAN : FinishMeasurement(S, destructive, rest)
         \/ \E p \in S : S = {p} /\ DiscardPosition(p, DiscardReport(p), rest)
  PROVE  Works(S) /\ Steady'
<1>1. now \in Nat /\ now + config.recovery = now /\ pos \in [Positions -> Record]
  BY RecordFacts DEF IInv, EventsMatchPositions, TypeOK
<1>2. ASSUME NEW r, OfOperation(r, S), r.cleared \in {{}, S}, StoreReport(r),
             pending' = rest, \A p \in Positions \ S : pos'[p] = pos[p],
             \A p \in S : /\ pos'[p].status = IF r.cleared = S THEN "empty" ELSE "occupied"
                          /\ pos'[p].readyAt \in {now, pos[p].readyAt}
      PROVE  Works(S) /\ Steady'
  <2>1. Ended(S, r)
    BY <1>2 DEF Ended, StoreReport, OfOperation
  <2>2. \A p \in Positions : pos'[p].readyAt <= now
    BY <1>1, <1>2 DEF Steady
  <2>3. \A e \in pending' : e.kind # "expire"
    BY <1>2 DEF Steady
  <2>. QED
    BY <1>2, <2>1, <2>2, <2>3 DEF Works, Steady, OfOperation
<1>3. ASSUME NEW p \in S, S = {p}, FinishEmit(p, rest)
      PROVE  Works(S) /\ Steady'
  <2>1. CASE pos' = [pos EXCEPT ![p] = Removed(@)] /\ StoreReport(EmitReport(p))
    <3>1. OfOperation(EmitReport(p), S) /\ EmitReport(p).cleared = S
      BY <1>3, OperationReports
    <3>2. /\ pos'[p].status = "empty" /\ pos'[p].readyAt = now
          /\ \A q \in Positions \ S : pos'[q] = pos[q]
      BY <1>1, <1>3, <2>1, StatusMarked
    <3>. QED
      BY <1>2, <1>3, <2>1, <3>1, <3>2 DEF FinishEmit
  <2>2. CASE EmitFails(p)
    <3>1. OfOperation(EmitFailedReport(p), S) /\ EmitFailedReport(p).cleared = {}
      BY <1>3, OperationReports
    <3>2. /\ pos'[p].status = "occupied" /\ pos'[p].readyAt = pos[p].readyAt
          /\ \A q \in Positions \ S : pos'[q] = pos[q]
      BY <1>1, <1>3, <2>2, StatusMarked DEF EmitFails
    <3>. QED
      BY <1>2, <1>3, <2>2, <3>1, <3>2 DEF FinishEmit, EmitFails
  <2>. QED
    BY <1>3, <2>1, <2>2 DEF FinishEmit
<1>5. CASE FinishOperator(S, rest)
  <2>1. OfOperation(OperatorReport(S), S) /\ OperatorReport(S).cleared = {}
    BY OperationReports
  <2>2. /\ \A p \in S : pos'[p].status = "occupied" /\ pos'[p].readyAt = pos[p].readyAt
        /\ \A p \in Positions \ S : pos'[p] = pos[p]
    BY <1>5, StatusMarked DEF FinishOperator, With
  <2>. QED
    BY <1>2, <1>5, <2>1, <2>2 DEF FinishOperator
<1>6. ASSUME NEW destructive \in BOOLEAN, FinishMeasurement(S, destructive, rest)
      PROVE  Works(S) /\ Steady'
  <2>1. PICK cleared \in SUBSET S : cleared = IF destructive THEN S ELSE {}
    OBVIOUS
  <2>2. OfOperation(MeasurementReport(S, cleared), S) /\ MeasurementReport(S, cleared).cleared = cleared
    BY OperationReports
  <2>3. /\ \A p \in S : /\ pos'[p].status = IF destructive THEN "empty" ELSE "occupied"
                        /\ pos'[p].readyAt \in {now, pos[p].readyAt}
        /\ \A p \in Positions \ S : pos'[p] = pos[p]
    BY <1>1, <1>6, StatusMarked DEF FinishMeasurement, With
  <2>4. StoreReport(MeasurementReport(S, cleared)) /\ pending' = rest
    BY <1>6, <2>1 DEF FinishMeasurement
  <2>. QED
    BY <1>2, <1>6, <2>1, <2>2, <2>3, <2>4
<1>7. ASSUME NEW p \in S, S = {p}, DiscardPosition(p, DiscardReport(p), rest)
      PROVE  Works(S) /\ Steady'
  <2>1. OfOperation(DiscardReport(p), S) /\ DiscardReport(p).cleared = S
    BY <1>7, OperationReports
  <2>2. /\ pos'[p].status = "empty" /\ pos'[p].readyAt = now
        /\ \A q \in Positions \ S : pos'[q] = pos[q]
    BY <1>1, <1>7, StatusMarked DEF DiscardPosition, With
  <2>. QED
    BY <1>2, <1>7, <2>1, <2>2 DEF DiscardPosition
<1>. QED
  BY <1>3, <1>5, <1>6, <1>7

LEMMA AbsorptionEnds ==
  ASSUME IInv, Steady, config.notices, config.lifetime = None, now' = now,
         NEW p \in Positions, NEW token \in Nat, NEW rest \in SUBSET pending, FinishAbsorb(p, token, rest)
  PROVE  (\E r : r.kind = "absorb" /\ Ended({p}, r)) /\ Steady'
<1>1. now \in Nat /\ pos \in [Positions -> Record]
  BY DEF IInv, EventsMatchPositions, TypeOK
<1>2. ASSUME NEW r, IsReport(r), DOMAIN r.tokens = {p}, StoreReport(r), pending' = rest,
             \A q \in Positions \ {p} : pos'[q] = pos[q], pos'[p].readyAt = now,
             pos'[p].status = IF p \in r.cleared THEN "empty" ELSE "occupied"
      PROVE  Ended({p}, r) /\ Steady'
  <2>1. Ended({p}, r)
    BY <1>2 DEF Ended, StoreReport
  <2>2. \A q \in Positions : pos'[q].readyAt <= now
    BY <1>1, <1>2 DEF Steady
  <2>3. \A e \in pending' : e.kind # "expire"
    BY <1>2 DEF Steady
  <2>. QED
    BY <2>1, <2>2, <2>3 DEF Steady
<1>3. CASE pos' = [pos EXCEPT ![p] = NewOccupant(token)] /\ pending' = rest \cup ExpiryOf(p, token)
           /\ StoreReport(AbsorbReport(p, token))
  <2>1. /\ IsReport(AbsorbReport(p, token)) /\ DOMAIN AbsorbReport(p, token).tokens = {p}
        /\ AbsorbReport(p, token).cleared = {} /\ AbsorbReport(p, token).kind = "absorb"
    BY DEF AbsorbReport, Report, IsReport
  <2>2. /\ pos'[p].status = "occupied" /\ pos'[p].readyAt = now /\ pending' = rest
        /\ \A q \in Positions \ {p} : pos'[q] = pos[q]
    BY <1>1, <1>3, StatusStored
  <2>. QED
    BY <1>2, <1>3, <2>1, <2>2
<1>4. CASE AbsorbFails(p, token, rest)
  <2>1. /\ IsReport(AbsorbFailedReport(p, token)) /\ DOMAIN AbsorbFailedReport(p, token).tokens = {p}
        /\ AbsorbFailedReport(p, token).cleared = {p} /\ AbsorbFailedReport(p, token).kind = "absorb"
    BY DEF AbsorbFailedReport, Report, IsReport
  <2>2. /\ pos'[p].status = "empty" /\ pos'[p].readyAt = now
        /\ \A q \in Positions \ {p} : pos'[q] = pos[q]
    BY <1>1, <1>4, StatusStored DEF AbsorbFails
  <2>. QED
    BY <1>2, <1>4, <2>1, <2>2 DEF AbsorbFails
<1>. QED
  BY <1>3, <1>4 DEF FinishAbsorb

(* A request for an operation: at once, or with a completion to come.      *)
LEMMA OperationServed ==
  ASSUME IInv, Steady, config.notices, config.recovery = 0, NEW S \in SUBSET Positions, S # {},
         \/ \E p \in S : S = {p} /\ (Emit(p) \/ Discard(p))
         \/ ApplyOperator(S)
         \/ \E destructive \in BOOLEAN : Measure(S, destructive)
  PROVE  Works(S) /\ Steady'
<1>1. now' = now /\ Occupied(S) /\ now \in Nat /\ pos \in [Positions -> Record]
  BY DEF Emit, Discard, ApplyOperator, Measure, Requested, Occupied, IInv, EventsMatchPositions, TypeOK
<1>2. ASSUME NEW status \in Holding, NEW kind, kind # "expire", NEW ticks, Delayed(kind, ticks, S),
             \A p \in Positions \ S : pos'[p] = pos[p],
             \A p \in S : pos'[p].status = status /\ pos'[p].readyAt = pos[p].readyAt
      PROVE  Works(S) /\ Steady'
  <2>1. UNCHANGED config
    BY DEF Emit, Discard, ApplyOperator, Measure, Requested
  <2>2. Begun(S, status)
    BY <1>2 DEF Begun, Delayed, NothingReported
  <2>3. \A e \in pending' : e.kind # "expire"
    BY <1>2 DEF Delayed, Steady
  <2>4. \A p \in Positions : pos'[p].readyAt <= now'
    BY <1>1, <1>2 DEF Steady
  <2>. QED
    BY <2>2, <2>3, <2>4 DEF Works, Steady
<1>3. ASSUME NEW p \in S, S = {p}, Emit(p)
      PROVE  Works(S) /\ Steady'
  <2>1. CASE config.delay.emit = 0
    BY <1>1, <1>3, <2>1, OperationEnds DEF Emit
  <2>2. CASE config.delay.emit # 0
    <3>1. /\ pos'[p].status = "emitting" /\ pos'[p].readyAt = pos[p].readyAt
          /\ \A q \in Positions \ S : pos'[q] = pos[q]
      BY <1>1, <1>3, <2>2, StatusMarked DEF Emit
    <3>. QED
      BY <1>2, <1>3, <2>2, <3>1, StatusFacts DEF Emit
  <2>. QED
    BY <2>1, <2>2
<1>4. ASSUME NEW p \in S, S = {p}, Discard(p)
      PROVE  Works(S) /\ Steady'
  BY <1>1, <1>4, OperationEnds DEF Discard
<1>5. ASSUME NEW r, OfOperation(r, S), r.cleared = {}, StoreReport(r),
             pos' = With(S, Noised), pending' = pending
      PROVE  Works(S) /\ Steady'
  <2>1. \A p \in Positions : pos'[p].status = pos[p].status /\ pos'[p].readyAt = pos[p].readyAt
    BY <1>5, StatusMarked DEF With
  <2>2. Ended(S, r)
    BY <1>1, <1>5, <2>1 DEF Ended, StoreReport, Occupied, OfOperation
  <2>3. Steady'
    BY <1>1, <1>5, <2>1 DEF Steady
  <2>. QED
    BY <1>5, <2>2, <2>3 DEF Works, OfOperation
<1>6. CASE ApplyOperator(S)
  <2>1. CASE config.delay.operator = 0
    <3>1. OfOperation(OperatorReport(S), S) /\ OperatorReport(S).cleared = {}
      BY OperationReports
    <3>. QED
      BY <1>5, <1>6, <2>1, <3>1 DEF ApplyOperator
  <2>2. CASE config.delay.operator # 0
    <3>1. /\ \A p \in S : pos'[p].status = "applying_operator" /\ pos'[p].readyAt = pos[p].readyAt
          /\ \A q \in Positions \ S : pos'[q] = pos[q]
      <4>1. pos' = [p \in Positions |-> IF p \in S THEN Marked(Noised(pos[p]), "applying_operator") ELSE pos[p]]
        BY <1>6, <2>2 DEF ApplyOperator, With
      <4>. QED
        BY <4>1, StatusMarked
    <3>. QED
      BY <1>2, <1>6, <2>2, <3>1, StatusFacts DEF ApplyOperator
  <2>. QED
    BY <2>1, <2>2
<1>7. ASSUME NEW destructive \in BOOLEAN, Measure(S, destructive)
      PROVE  Works(S) /\ Steady'
  <2>1. CASE config.delay.measure > 0
    <3>1. /\ \A p \in S : pos'[p].status = "measuring" /\ pos'[p].readyAt = pos[p].readyAt
          /\ \A q \in Positions \ S : pos'[q] = pos[q]
      <4>1. pos' = [p \in Positions |-> IF p \in S THEN Marked(Noised(pos[p]), "measuring") ELSE pos[p]]
        BY <1>7, <2>1 DEF Measure, With
      <4>. QED
        BY <4>1, StatusMarked
    <3>2. \E kind \in {"destroy", "measure"} : Delayed(kind, config.delay.measure, S)
      BY <1>7, <2>1 DEF Measure
    <3>. QED
      BY <1>2, <3>1, <3>2, StatusFacts
  <2>2. CASE ~(config.delay.measure > 0) /\ destructive
    <3>1. FinishMeasurement(S, TRUE, pending)
      BY <1>7, <2>2 DEF Measure
    <3>. QED
      BY <1>1, <3>1, OperationEnds
  <2>3. CASE ~(config.delay.measure > 0) /\ ~destructive
    <3>1. OfOperation(MeasurementReport(S, {}), S) /\ MeasurementReport(S, {}).cleared = {}
      BY OperationReports
    <3>. QED
      BY <1>5, <1>7, <2>3, <3>1 DEF Measure
  <2>. QED
    BY <2>1, <2>2, <2>3
<1>. QED
  BY <1>3, <1>4, <1>6, <1>7

-----------------------------------------------------------------------------
(* The agent is alone with the memory *)

(* A busy position has been asked for. *)
LEMMA BusyIsAsked ==
  ASSUME BeliefsHold, NEW p \in Positions, pos[p].status \in Holding, pos[p].status # "occupied"
  PROVE  view[p].is = "asked" /\ OnlyEntries(p, 0)
<1>1. \A i : ~Full(p, i) /\ ~Free(p, i)
  BY StatusFacts DEF Full, Free
<1>2. \A i : ~FreeAt(p, i)
  BY <1>1 DEF FreeAt
<1>. QED
  BY <1>1, <1>2 DEF BeliefsHold, Engaged

LEMMA LeastPosition ==
  ASSUME NEW S \in SUBSET Positions, S # {}
  PROVE  \E p \in S : \A q \in S : p <= q
<1>1. S \subseteq Nat
  BY MemoryAssumption
<1>2. PICK p \in S : \A q \in S : <<q, p>> \notin OpToRel(<, Nat)
  BY <1>1, WFMin, NatLessThanWellFounded, Zenon
<1>3. \A q \in S : ~(q < p)
  BY <1>1, <1>2 DEF OpToRel
<1>. QED
  BY <1>1, <1>3

(* What is asked of others stays possible where nothing happens.           *)
LEMMA OperationsElsewhere ==
  ASSUME AskedInv, MailOfReports, OperationsPossible, UNCHANGED view, NEW S,
         (\E status : Begun(S, status)) \/ \E r : Ended(S, r),
         asked' = asked \/ (asked # <<>> /\ asked' = Tail(asked)),
         \A i \in DOMAIN asked : Operation(asked[i]) /\ (asked' = asked \/ i > 1) => asked[i].at \cap S = {}
  PROVE  OperationsPossible'
<1>1. ASSUME NEW i \in DOMAIN asked, Operation(asked[i]), asked' = asked \/ i > 1, NEW p \in asked[i].at
      PROVE  view'[p].is = "asked" /\ pos'[p].status = "occupied" /\ OnlyEntries(p, 0)'
  <2>1. p \in Positions \ S
    BY <1>1, AskedFacts DEF Askable, Operation
  <2>2. view[p].is = "asked" /\ pos[p].status = "occupied" /\ OnlyEntries(p, 0)
    BY <1>1 DEF OperationsPossible
  <2>3. PlaceStays(p)
    BY <2>1, ElsewhereStays
  <2>. QED
    BY <2>2, <2>3, StaysFacts DEF PlaceStays
<1>. QED
  BY <1>1, OperationsLeft

(* An operation neither starts nor ends an absorption. *)
LEMMA NoAbsorption ==
  ASSUME MailOfReports, NEW S \in SUBSET Positions, Works(S)
  PROVE  Absorbing' \subseteq Absorbing /\ AbsorbTold' \subseteq AbsorbTold
<1>1. ASSUME NEW status \in Holding, Begun(S, status)
      PROVE  Absorbing' \subseteq Absorbing /\ AbsorbTold' \subseteq AbsorbTold
  BY <1>1, StatusFacts DEF Begun, Absorbing, AbsorbTold
<1>2. ASSUME NEW r, Operation(r), Ended(S, r)
      PROVE  Absorbing' \subseteq Absorbing /\ AbsorbTold' \subseteq AbsorbTold
  <2>1. /\ DOMAIN mail' = DOMAIN mail \cup {Len(mail) + 1} /\ mail'[Len(mail) + 1] = r
        /\ \A i \in DOMAIN mail : mail'[i] = mail[i]
    BY <1>2, MailAppend DEF Ended
  <2>2. AbsorbTold' \subseteq AbsorbTold
    BY <1>2, <2>1 DEF AbsorbTold, Operation
  <2>3. Absorbing' \subseteq Absorbing
    BY <1>2 DEF Ended, Absorbing
  <2>. QED
    BY <2>2, <2>3
<1>. QED
  BY <1>1, <1>2 DEF Works

LEMMA OperationSteady ==
  ASSUME AskedInv, NotesInv, BeliefsHold, OperationsPossible, OneAbsorption, UNCHANGED view,
         NEW S \in SUBSET Positions, Works(S),
         \A p \in S : view[p].is = "asked" /\ pos[p].status \in Holding /\ OnlyEntries(p, 0),
         asked' = asked \/ (asked # <<>> /\ asked' = Tail(asked)),
         \A i \in DOMAIN asked : Operation(asked[i]) /\ (asked' = asked \/ i > 1) => asked[i].at \cap S = {}
  PROVE  BeliefsHold' /\ OperationsPossible' /\ OneAbsorption'
<1>1. MailOfReports
  BY DEF NotesInv
<1>2. BeliefsHold'
  BY <1>1, OperationBelieved DEF Works
<1>3. (\E status : Begun(S, status)) \/ \E r : Ended(S, r)
  BY DEF Works
<1>4. OperationsPossible'
  BY <1>1, <1>3, OperationsElsewhere
<1>5. Absorbing' \subseteq Absorbing /\ AbsorbTold' \subseteq AbsorbTold
  BY <1>1, NoAbsorption
<1>. QED
  BY <1>2, <1>4, <1>5, AbsorptionsStay

LEMMA AbsorptionSteady ==
  ASSUME AskedInv, NotesInv, BeliefsHold, OperationsPossible, OneAbsorption, UNCHANGED view,
         AbsorbTold = {}, NEW p \in Positions, Absorbing \subseteq {p}, AbsorbAsked' = {},
         asked' = asked \/ (asked # <<>> /\ asked' = Tail(asked)),
         \E q \in Positions : view[q].is = "awaited",
         \/ pos[p].status = "empty" /\ Begun({p}, "absorbing")
         \/ pos[p].status \in {"empty", "absorbing"} /\ \E r : r.kind = "absorb" /\ Ended({p}, r)
  PROVE  BeliefsHold' /\ OperationsPossible' /\ OneAbsorption'
<1>1. MailOfReports
  BY DEF NotesInv
<1>2. BeliefsHold'
  BY <1>1, AbsorptionBelieved
<1>3. \A i \in DOMAIN asked : Operation(asked[i]) => asked[i].at \cap {p} = {}
  BY DEF OperationsPossible
<1>4. (\E status : Begun({p}, status)) \/ \E r : Ended({p}, r)
  OBVIOUS
<1>5. OperationsPossible'
  BY <1>1, <1>3, <1>4, OperationsElsewhere
<1>6. CASE Begun({p}, "absorbing")
  <2>1. AbsorbTold' = {} /\ Absorbing' \subseteq {p}
    BY <1>6 DEF Begun, AbsorbTold, Absorbing
  <2>2. OneAbsorption'
    BY <2>1, AbsorptionMoves
  <2>. QED
    BY <1>2, <1>5, <2>2
<1>7. ASSUME NEW r, r.kind = "absorb", Ended({p}, r)
      PROVE  BeliefsHold' /\ OperationsPossible' /\ OneAbsorption'
  <2>1. Absorbing' = {}
    BY <1>7 DEF Ended, Absorbing
  <2>2. \A i \in AbsorbTold' : i = Len(mail) + 1
    BY <1>1, <1>7, MailAppend DEF Ended, AbsorbTold
  <2>3. OneAbsorption'
    BY <2>1, <2>2, AbsorptionMoves
  <2>. QED
    BY <1>2, <1>5, <2>3
<1>. QED
  BY <1>6, <1>7

LEMMA HandleSteady ==
  ASSUME IInv, AskedInv, NotesInv, Alone, Steady, BeliefsHold, OperationsPossible, OneAbsorption,
         NEW e \in pending, Handle(e), UNCHANGED <<asked, view>>
  PROVE  Steady' /\ BeliefsHold' /\ OperationsPossible' /\ OneAbsorption'
<1>. DEFINE rest == pending \ {e}
<1>1. e.kind # "expire" /\ Current(e)
  BY DEF Steady, IInv, EventsMatchPositions
<1>2. Finish(e, rest) /\ now' = now
  BY <1>1 DEF Handle, SkipStale
<1>3. IsEvent(e)
  BY DEF IInv, EventsMatchPositions, TypeOK
<1>4. rest \in SUBSET pending
  OBVIOUS
<1>. HIDE DEF rest
<1>5. /\ DOMAIN e.tokens \subseteq Positions /\ \A p \in DOMAIN e.tokens : e.tokens[p] \in Nat
      /\ e.kind \in {"absorb", "emit", "operator", "measure", "destroy"}
  BY <1>1, <1>3, EventFacts
<1>6. \A p \in DOMAIN e.tokens : pos[p].status = BusyStatus[e.kind]
  BY <1>1 DEF Current
<1>7. CASE FinishingAbsorb(e, rest)
  <2>1. PICK p \in DOMAIN e.tokens : FinishAbsorb(p, e.tokens[p], rest)
    BY <1>7 DEF FinishingAbsorb
  <2>2. p \in Positions /\ pos[p].status = "absorbing"
    BY <1>5, <1>6, <1>7 DEF FinishingAbsorb, BusyStatus
  <2>3. p \in Absorbing
    BY <2>2 DEF Absorbing
  <2>4. /\ AbsorbTold = {} /\ AbsorbAsked = {} /\ Absorbing \subseteq {p}
        /\ \E q \in Positions : view[q].is = "awaited"
    BY <2>3 DEF OneAbsorption
  <2>5. AbsorbAsked' = {}
    BY <2>4 DEF AbsorbAsked
  <2>6. (\E r : r.kind = "absorb" /\ Ended({p}, r)) /\ Steady'
    BY <1>2, <1>4, <1>5, <2>1, <2>2, AbsorptionEnds DEF Alone
  <2>. QED
    BY <2>2, <2>4, <2>5, <2>6, AbsorptionSteady
<1>8. ASSUME NEW S \in SUBSET DOMAIN e.tokens, e.kind # "absorb",
             \/ \E p \in S : S = {p} /\ FinishEmit(p, rest)
             \/ FinishOperator(S, rest)
             \/ \E destructive \in BOOLEAN : FinishMeasurement(S, destructive, rest)
      PROVE  Steady' /\ BeliefsHold' /\ OperationsPossible' /\ OneAbsorption'
  <2>1. S \in SUBSET Positions
    BY <1>5
  <2>2. \A p \in S : pos[p].status \in Holding /\ pos[p].status # "occupied"
    BY <1>5, <1>6, <1>8, BusyFacts
  <2>3. \A p \in S : view[p].is = "asked" /\ pos[p].status \in Holding /\ OnlyEntries(p, 0)
    BY <2>1, <2>2, BusyIsAsked
  <2>4. \A i \in DOMAIN asked : Operation(asked[i]) => asked[i].at \cap S = {}
    BY <2>2 DEF OperationsPossible
  <2>5. Works(S) /\ Steady'
    BY <1>2, <1>4, <1>8, <2>1, OperationEnds DEF Alone
  <2>. QED
    BY <2>1, <2>3, <2>4, <2>5, OperationSteady
<1>9. CASE FinishingEmit(e, rest)
  <2>1. PICK p \in DOMAIN e.tokens : e.kind = "emit" /\ FinishEmit(p, rest)
    BY <1>9 DEF FinishingEmit
  <2>2. {p} \in SUBSET DOMAIN e.tokens
    BY <2>1
  <2>. QED
    BY <1>8, <2>1, <2>2
<1>10. CASE FinishingOperator(e, rest)
  BY <1>8, <1>10 DEF FinishingOperator
<1>11. CASE FinishingMeasure(e, rest)
  BY <1>8, <1>11 DEF FinishingMeasure
<1>12. ~Expiring(e, rest)
  BY <1>1 DEF Expiring
<1>. QED
  BY <1>2, <1>7, <1>9, <1>10, <1>11, <1>12 DEF Finish

(* Whoever waits finds a position that can be used at once. *)
LEMMA AwaitedAvailable ==
  ASSUME IInv, Steady, BeliefsHold, Absorbing = {}, AbsorbTold = {},
         NEW p \in Positions, view[p].is = "awaited"
  PROVE  IsAvailable(p)
<1>1. FreeAt(p, 0)
  BY DEF BeliefsHold
<1>2. Free(p, 0)
  BY <1>1 DEF FreeAt, NewsOf, AbsorbTold
<1>3. pos[p].status = "empty"
  BY <1>2 DEF Free, Absorbing
<1>4. pos[p].readyAt <= now /\ pos[p].readyAt \in Nat /\ now \in Nat
  BY RecordFacts DEF Steady, Valid, Record
<1>. QED
  BY <1>3, <1>4 DEF IsAvailable

LEMMA ServeAbsorbSteady ==
  ASSUME IInv, AskedInv, NotesInv, Alone, Steady, BeliefsHold, OperationsPossible, OneAbsorption,
         ServeRequest, Head(asked).kind = "absorb"
  PROVE  Steady' /\ BeliefsHold' /\ OperationsPossible' /\ OneAbsorption' /\ UNCHANGED <<config, aborted>>
<1>1. /\ asked # <<>> /\ asked' = Tail(asked) /\ UNCHANGED view /\ 1 \in DOMAIN asked
      /\ Head(asked) = asked[1]
      /\ \A i \in DOMAIN asked' : i \in Nat /\ i >= 1 /\ i + 1 \in DOMAIN asked /\ asked'[i] = asked[i + 1]
  BY AskedFacts DEF ServeRequest
<1>2. 1 \in AbsorbAsked
  BY <1>1 DEF AbsorbAsked
<1>3. Absorbing = {} /\ AbsorbTold = {} /\ \E q \in Positions : view[q].is = "awaited"
  BY <1>2 DEF OneAbsorption
<1>4. PICK x \in Positions \cup {None} : asked[1].at = {x} /\ (x # None => view[x].is = "awaited")
  BY <1>2 DEF OneAbsorption
<1>5. AbsorbAsked' = {}
  <2>. SUFFICES ASSUME NEW i \in AbsorbAsked' PROVE FALSE
    OBVIOUS
  <2>1. i \in Nat /\ i >= 1 /\ i + 1 \in AbsorbAsked
    BY <1>1 DEF AbsorbAsked
  <2>2. i + 1 = 1
    BY <1>2, <2>1 DEF OneAbsorption
  <2>. QED
    BY <2>1, <2>2
<1>6. SelectAbsorbPosition(x) # {}
  <2>1. CASE x # None
    <3>1. IsAvailable(x)
      BY <1>3, <1>4, <2>1, AwaitedAvailable
    <3>. QED
      BY <2>1, <3>1 DEF SelectAbsorbPosition
  <2>2. CASE x = None
    <3>1. {q \in Positions : IsAvailable(q)} # {}
      BY <1>3, AwaitedAvailable
    <3>2. PICK p \in {q \in Positions : IsAvailable(q)} : \A q \in {q \in Positions : IsAvailable(q)} : p <= q
      BY <3>1, LeastPosition
    <3>. QED
      BY <2>2, <3>2 DEF SelectAbsorbPosition
  <2>. QED
    BY <2>1, <2>2
<1>7. Absorb(x)
  <2>1. Acceptable(Head(asked))
    BY <1>1, <1>4, <1>6 DEF Acceptable
  <2>2. HandleRequest(Head(asked))
    BY <2>1 DEF ServeRequest
  <2>. QED
    BY <1>1, <1>4, <2>2 DEF HandleRequest
<1>8. PICK p \in SelectAbsorbPosition(x) :
        /\ Requested
        /\ IF config.delay.absorb = 0
             THEN FinishAbsorb(p, pos[p].token + 1, pending)
             ELSE /\ pos' = [pos EXCEPT ![p] = Awaiting(@)]
                  /\ Delayed("absorb", config.delay.absorb, {p})
  BY <1>7 DEF Absorb
<1>9. /\ p \in Positions /\ pos[p].status = "empty" /\ now' = now /\ UNCHANGED <<config, aborted>>
      /\ pos[p].token + 1 \in Nat /\ pos \in [Positions -> Record]
  <2>1. p \in Positions /\ pos[p].status = "empty"
    BY <1>8 DEF SelectAbsorbPosition, IsAvailable
  <2>. QED
    BY <1>8, <2>1, RecordFacts DEF Requested, IInv, EventsMatchPositions, TypeOK
<1>10. CASE config.delay.absorb = 0
  <2>1. (\E r : r.kind = "absorb" /\ Ended({p}, r)) /\ Steady'
    BY <1>8, <1>9, <1>10, AbsorptionEnds DEF Alone
  <2>. QED
    BY <1>1, <1>3, <1>5, <1>9, <2>1, AbsorptionSteady
<1>11. CASE config.delay.absorb # 0
  <2>1. /\ pos'[p].status = "absorbing" /\ pos'[p].readyAt = pos[p].readyAt
        /\ \A q \in Positions \ {p} : pos'[q] = pos[q]
    BY <1>8, <1>9, <1>11, StatusMarked
  <2>2. Begun({p}, "absorbing")
    BY <1>8, <1>11, <2>1 DEF Begun, Delayed, NothingReported
  <2>3. Steady'
    BY <1>8, <1>9, <1>11, <2>1 DEF Steady, Delayed
  <2>. QED
    BY <1>1, <1>3, <1>5, <1>9, <2>2, <2>3, AbsorptionSteady
<1>. QED
  BY <1>10, <1>11

LEMMA ServeOperationSteady ==
  ASSUME IInv, AskedInv, NotesInv, Alone, Steady, BeliefsHold, OperationsPossible, OneAbsorption,
         ServeRequest, Operation(Head(asked))
  PROVE  Steady' /\ BeliefsHold' /\ OperationsPossible' /\ OneAbsorption' /\ UNCHANGED <<config, aborted>>
<1>. DEFINE r == asked[1]
<1>1. /\ asked # <<>> /\ asked' = Tail(asked) /\ UNCHANGED view /\ 1 \in DOMAIN asked
      /\ Head(asked) = r /\ Askable(r) /\ Operation(r)
  BY AskedFacts DEF ServeRequest
<1>2. \A p \in r.at : view[p].is = "asked" /\ pos[p].status = "occupied" /\ OnlyEntries(p, 0)
  BY <1>1 DEF OperationsPossible
<1>3. \A i \in DOMAIN asked : Operation(asked[i]) /\ i > 1 => asked[i].at \cap r.at = {}
  BY <1>1 DEF OperationsPossible
<1>4. HandleRequest(r)
  <2>1. Acceptable(r)
    BY <1>1, <1>2 DEF Acceptable, Operation, Occupied
  <2>. QED
    BY <1>1, <2>1 DEF ServeRequest
<1>5. ~(asked' = asked)
  <2>1. PICK Q : asked \in Seq(Q)
    BY DEF AskedInv
  <2>. QED
    BY <1>1, <2>1
<1>6. ASSUME NEW S \in SUBSET r.at, S # {}, S \subseteq Positions,
             \/ \E p \in S : S = {p} /\ (Emit(p) \/ Discard(p))
             \/ ApplyOperator(S)
             \/ \E destructive \in BOOLEAN : Measure(S, destructive)
      PROVE  Steady' /\ BeliefsHold' /\ OperationsPossible' /\ OneAbsorption' /\ UNCHANGED <<config, aborted>>
  <2>1. Works(S) /\ Steady'
    BY <1>6, OperationServed DEF Alone
  <2>2. \A p \in S : view[p].is = "asked" /\ pos[p].status \in Holding /\ OnlyEntries(p, 0)
    BY <1>2, StatusFacts
  <2>3. \A i \in DOMAIN asked : Operation(asked[i]) /\ i > 1 => asked[i].at \cap S = {}
    BY <1>3
  <2>4. UNCHANGED <<config, aborted>>
    BY <1>6 DEF Emit, Discard, ApplyOperator, Measure, Requested
  <2>. QED
    BY <1>1, <1>5, <1>6, <2>1, <2>2, <2>3, <2>4, OperationSteady
<1>7. ASSUME NEW p \in r.at, Emit(p) \/ Discard(p)
      PROVE  Steady' /\ BeliefsHold' /\ OperationsPossible' /\ OneAbsorption' /\ UNCHANGED <<config, aborted>>
  <2>1. p \in Positions /\ {p} \in SUBSET r.at /\ {p} # {} /\ {p} \subseteq Positions
    BY <1>1 DEF Askable, Operation
  <2>. QED
    BY <1>6, <1>7, <2>1
<1>8. CASE r.kind = "operator" /\ ApplyOperator(r.at)
  BY <1>1, <1>6, <1>8 DEF Askable
<1>9. CASE r.kind = "measure" /\ Measure(r.at, r.destructive)
  BY <1>1, <1>6, <1>9 DEF Askable
<1>. QED
  BY <1>1, <1>4, <1>7, <1>8, <1>9 DEF HandleRequest, Operation

LEMMA ServeMetaSteady ==
  ASSUME IInv, AskedInv, NotesInv, Alone, Steady, BeliefsHold, OperationsPossible, OneAbsorption,
         ServeRequest, Head(asked).kind = "meta"
  PROVE  Steady' /\ BeliefsHold' /\ OperationsPossible' /\ OneAbsorption' /\ UNCHANGED <<config, aborted>>
<1>1. /\ asked # <<>> /\ asked' = Tail(asked) /\ UNCHANGED view /\ 1 \in DOMAIN asked
      /\ Head(asked) = asked[1] /\ Askable(asked[1])
  BY AskedFacts DEF ServeRequest
<1>2. PICK p \in Positions : \E expected : UpdateMeta(p, expected, expected)
  <2>1. HandleRequest(Head(asked))
    BY DEF ServeRequest, Acceptable
  <2>. QED
    BY <1>1, <2>1 DEF HandleRequest, Askable
<1>3. PICK done \in BOOLEAN : StoreReport(MetaUpdateReport(p, done))
  BY <1>2 DEF UpdateMeta
<1>4. UNCHANGED <<pending, now, config, aborted>>
  BY <1>2 DEF UpdateMeta, Requested
<1>5. \A q \in Positions : pos'[q].status = pos[q].status /\ pos'[q].readyAt = pos[q].readyAt
  <2>1. CASE UNCHANGED pos
    BY <2>1
  <2>2. ASSUME NEW tag, UpdatePositionMeta(p, tag)
        PROVE  \A q \in Positions : pos'[q].status = pos[q].status /\ pos'[q].readyAt = pos[q].readyAt
    <3>1. pos \in [Positions -> Record]
      BY DEF IInv, EventsMatchPositions, TypeOK
    <3>2. /\ MergeMeta(pos[p], tag).status = pos[p].status
          /\ MergeMeta(pos[p], tag).readyAt = pos[p].readyAt
      BY <3>1 DEF MergeMeta, Record
    <3>. QED
      BY <2>2, <3>1, <3>2 DEF UpdatePositionMeta
  <2>. QED
    BY <1>2, <2>1, <2>2 DEF UpdateMeta
<1>6. PICK r : /\ r.kind = "meta" /\ IsReport(r) /\ mail' = Append(mail, r)
               /\ \A q \in DOMAIN r.tokens : pos[q].status \in Holding
  <2>1. \A q \in Positions : pos[q].token \in Nat
    BY RecordFacts
  <2>2. /\ MetaUpdateReport(p, done).kind = "meta" /\ IsReport(MetaUpdateReport(p, done))
        /\ \A q \in DOMAIN MetaUpdateReport(p, done).tokens : pos[q].status \in Holding
    BY <2>1 DEF MetaUpdateReport, Report, Tokens, IsReport
  <2>3. mail' = Append(mail, MetaUpdateReport(p, done))
    BY <1>3 DEF StoreReport, Alone
  <2>. QED
    BY <2>2, <2>3
<1>7. MailOfReports
  BY DEF NotesInv
<1>8. /\ BeliefsHold'
      /\ \A q \in Positions : OnlyEntries(q, 0) => OnlyEntries(q, 0)'
  BY <1>1, <1>5, <1>6, <1>7, EntryBelieved
<1>9. OperationsPossible'
  <2>1. ASSUME NEW i \in DOMAIN asked, Operation(asked[i]), NEW q \in asked[i].at
        PROVE  view'[q].is = "asked" /\ pos'[q].status = "occupied" /\ OnlyEntries(q, 0)'
    <3>1. q \in Positions
      BY <2>1, AskedFacts DEF Askable, Operation
    <3>2. view[q].is = "asked" /\ pos[q].status = "occupied" /\ OnlyEntries(q, 0)
      BY <2>1 DEF OperationsPossible
    <3>. QED
      BY <1>1, <1>5, <1>8, <3>1, <3>2
  <2>. QED
    BY <1>1, <2>1, OperationsLeft
<1>10. OneAbsorption'
  <2>1. Absorbing' \subseteq Absorbing
    BY <1>5 DEF Absorbing
  <2>2. AbsorbTold' \subseteq AbsorbTold
    <3>1. PICK n \in Nat : /\ DOMAIN mail' = DOMAIN mail \cup {n + 1} /\ mail'[n + 1] = r
                           /\ \A i \in DOMAIN mail : mail'[i] = mail[i]
      BY <1>6, <1>7, MailAppend
    <3>. QED
      BY <1>6, <3>1 DEF AbsorbTold
  <2>. QED
    BY <1>1, <2>1, <2>2, AbsorptionsStay
<1>11. Steady'
  BY <1>4, <1>5 DEF Steady
<1>. QED
  BY <1>4, <1>8, <1>9, <1>10, <1>11

LEMMA ClientStaysAlone ==
  ASSUME IInv, AskedInv, NotesInv, AloneInv, [ClientNext]_<<vars, clientVars>>
  PROVE  AloneInv'
<1>1. UNCHANGED <<config, arriving>>
  BY DEF ClientNext, ClientTick, Tick, ClientOwnEvent, OwnEvent, Handle, AnyRequest, Request,
         OtherRaises, CompletionRaises, Aborting, Absorb, Emit, Discard, ExpireRequest, ApplyOperator,
         Measure, Requested, Ask, AskAbsorb, AskEmit, AskDiscard, AskUpdateMeta, AskApply, AskMeasure,
         Schedule, ServeRequest, HandleRequest, UpdateMeta, Refuse, SignalArrives, ReadReport, vars, clientVars
<1>. SUFFICES ASSUME Alone
              PROVE  (Steady /\ BeliefsHold /\ OperationsPossible /\ OneAbsorption /\ ~aborted)'
  BY <1>1 DEF AloneInv, Alone
<1>2. Steady /\ BeliefsHold /\ OperationsPossible /\ OneAbsorption /\ ~aborted
  BY DEF AloneInv
<1>3. now \in Nat /\ \A p \in Positions : pos[p].readyAt \in Nat
  BY RecordFacts DEF Valid, Record, IInv, EventsMatchPositions, TypeOK
<1>4. ASSUME UNCHANGED <<pos, pending, mail, asked, view, aborted>>, now' \in {now, now + 1}
      PROVE  (Steady /\ BeliefsHold /\ OperationsPossible /\ OneAbsorption /\ ~aborted)'
  <2>1. Steady'
    BY <1>2, <1>3, <1>4 DEF Steady
  <2>2. \A p : PlaceStays(p)
    BY <1>4, MailSame DEF PlaceStays
  <2>3. BeliefsHold'
    BY <1>2, <1>4, <2>2, StaysFacts DEF BeliefsHold
  <2>4. OperationsPossible'
    BY <1>2, <1>4, <2>2, StaysFacts DEF OperationsPossible, Operation
  <2>5. OneAbsorption'
    BY <1>2, <1>4 DEF OneAbsorption, AbsorbAsked, Absorbing, AbsorbTold
  <2>. QED
    BY <1>2, <1>4, <2>1, <2>3, <2>4, <2>5
<1>5. CASE ClientTick
  BY <1>4, <1>5 DEF ClientTick, Tick, clientVars
<1>6. CASE ClientOwnEvent
  <2>1. PICK e \in pending : Handle(e) /\ UNCHANGED <<asked, view>>
    BY <1>6 DEF ClientOwnEvent, OwnEvent, clientVars
  <2>2. UNCHANGED aborted
    BY <2>1 DEF Handle
  <2>. QED
    BY <1>2, <2>1, <2>2, HandleSteady
<1>7. ~AnyRequest /\ ~SignalArrives
  BY DEF AnyRequest, SignalArrives, Alone
<1>8. CASE Ask
  <2>1. UNCHANGED vars
    BY <1>8, AskAsked
  <2>2. Steady' /\ UNCHANGED aborted
    BY <1>2, <2>1 DEF Steady, vars
  <2>. QED
    BY <1>2, <1>8, <2>2, AskSteady
<1>9. CASE ServeRequest
  BY <1>2, <1>9, ServeAbsorbSteady, ServeOperationSteady, ServeMetaSteady DEF Operation
<1>10. CASE ReadReport
  <2>1. Steady' /\ UNCHANGED aborted
    BY <1>2, <1>10 DEF ReadReport, Steady
  <2>. QED
    BY <1>2, <1>10, <2>1, ReadSteady
<1>11. CASE UNCHANGED <<vars, clientVars>>
  BY <1>4, <1>11 DEF vars, clientVars
<1>. QED
  BY <1>5, <1>6, <1>7, <1>8, <1>9, <1>10, <1>11 DEF ClientNext

LEMMA ClientAlone == ClientSpec => []AloneInv
<1>1. ClientInit => AloneInv
  <2>. SUFFICES ASSUME ClientInit PROVE AloneInv
    OBVIOUS
  <2>1. mail = <<>> /\ asked = <<>> /\ pending = {} /\ now = 0 /\ ~aborted
    BY DEF ClientInit, Init
  <2>2. \A p \in Positions : pos[p].status = "empty" /\ pos[p].readyAt = 0 /\ view[p] = Empty
    BY DEF ClientInit, Init, Vacant
  <2>3. \A p : NewsOf(p) = {}
    BY <2>1 DEF NewsOf
  <2>4. Steady
    BY <2>1, <2>2 DEF Steady
  <2>5. BeliefsHold
    BY <2>2, <2>3 DEF BeliefsHold, FreeAt, Free, NoNews, Empty
  <2>6. AbsorbAsked = {} /\ Absorbing = {} /\ AbsorbTold = {} /\ OperationsPossible
    BY <2>1, <2>2 DEF AbsorbAsked, Absorbing, AbsorbTold, OperationsPossible
  <2>7. OneAbsorption
    BY <2>6 DEF OneAbsorption
  <2>. QED
    BY <2>1, <2>4, <2>5, <2>6, <2>7 DEF AloneInv
<1>2. IInv /\ AskedInv /\ NotesInv /\ AloneInv /\ [ClientNext]_<<vars, clientVars>> => AloneInv'
  BY ClientStaysAlone
<1>. QED
  BY <1>1, <1>2, ClientInv, ClientNotes, PTL DEF ClientSpec

-----------------------------------------------------------------------------
(* What a reader should know *)

(* Records stay valid, and the events in flight agree with them: whatever  *)
(* requests, expiries and exceptions come between, a completion is never   *)
(* stale, and no position waits for two.                                   *)
THEOREM ClientEventsMatch == ClientSpec => []EventsMatchPositions
  BY ClientInv, PTL DEF IInv

(* The same of a memory that anybody uses in any way.                      *)
THEOREM SpecEventsMatch == Spec => []EventsMatchPositions
  BY SpecIInv, PTL DEF IInv

(* The store owns a label exactly while the record says that a qubit is    *)
(* there, and the reports tell of the same occupants.                      *)
THEOREM ClientLabelsMatch == ClientSpec => []LabelsMatch
  BY ClientInv, PTL DEF IInv

(* Metadata never describes another occupant than its writer meant.        *)
THEOREM ClientTagsMatch == ClientSpec => []TagsMatch
  BY ClientInv, PTL DEF IInv

(* An entry never describes another occupant than its writer meant.  Of a  *)
(* memory that neither expires nor recovers, and that no other signal      *)
(* reaches, an agent that goes by its reports is never refused, and when   *)
(* it has read them all it knows what is stored.                           *)
THEOREM ClientReportsSuffice == ClientSpec => []ReportsSuffice
<1>1. IInv /\ NotesInv /\ AloneInv => ReportsSuffice
  BY ReadIsKnown DEF ReportsSuffice, IInv, TagsMatch, AloneInv, Alone
<1>. QED
  BY <1>1, ClientInv, ClientNotes, ClientAlone, PTL

(* An expiry removes only the occupant it was scheduled for, at the time   *)
(* in its record.                                                          *)
THEOREM ClientExpiresOnTime == ClientSpec => ExpiresOnTime
<1>. DEFINE OnTime == \A p \in Positions, e \in pending \ pending' :
              (e.kind = "expire" /\ p \in DOMAIN e.tokens /\ pos'[p].status # pos[p].status) =>
                /\ pos[p].expires = now
                /\ pos[p].token = e.tokens[p]
<1>1. IInv /\ AskedInv /\ [ClientNext]_<<vars, clientVars>> => [OnTime]_vars
  BY ClientStep, ExpiryTaken
<1>. QED
  BY <1>1, ClientInv, PTL DEF ClientSpec, ExpiresOnTime
=============================================================================

--------------------------- MODULE ResourceProofs ---------------------------
(***************************************************************************)
(* Proofs about module ResourceManager, for any slots, nodes, devices,     *)
(* owners and number of reservations.  LedgerConsistent and TypeOK are     *)
(* inductive together: the state of a slot, its holder and the open        *)
(* reservations determine one another at every step.  Then the registry of *)
(* pairs, and at the end one beside the other.                             *)
(***************************************************************************)
EXTENDS MCLedgers, TLAPS

IInv == TypeOK /\ LedgerConsistent

-----------------------------------------------------------------------------

LEMMA InitIInv == Init => IInv
<1>. SUFFICES ASSUME Init PROVE IInv
  OBVIOUS
<1>1. slot \in [Slots -> {"unregistered", "free", "occupied"}]
  BY DEF Init
<1>2. readyAt \in [Slots -> Expiries]
  BY TimeAssumption DEF Init, Expiries, Ticks
<1>3. TypeOK
  BY <1>1, <1>2, ResourceAssumption, TimeAssumption DEF Init, TypeOK, SlotStates, Ticks
<1>4. \A r \in ResId : ~Open(r)
  BY DEF Init, Open, OpenStates, NoReservation
<1>5. \A s \in Slots, r \in ResId : holder[s] # r
  BY ResourceAssumption DEF Init, NoHolder, ResId
<1>6. StatesAgree
  BY <1>1 DEF Init, StatesAgree
<1>. QED
  BY <1>3, <1>4, <1>5, <1>6 DEF IInv, LedgerConsistent, HoldersExact

(* Whatever selects the slots, reserving available ones keeps the ledger.  *)
LEMMA ReserveIInv ==
  ASSUME IInv, NEW S \in SUBSET Slots, NEW owner \in Owners, NEW expires \in Expiries,
         ReserveRefs(S, owner, expires)
  PROVE  IInv'
<1>. USE DEF IInv
<1>1. S # {} /\ \A s \in S : slot[s] = "free" /\ holder[s] = NoHolder
  BY DEF ReserveRefs, Available
<1>. DEFINE rec == [state |-> "active", refs |-> S, owner |-> owner, expires |-> expires]
<1>2. PICK r \in ResId :
        /\ FreshId(r)
        /\ reservation' = [reservation EXCEPT ![r] = rec]
        /\ holder' = [s \in Slots |-> IF s \in S THEN r ELSE holder[s]]
  BY DEF ReserveRefs
<1>3. /\ slot' = [s \in Slots |-> IF s \in S THEN "reserved" ELSE slot[s]]
      /\ UNCHANGED <<now, readyAt>>
  BY DEF ReserveRefs
<1>4. r \in ResId /\ reservation[r] = NoReservation /\ ~Open(r)
  BY <1>2 DEF FreshId, Known, Open, NoReservation, OpenStates
<1>5. rec \in Reservations /\ rec.state \in OpenStates
  BY <1>1 DEF Reservations, OpenStates
<1>6. nextIndex' \in 0..MaxReservations
  BY <1>2, ResourceAssumption DEF FreshId, ResId, TypeOK
<1>7. TypeOK'
  BY <1>2, <1>3, <1>5, <1>6 DEF TypeOK, SlotStates
<1>8. HoldersExact'
  <2>. SUFFICES ASSUME NEW s \in Slots, NEW q \in ResId
                PROVE  holder'[s] = q <=> (Open(q)' /\ s \in reservation'[q].refs)
    BY DEF HoldersExact
  <2>1. CASE q = r
    <3>1. Open(q)' /\ reservation'[q].refs = S
      BY <1>2, <1>4, <1>5, <2>1 DEF Open, TypeOK
    <3>2. holder[s] # r
      BY <1>4 DEF LedgerConsistent, HoldersExact
    <3>. QED
      BY <1>2, <2>1, <3>1, <3>2
  <2>2. CASE q # r
    <3>1. reservation'[q] = reservation[q] /\ (Open(q)' <=> Open(q))
      BY <1>2, <2>2 DEF Open, TypeOK
    <3>2. CASE s \in S
      <4>1. holder[s] # q
        BY <1>1, <3>2, ResourceAssumption DEF NoHolder, ResId
      <4>. QED
        BY <1>2, <2>2, <3>1, <3>2, <4>1 DEF LedgerConsistent, HoldersExact
    <3>3. CASE s \notin S
      BY <1>2, <3>1, <3>3 DEF LedgerConsistent, HoldersExact
    <3>. QED
      BY <3>2, <3>3
  <2>. QED
    BY <2>1, <2>2
<1>9. StatesAgree'
  BY <1>1, <1>2, <1>3, <1>4, ResourceAssumption
  DEF LedgerConsistent, StatesAgree, NoHolder, ResId
<1>. QED
  BY <1>7, <1>8, <1>9 DEF LedgerConsistent

LEMMA ReserveMemoriesSelects ==
  ASSUME NEW need, NEW GroupOf, NEW owner, NEW expires,
         ReserveMemories(need, GroupOf, owner, expires)
  PROVE  \E S \in SUBSET Slots : ReserveRefs(S, owner, expires)
<1>. DEFINE Group(g) == {s \in Slots : GroupOf[s] = g /\ Available(s)}
            Groups == {g \in DOMAIN need : need[g] > 0}
            Chosen == UNION {Lowest(Group(g), need[g]) : g \in Groups}
<1>1. \A g \in Groups : Lowest(Group(g), need[g]) \subseteq Slots
  BY DEF Lowest
<1>2. Chosen \in SUBSET Slots
  BY <1>1
<1>3. ReserveRefs(Chosen, owner, expires)
  BY DEF ReserveMemories
<1>. QED
  BY <1>2, <1>3

(* Closing any set of open reservations: their slots lose the holder, and  *)
(* no others do.                                                           *)
LEMMA CloseIInv ==
  ASSUME IInv, NEW R \in SUBSET ResId, \A r \in R : Open(r),
         NEW state \in ClosedStates, CloseAll(R, state)
  PROVE  IInv'
<1>. USE DEF IInv
<1>. DEFINE refs == UNION {reservation[r].refs : r \in R}
<1>1. /\ reservation' = [r \in ResId |->
            IF r \in R THEN [reservation[r] EXCEPT !.state = state] ELSE reservation[r]]
      /\ holder' = [s \in Slots |-> IF s \in refs THEN NoHolder ELSE holder[s]]
      /\ slot' = [s \in Slots |->
            IF s \in refs /\ slot[s] = "reserved" THEN "free" ELSE slot[s]]
      /\ UNCHANGED <<now, readyAt, nextIndex>>
  BY DEF CloseAll
<1>2. \A r \in R : reservation[r] \in Reservations
  BY DEF TypeOK, Open, OpenStates, NoReservation
<1>3. \A r \in R : [reservation[r] EXCEPT !.state = state] \in Reservations
  BY <1>2 DEF Reservations
<1>4. reservation' \in [ResId -> Reservations \cup {NoReservation}]
  BY <1>1, <1>3 DEF TypeOK
<1>5. TypeOK'
  BY <1>1, <1>4 DEF TypeOK, SlotStates
<1>6. \A r \in ResId : /\ r \in R => ~Open(r)'
                       /\ r \notin R => reservation'[r] = reservation[r]
                                          /\ (Open(r)' <=> Open(r))
  <2>1. \A r \in R : reservation'[r].state = state
    BY <1>1, <1>2 DEF Reservations
  <2>. QED
    BY <1>1, <2>1 DEF Open, OpenStates, ClosedStates
<1>7. \A s \in refs : \E r \in R : s \in reservation[r].refs
  OBVIOUS
<1>8. HoldersExact'
  <2>. SUFFICES ASSUME NEW s \in Slots, NEW q \in ResId
                PROVE  holder'[s] = q <=> (Open(q)' /\ s \in reservation'[q].refs)
    BY DEF HoldersExact
  <2>1. CASE s \in refs
    <3>1. PICK r \in R : s \in reservation[r].refs
      BY <1>7, <2>1
    <3>2. holder[s] = r
      BY <3>1 DEF LedgerConsistent, HoldersExact
    <3>3. holder'[s] = NoHolder /\ NoHolder # q
      BY <1>1, <2>1, ResourceAssumption DEF NoHolder, ResId
    <3>4. CASE q \in R
      BY <1>6, <3>3, <3>4
    <3>5. CASE q \notin R
      <4>1. ~(Open(q) /\ s \in reservation[q].refs)
        BY <3>2, <3>5 DEF LedgerConsistent, HoldersExact
      <4>. QED
        BY <1>6, <3>3, <3>5, <4>1
    <3>. QED
      BY <3>4, <3>5
  <2>2. CASE s \notin refs
    <3>1. holder'[s] = holder[s]
      BY <1>1, <2>2
    <3>2. CASE q \in R
      BY <1>6, <2>2, <3>1, <3>2 DEF LedgerConsistent, HoldersExact
    <3>3. CASE q \notin R
      BY <1>6, <3>1, <3>3 DEF LedgerConsistent, HoldersExact
    <3>. QED
      BY <3>2, <3>3
  <2>. QED
    BY <2>1, <2>2
<1>9. StatesAgree'
  <2>1. \A s \in refs \cap Slots : holder[s] # NoHolder
    <3>. TAKE s \in refs \cap Slots
    <3>1. PICK r \in R : s \in reservation[r].refs
      BY <1>7
    <3>2. holder[s] = r
      BY <3>1 DEF LedgerConsistent, HoldersExact
    <3>. QED
      BY <3>2, ResourceAssumption DEF NoHolder, ResId
  <2>. QED
    BY <1>1, <2>1 DEF LedgerConsistent, StatesAgree
<1>. QED
  BY <1>5, <1>8, <1>9 DEF LedgerConsistent

(* Reports about a slot leave holders and reservations alone. *)
LEMMA MarkFromIInv ==
  ASSUME IInv, NEW s \in Slots, NEW from \in SUBSET SlotStates, NEW to \in SlotStates,
         MarkFrom(s, from, to),
         to = "reserved" => holder[s] # NoHolder,
         to = "free" => holder[s] = NoHolder
  PROVE  IInv'
<1>1. /\ slot' = [slot EXCEPT ![s] = to]
      /\ UNCHANGED <<now, readyAt, reservation, holder, nextIndex>>
  BY DEF MarkFrom
<1>2. TypeOK'
  BY <1>1 DEF IInv, TypeOK
<1>3. HoldersExact'
  BY <1>1 DEF IInv, LedgerConsistent, HoldersExact, Open
<1>4. StatesAgree'
  <2>1. to # "unregistered"
    BY DEF SlotStates
  <2>2. slot \in [Slots -> SlotStates \cup {"unregistered"}] /\ StatesAgree
    BY DEF IInv, TypeOK, LedgerConsistent
  <2>. SUFFICES ASSUME NEW t \in Slots
                PROVE  /\ slot'[t] = "reserved" => holder'[t] # NoHolder
                       /\ slot'[t] \in {"free", "unregistered"} => holder'[t] = NoHolder
    BY DEF StatesAgree
  <2>3. CASE t = s
    <3>1. slot'[t] = to /\ holder'[t] = holder[s]
      BY <1>1, <2>2, <2>3
    <3>. QED
      BY <2>1, <3>1
  <2>4. CASE t # s
    <3>1. slot'[t] = slot[t] /\ holder'[t] = holder[t]
      BY <1>1, <2>2, <2>4
    <3>. QED
      BY <2>2, <3>1 DEF StatesAgree
  <2>. QED
    BY <2>3, <2>4
<1>. QED
  BY <1>2, <1>3, <1>4 DEF IInv, LedgerConsistent

LEMMA MarkIInv == IInv /\ Mark => IInv'
<1>. SUFFICES ASSUME IInv, NEW s \in Slots,
                     \/ MarkOccupied(s) \/ MarkConsumed(s) \/ MarkExpired(s)
                     \/ MarkFailed(s) \/ MarkFree(s)
              PROVE  IInv'
  BY DEF Mark
<1>1. CASE MarkOccupied(s) \/ MarkConsumed(s) \/ MarkExpired(s) \/ MarkFailed(s)
  BY <1>1, MarkFromIInv
  DEF MarkOccupied, MarkConsumed, MarkExpired, MarkFailed, SlotStates
<1>2. CASE MarkFree(s)
  BY <1>2, MarkFromIInv DEF MarkFree, SlotStates
<1>. QED
  BY <1>1, <1>2

(* A device is registered once, so no slot of it can be held yet.          *)
LEMMA RegisterIInv ==
  ASSUME IInv, NEW d \in Devices, RegisterMemory(d)
  PROVE  IInv'
<1>1. /\ slot' = [s \in Slots |-> IF DeviceOf[s] = d THEN "free" ELSE slot[s]]
      /\ UNCHANGED <<now, readyAt, reservation, holder, nextIndex>>
      /\ \A s \in Slots : DeviceOf[s] = d => slot[s] = "unregistered"
  BY DEF RegisterMemory, Registered
<1>2. TypeOK'
  BY <1>1 DEF IInv, TypeOK, SlotStates
<1>3. HoldersExact'
  BY <1>1 DEF IInv, LedgerConsistent, HoldersExact, Open
<1>4. StatesAgree'
  BY <1>1 DEF IInv, LedgerConsistent, StatesAgree
<1>. QED
  BY <1>2, <1>3, <1>4 DEF IInv, LedgerConsistent

LEMMA StepIInv == IInv /\ [Next]_vars => IInv'
<1>. SUFFICES ASSUME IInv, [Next]_vars PROVE IInv'
  OBVIOUS
<1>1. CASE Tick
  BY <1>1, TimeAssumption DEF Tick, IInv, TypeOK, Ticks, LedgerConsistent, HoldersExact,
     StatesAgree, Open
<1>2. CASE \E d \in Devices : RegisterMemory(d)
  BY <1>2, RegisterIInv
<1>3. CASE Reserve
  BY <1>3, ReserveIInv, ReserveMemoriesSelects DEF Reserve
<1>4. CASE \E S \in SUBSET Slots : ReserveRejected(S)
  <2>1. nextIndex' \in 0..MaxReservations
    BY <1>4, ResourceAssumption DEF ReserveRejected, FreshId, ResId, IInv, TypeOK
  <2>2. UNCHANGED <<now, slot, readyAt, reservation, holder>>
    BY <1>4 DEF ReserveRejected
  <2>. QED
    BY <2>1, <2>2 DEF IInv, TypeOK, LedgerConsistent, HoldersExact, StatesAgree, Open
<1>5. CASE \E r \in ResId, owner \in Owners : Commit(r, owner)
  <2>. PICK r \in ResId, owner \in Owners : Commit(r, owner)
    BY <1>5
  <2>1. /\ reservation[r] \in Reservations /\ reservation[r].state = "active"
        /\ reservation' = [reservation EXCEPT ![r].state = "committed"]
        /\ UNCHANGED <<now, slot, readyAt, holder, nextIndex>>
    BY DEF Commit, Known, IInv, TypeOK
  <2>2. reservation'[r] \in Reservations
    BY <2>1 DEF IInv, TypeOK, Reservations, OpenStates
  <2>3. TypeOK'
    BY <2>1, <2>2 DEF IInv, TypeOK
  <2>4. \A q \in ResId : (Open(q)' <=> Open(q)) /\ reservation'[q].refs = reservation[q].refs
    BY <2>1 DEF IInv, TypeOK, Open, OpenStates, Reservations
  <2>5. LedgerConsistent'
    BY <2>1, <2>4 DEF IInv, LedgerConsistent, HoldersExact, StatesAgree
  <2>. QED
    BY <2>3, <2>5 DEF IInv
<1>6. CASE Close
  <2>1. ASSUME NEW r \in ResId, NEW owner \in Owners,
               Release(r, owner) \/ CancelReservation(r, owner)
        PROVE  IInv'
    BY <2>1, CloseIInv DEF Release, CancelReservation, ClosedStates
  <2>2. ASSUME NEW r \in ResId, ExpireReservation(r)
        PROVE  IInv'
    BY <2>2, CloseIInv DEF ExpireReservation, ClosedStates
  <2>3. ASSUME ExpireBefore
        PROVE  IInv'
    BY <2>3, CloseIInv DEF ExpireBefore, Due, ClosedStates
  <2>. QED
    BY <1>6, <2>1, <2>2, <2>3 DEF Close
<1>7. CASE Mark
  BY <1>7, MarkIInv
<1>8. CASE UNCHANGED vars
  BY <1>8 DEF vars, IInv, TypeOK, LedgerConsistent, HoldersExact, StatesAgree, Open
<1>. QED
  BY <1>1, <1>2, <1>3, <1>4, <1>5, <1>6, <1>7, <1>8 DEF Next

LEMMA SpecIInv == Spec => []IInv
  BY InitIInv, StepIInv, PTL DEF Spec

-----------------------------------------------------------------------------
(* What a reader should know *)

(* Every map of the ledger keeps its type. *)
THEOREM SpecTypeOK == Spec => []TypeOK
  BY SpecIInv, PTL DEF IInv

(* Slots, holders and reservations agree after every sequence of calls, so *)
(* the RuntimeErrors of _close_reservation are unreachable.                *)
THEOREM SpecLedgerConsistent == Spec => []LedgerConsistent
  BY SpecIInv, PTL DEF IInv

(* Two open reservations never list the same slot. *)
THEOREM SpecExclusive ==
  Spec => [](\A q, r \in ResId : Open(q) /\ Open(r) /\ q # r =>
               reservation[q].refs \cap reservation[r].refs = {})
<1>1. IInv => \A q, r \in ResId : Open(q) /\ Open(r) /\ q # r =>
                reservation[q].refs \cap reservation[r].refs = {}
  <2>. SUFFICES ASSUME IInv, NEW q \in ResId, NEW r \in ResId, Open(q), Open(r),
                       NEW s \in reservation[q].refs \cap reservation[r].refs
                PROVE  q = r
    OBVIOUS
  <2>1. s \in Slots
    BY DEF IInv, TypeOK, Open, OpenStates, NoReservation, Reservations
  <2>. QED
    BY <2>1 DEF IInv, LedgerConsistent, HoldersExact
<1>. QED
  BY <1>1, SpecIInv, PTL

-----------------------------------------------------------------------------
(* What a step does to the holders *)

(* The fresh id of a reservation holds exactly the slots that were asked   *)
(* for, all of them available.                                             *)
LEMMA ReserveTakes ==
  ASSUME IInv, NEW S \in SUBSET Slots, NEW owner, NEW expires, ReserveRefs(S, owner, expires)
  PROVE  \E r \in ResId : Leases!Take(r, S)
<1>. DEFINE rec == [state |-> "active", refs |-> S, owner |-> owner, expires |-> expires]
<1>1. PICK r \in ResId :
        /\ FreshId(r)
        /\ reservation' = [reservation EXCEPT ![r] = rec]
        /\ holder' = [s \in Slots |-> IF s \in S THEN r ELSE holder[s]]
  BY DEF ReserveRefs
<1>2. \A s \in S : holder[s] = NoHolder
  BY DEF ReserveRefs, Available
<1>3. r \in ResId \ Known
  BY <1>1 DEF FreshId
<1>4. rec # NoReservation
  BY DEF NoReservation
<1>5. Known' = Known \cup {r}
  BY <1>1, <1>4 DEF Known, IInv, TypeOK
<1>. QED
  BY <1>1, <1>2, <1>3, <1>5 DEF Leases!Take

(* The slots of closed reservations are those that they held.              *)
LEMMA CloseEnds ==
  ASSUME IInv, NEW R \in SUBSET ResId, \A r \in R : Open(r),
         NEW state \in ClosedStates, CloseAll(R, state)
  PROVE  Leases!End(R)
<1>. DEFINE refs == UNION {reservation[r].refs : r \in R}
<1>1. /\ reservation' = [r \in ResId |->
            IF r \in R THEN [reservation[r] EXCEPT !.state = state] ELSE reservation[r]]
      /\ holder' = [s \in Slots |-> IF s \in refs THEN NoHolder ELSE holder[s]]
  BY DEF CloseAll
<1>2. \A r \in R : reservation[r] \in Reservations
  BY DEF IInv, TypeOK, Open, OpenStates, NoReservation
<1>3. \A r \in R : reservation[r] # NoReservation /\ reservation'[r] # NoReservation
  BY <1>1, <1>2 DEF Reservations, NoReservation, OpenStates, ClosedStates
<1>4. R \subseteq Known /\ Known' = Known
  BY <1>1, <1>3 DEF Known
<1>5. \A s \in Slots : s \in refs <=> holder[s] \in R
  BY DEF IInv, LedgerConsistent, HoldersExact
<1>. HIDE DEF refs
<1>6. holder' = [s \in Slots |-> IF holder[s] \in R THEN NoHolder ELSE holder[s]]
  BY <1>1, <1>5
<1>. QED
  BY <1>4, <1>6 DEF Leases!End

(* Every call of Close is a CloseAll of open reservations.                 *)
LEMMA CloseIsCloseAll ==
  ASSUME Close
  PROVE  \E R \in SUBSET ResId, state \in ClosedStates :
           (\A r \in R : Open(r)) /\ CloseAll(R, state)
<1>1. ASSUME NEW r \in ResId, Open(r), NEW state \in ClosedStates, CloseAll({r}, state)
      PROVE  \E R \in SUBSET ResId, st \in ClosedStates : (\A q \in R : Open(q)) /\ CloseAll(R, st)
  <2>1. {r} \in SUBSET ResId /\ \A q \in {r} : Open(q)
    BY <1>1
  <2>. QED
    BY <1>1, <2>1
<1>2. CASE ExpireBefore
  <2>1. \A r \in {q \in ResId : Due(q)} : Open(r)
    BY DEF Due
  <2>. QED
    BY <1>2, <2>1 DEF ExpireBefore, ClosedStates
<1>3. CASE \E r \in ResId, owner \in Owners : Release(r, owner) \/ CancelReservation(r, owner)
  BY <1>1, <1>3 DEF Release, CancelReservation, ClosedStates
<1>4. CASE \E r \in ResId : ExpireReservation(r)
  BY <1>1, <1>4 DEF ExpireReservation, ClosedStates
<1>. QED
  BY <1>2, <1>3, <1>4 DEF Close

(* Reports, registrations and commits leave the holders alone.             *)
LEMMA OthersKeepLeases ==
  ASSUME IInv,
         \/ Tick \/ Mark \/ UNCHANGED vars
         \/ \E d \in Devices : RegisterMemory(d)
         \/ \E S \in SUBSET Slots : ReserveRejected(S)
         \/ \E r \in ResId, owner \in Owners : Commit(r, owner)
  PROVE  UNCHANGED <<holder, Known>>
<1>1. CASE \E r \in ResId, owner \in Owners : Commit(r, owner)
  <2>. PICK r \in ResId, owner \in Owners : Commit(r, owner)
    BY <1>1
  <2>1. /\ r \in Known /\ reservation[r] \in Reservations /\ holder' = holder
        /\ reservation' = [reservation EXCEPT ![r].state = "committed"]
    BY DEF Commit, Known, IInv, TypeOK
  <2>2. reservation'[r] # NoReservation
    BY <2>1 DEF IInv, TypeOK, Reservations, NoReservation
  <2>3. \A q \in ResId \ {r} : reservation'[q] = reservation[q]
    BY <2>1 DEF IInv, TypeOK
  <2>. QED
    BY <2>1, <2>2, <2>3 DEF Known
<1>2. CASE \/ Tick \/ Mark \/ UNCHANGED vars
           \/ \E d \in Devices : RegisterMemory(d)
           \/ \E S \in SUBSET Slots : ReserveRejected(S)
  <2>1. UNCHANGED <<holder, reservation>>
    BY <1>2 DEF Tick, Mark, MarkOccupied, MarkConsumed, MarkExpired, MarkFailed, MarkFree,
                MarkFrom, vars, RegisterMemory, ReserveRejected
  <2>. QED
    BY <2>1 DEF Known
<1>. QED
  BY <1>1, <1>2

(* Taking or closing a reservation never changes what happened physically: *)
(* only free slots become reserved, when they are ready, and only reserved *)
(* ones free.                                                              *)
THEOREM SpecPhysicalStateKept == Spec => PhysicalStateKept
<1>. DEFINE Kept == \A s \in Slots : holder'[s] # holder[s] =>
       \/ slot'[s] = slot[s]
       \/ slot[s] = "reserved" /\ slot'[s] = "free"
       \/ slot[s] = "free" /\ slot'[s] = "reserved"
            /\ (readyAt[s] # Never => readyAt[s] <= now)
<1>1. ASSUME NEW S \in SUBSET Slots, NEW owner, NEW expires, ReserveRefs(S, owner, expires)
      PROVE  Kept
  BY <1>1 DEF ReserveRefs, Available
<1>2. ASSUME NEW R, NEW state, CloseAll(R, state)
      PROVE  Kept
  BY <1>2 DEF CloseAll
<1>3. IInv /\ [Next]_vars => [Kept]_vars
  <2>. SUFFICES ASSUME IInv, [Next]_vars PROVE Kept
    OBVIOUS
  <2>1. CASE Reserve
    <3>1. \E S \in SUBSET Slots : \E owner, expires : ReserveRefs(S, owner, expires)
      BY <2>1, ReserveMemoriesSelects DEF Reserve
    <3>. QED
      BY <1>1, <3>1
  <2>2. CASE Close
    BY <1>2, <2>2, CloseIsCloseAll
  <2>3. CASE ~Reserve /\ ~Close
    BY <2>3, OthersKeepLeases DEF Next
  <2>. QED
    BY <2>1, <2>2, <2>3
<1>. QED
  BY <1>3, SpecIInv, PTL DEF Spec, PhysicalStateKept

(* The ledger's calls are the taking of leases, their end, or no matter of *)
(* theirs.                                                                 *)
THEOREM SpecImplementsLeases == Spec => ImplementsLeases
<1>1. Init => Leases!LeaseInit
  BY DEF Init, Leases!LeaseInit, Known
<1>2. IInv /\ [Next]_vars => [Leases!LeaseNext]_(Leases!leaseVars)
  <2>. SUFFICES ASSUME IInv, [Next]_vars
                PROVE  Leases!LeaseNext \/ UNCHANGED <<holder, Known>>
    BY DEF Leases!leaseVars
  <2>1. CASE Reserve
    <3>1. \E S \in SUBSET Slots : \E owner, expires : ReserveRefs(S, owner, expires)
      BY <2>1, ReserveMemoriesSelects DEF Reserve
    <3>. QED
      BY <3>1, ReserveTakes DEF Leases!LeaseNext
  <2>2. CASE Close
    <3>1. PICK R \in SUBSET ResId, state \in ClosedStates :
                 (\A r \in R : Open(r)) /\ CloseAll(R, state)
      BY <2>2, CloseIsCloseAll
    <3>. QED
      BY <3>1, CloseEnds DEF Leases!LeaseNext
  <2>3. CASE ~Reserve /\ ~Close
    BY <2>3, OthersKeepLeases DEF Next
  <2>. QED
    BY <2>1, <2>2, <2>3
<1>. QED
  BY <1>1, <1>2, SpecIInv, PTL DEF Spec, ImplementsLeases, Leases!LeaseSpec

-----------------------------------------------------------------------------
(* The registry, for any pair ids and slots.  That its records are well     *)
(* formed and that no slot is in two pairs are inductive together: a record *)
(* is entered under an id only after it was compared with every other, and  *)
(* the sweep only takes records out of use.                                 *)

PairIInv == Registry!TypeOK /\ Registry!OnePairPerSlot

-----------------------------------------------------------------------------

LEMMA PairInitIInv == Registry!Init => PairIInv
BY TimeAssumption DEF Registry!Init, PairIInv, Registry!TypeOK, Registry!OnePairPerSlot,
                      Registry!InUse, Registry!Unknown, Registry!Active, Registry!Ticks

(* A record that meets no conflict may be entered under any id.            *)
LEMMA EnteredIInv ==
  ASSUME PairIInv, NEW i \in PairIds, NEW record \in Registry!Records,
         Registry!NoConflict(record, PairIds \ {i}),
         pairs' = [pairs EXCEPT ![i] = record], now' = now
  PROVE  PairIInv'
<1>1. Registry!TypeOK'
  BY DEF PairIInv, Registry!TypeOK
<1>2. ASSUME NEW a \in PairIds, NEW b \in PairIds, a # b, Registry!InUse(a)', Registry!InUse(b)'
      PROVE  pairs'[a].ends \cap pairs'[b].ends = {}
  <2>1. \A j \in PairIds \ {i} : pairs'[j] = pairs[j] /\ (Registry!InUse(j)' <=> Registry!InUse(j))
    BY DEF PairIInv, Registry!TypeOK, Registry!InUse
  <2>2. pairs'[i] = record /\ (Registry!InUse(i)' <=> record.state \in Registry!Active)
    BY DEF PairIInv, Registry!TypeOK, Registry!InUse
  <2>3. CASE a = i
    BY <1>2, <2>1, <2>2, <2>3 DEF Registry!NoConflict
  <2>4. CASE b = i
    BY <1>2, <2>1, <2>2, <2>4 DEF Registry!NoConflict
  <2>5. CASE a # i /\ b # i
    BY <1>2, <2>1, <2>5 DEF PairIInv, Registry!OnePairPerSlot
  <2>. QED
    BY <2>3, <2>4, <2>5
<1>. QED
  BY <1>1, <1>2 DEF PairIInv, Registry!OnePairPerSlot

(* The lifecycle calls change the state of one known record.               *)
LEMMA ReplaceRecord ==
  ASSUME PairIInv, NEW i \in PairIds, NEW from \in SUBSET Registry!Active,
         NEW to \in Registry!Active \cup Registry!Terminal, Registry!Replace(i, from, to)
  PROVE  /\ PairIInv'
         /\ pairs[i].state \notin Registry!Terminal
         /\ \A j \in PairIds \ {i} : pairs'[j] = pairs[j]
<1>. DEFINE record == [pairs[i] EXCEPT !.state = to]
<1>1. pairs[i] \in Registry!Records
  BY DEF Registry!Replace, Registry!Known, PairIInv, Registry!TypeOK
<1>2. record \in Registry!Records
  BY <1>1 DEF Registry!Records
<1>3. Registry!NoConflict(record, PairIds \ {i}) /\ pairs' = [pairs EXCEPT ![i] = record] /\ now' = now
  BY DEF Registry!Replace
<1>4. PairIInv'
  BY <1>2, <1>3, EnteredIInv
<1>5. pairs[i].state \notin Registry!Terminal
  BY DEF Registry!Replace, Registry!Active, Registry!Terminal
<1>. QED
  BY <1>3, <1>4, <1>5 DEF PairIInv, Registry!TypeOK

(* All the calls that go through _replace. *)
LifecycleCall(i) ==
  \/ Registry!Reserve(i) \/ Registry!Release(i) \/ Registry!Consume(i)
  \/ Registry!Expire(i) \/ Registry!Fail(i)

LEMMA LifecycleRecord ==
  ASSUME PairIInv, NEW i \in PairIds, LifecycleCall(i)
  PROVE  /\ PairIInv'
         /\ pairs[i].state \notin Registry!Terminal
         /\ \A j \in PairIds \ {i} : pairs'[j] = pairs[j]
<1>1. PICK from \in SUBSET Registry!Active, to \in Registry!Active \cup Registry!Terminal :
        Registry!Replace(i, from, to)
  BY DEF LifecycleCall, Registry!Reserve, Registry!Release, Registry!Consume, Registry!Expire,
         Registry!Fail, Registry!Active, Registry!Terminal
<1>. QED
  BY <1>1, ReplaceRecord

LEMMA ExpireBeforeIInv == PairIInv /\ Registry!ExpireBefore => PairIInv'
<1>. SUFFICES ASSUME PairIInv, Registry!ExpireBefore PROVE PairIInv'
  OBVIOUS
<1>1. \A i \in PairIds :
        pairs'[i] = IF Registry!Lapsed(i) THEN [pairs[i] EXCEPT !.state = "expired"] ELSE pairs[i]
  BY DEF Registry!ExpireBefore
<1>2. \A i \in PairIds : Registry!Lapsed(i) => pairs[i] \in Registry!Records
  BY DEF PairIInv, Registry!TypeOK, Registry!Lapsed, Registry!InUse, Registry!Unknown,
         Registry!Active
<1>3. Registry!TypeOK'
  <2>1. \A i \in PairIds : pairs'[i] \in Registry!Records \cup {Registry!Unknown}
    <3>. SUFFICES ASSUME NEW i \in PairIds PROVE pairs'[i] \in Registry!Records \cup {Registry!Unknown}
      OBVIOUS
    <3>1. CASE Registry!Lapsed(i)
      BY <1>1, <1>2, <3>1 DEF Registry!Records, Registry!Terminal
    <3>2. CASE ~Registry!Lapsed(i)
      BY <1>1, <3>2 DEF PairIInv, Registry!TypeOK
    <3>. QED
      BY <3>1, <3>2
  <2>. QED
    BY <2>1 DEF PairIInv, Registry!TypeOK, Registry!ExpireBefore
<1>4. \A i \in PairIds : Registry!InUse(i)' => Registry!InUse(i) /\ pairs'[i] = pairs[i]
  <2>. SUFFICES ASSUME NEW i \in PairIds, Registry!InUse(i)' PROVE Registry!InUse(i) /\ pairs'[i] = pairs[i]
    OBVIOUS
  <2>1. ~Registry!Lapsed(i)
    <3>. SUFFICES ASSUME Registry!Lapsed(i) PROVE FALSE
      OBVIOUS
    <3>1. pairs'[i].state = "expired"
      BY <1>1, <1>2 DEF Registry!Records
    <3>. QED
      BY <3>1 DEF Registry!InUse, Registry!Active
  <2>2. pairs'[i] = pairs[i]
    BY <1>1, <2>1
  <2>. QED
    BY <2>2 DEF Registry!InUse
<1>. QED
  BY <1>3, <1>4 DEF PairIInv, Registry!OnePairPerSlot

LEMMA PairNextIInv == PairIInv /\ [Registry!Next]_(Registry!vars) => PairIInv'
<1>. SUFFICES ASSUME PairIInv, [Registry!Next]_(Registry!vars) PROVE PairIInv'
  OBVIOUS
<1>1. CASE Registry!Tick
  BY <1>1, TimeAssumption DEF Registry!Tick, PairIInv, Registry!TypeOK, Registry!Ticks,
                              Registry!OnePairPerSlot, Registry!InUse
<1>2. CASE Registry!ExpireBefore
  BY <1>2, ExpireBeforeIInv
<1>3. ASSUME NEW i \in PairIds, NEW record \in Registry!Records, Registry!Register(i, record)
      PROVE  PairIInv'
  <2>1. Registry!NoConflict(record, PairIds \ {i})
    BY <1>3 DEF Registry!Register, Registry!NoConflict
  <2>. QED
    BY <1>3, <2>1, EnteredIInv DEF Registry!Register
<1>4. ASSUME NEW i \in PairIds, LifecycleCall(i)
      PROVE  PairIInv'
  BY <1>4, LifecycleRecord
<1>5. CASE UNCHANGED Registry!vars
  BY <1>5 DEF Registry!vars, PairIInv, Registry!TypeOK, Registry!OnePairPerSlot, Registry!InUse
<1>. QED
  BY <1>1, <1>2, <1>3, <1>4, <1>5 DEF Registry!Next, LifecycleCall

LEMMA PairSpecIInv == Registry!Spec => []PairIInv
BY PairInitIInv, PairNextIInv, PTL DEF Registry!Spec

-----------------------------------------------------------------------------

(* Every record is well formed: no call of register or of the lifecycle    *)
(* methods leaves one with a state or ends that EntangledPairRecord would  *)
(* refuse.                                                                 *)
THEOREM RegistryTypeOK == Registry!Spec => []Registry!TypeOK
<1>1. PairIInv => Registry!TypeOK
  BY DEF PairIInv
<1>. QED
  BY <1>1, PairSpecIInv, PTL

(* No memory slot is in two pairs in use, however registrations, lifecycle *)
(* calls and sweeps follow one another.                                    *)
THEOREM RegistryOnePairPerSlot == Registry!Spec => []Registry!OnePairPerSlot
<1>1. PairIInv => Registry!OnePairPerSlot
  BY DEF PairIInv
<1>. QED
  BY <1>1, PairSpecIInv, PTL

(* A consumed, expired or failed pair keeps its record for good: no late   *)
(* report, sweep or new registration rewrites it.                          *)
THEOREM RegistryFateIsFinal == Registry!Spec => Registry!FateIsFinal
<1>1. PairIInv /\ [Registry!Next]_(Registry!vars) =>
        [\A i \in PairIds : pairs[i].state \in Registry!Terminal => pairs'[i] = pairs[i]]_(Registry!vars)
  <2>. SUFFICES ASSUME PairIInv, Registry!Next, NEW i \in PairIds, pairs[i].state \in Registry!Terminal
                PROVE  pairs'[i] = pairs[i]
    OBVIOUS
  <2>1. CASE Registry!Tick
    BY <2>1 DEF Registry!Tick
  <2>2. CASE Registry!ExpireBefore
    <3>1. ~Registry!Lapsed(i)
      BY DEF Registry!Lapsed, Registry!InUse, Registry!Active, Registry!Terminal
    <3>. QED
      BY <2>2, <3>1 DEF Registry!ExpireBefore
  <2>3. ASSUME NEW j \in PairIds, NEW record \in Registry!Records, Registry!Register(j, record)
        PROVE  pairs'[i] = pairs[i]
    <3>1. i # j
      BY <2>3 DEF Registry!Register, Registry!Known, Registry!Unknown, Registry!Terminal
    <3>. QED
      BY <2>3, <3>1 DEF Registry!Register, PairIInv, Registry!TypeOK
  <2>4. ASSUME NEW j \in PairIds, LifecycleCall(j)
        PROVE  pairs'[i] = pairs[i]
    BY <2>4, LifecycleRecord
  <2>. QED
    BY <2>1, <2>2, <2>3, <2>4 DEF Registry!Next, LifecycleCall
<1>. QED
  BY <1>1, PairSpecIInv, PTL DEF Registry!Spec, Registry!FateIsFinal

-----------------------------------------------------------------------------
(* The registry leases slots to pairs *)

(* With one pair in use per slot, Holder names it; None is no pair's id.   *)
HolderNames ==
  /\ Registry!Holder \in [Refs -> PairIds \cup {Never}]
  /\ \A s \in Refs, i \in PairIds : Registry!Holder[s] = i <=> i \in Registry!Users(s)

LEMMA HolderIsUser == PairIInv /\ Never \notin PairIds => HolderNames
<1>. SUFFICES ASSUME PairIInv, Never \notin PairIds, NEW s \in Refs
              PROVE  /\ Registry!Holder[s] \in PairIds \cup {Never}
                     /\ \A i \in PairIds : Registry!Holder[s] = i <=> i \in Registry!Users(s)
  BY DEF HolderNames, Registry!Holder
<1>1. Registry!Users(s) \subseteq PairIds /\ \A i, j \in Registry!Users(s) : i = j
  BY DEF Registry!Users, PairIInv, Registry!OnePairPerSlot
<1>2. CASE Registry!Users(s) = {}
  BY <1>2 DEF Registry!Holder
<1>3. ASSUME NEW i \in Registry!Users(s)
      PROVE  Registry!Holder[s] = i
  <2>1. Registry!Holder[s] = CHOOSE j \in Registry!Users(s) : TRUE
    BY <1>3 DEF Registry!Holder
  <2>2. (CHOOSE j \in Registry!Users(s) : TRUE) \in Registry!Users(s)
    BY <1>3
  <2>. QED
    BY <1>1, <1>3, <2>1, <2>2
<1>. QED
  BY <1>1, <1>2, <1>3

(* A step that takes pairs out of use and enters none ends their leases.   *)
LEMMA OutOfUseEnds ==
  ASSUME HolderNames, HolderNames', Never \notin PairIds,
         NEW R \in SUBSET Registry!Known, Registry!Known' = Registry!Known,
         \A i \in PairIds \ R :
           pairs'[i].ends = pairs[i].ends /\ (Registry!InUse(i)' <=> Registry!InUse(i)),
         \A i \in R : ~Registry!InUse(i)'
  PROVE  Registry!Leases!End(R)
<1>1. \A s \in Refs, i \in PairIds : i \in Registry!Users(s)' <=> i \in Registry!Users(s) /\ i \notin R
  BY DEF Registry!Users, Registry!Known
<1>2. \A s \in Refs : Registry!Holder'[s] = IF Registry!Holder[s] \in R THEN Never ELSE Registry!Holder[s]
  BY <1>1 DEF HolderNames, Registry!Known
<1>3. Registry!Holder' = [s \in Refs |-> IF Registry!Holder[s] \in R THEN Never ELSE Registry!Holder[s]]
  BY <1>2 DEF HolderNames
<1>. QED
  BY <1>3 DEF Registry!Leases!End

LEMMA RegisterTakes ==
  ASSUME PairIInv, HolderNames, HolderNames', Never \notin PairIds,
         NEW i \in PairIds, NEW record \in Registry!Records, Registry!Register(i, record)
  PROVE  Registry!Leases!LeaseNext
<1>. DEFINE S == IF record.state \in Registry!Active THEN record.ends ELSE {}
<1>1. /\ pairs' = [pairs EXCEPT ![i] = record]
      /\ pairs \in [PairIds -> Registry!Records \cup {Registry!Unknown}]
      /\ i \in PairIds \ Registry!Known /\ pairs[i] = Registry!Unknown
  BY DEF Registry!Register, PairIInv, Registry!TypeOK, Registry!Known
<1>2. record # Registry!Unknown /\ S \in SUBSET Refs
  BY DEF Registry!Records, Registry!Unknown, Registry!Active, Registry!Terminal, Registry!Ends
<1>3. Registry!Known' = Registry!Known \cup {i}
  BY <1>1, <1>2 DEF Registry!Known
<1>4. \A s \in Refs, j \in PairIds : j \in Registry!Users(s)' <=> j \in Registry!Users(s) \/ (j = i /\ s \in S)
  BY <1>1 DEF Registry!Users, Registry!InUse, Registry!Unknown, Registry!Active
<1>5. \A s \in S : Registry!Users(s) = {}
  BY DEF Registry!Register, Registry!NoConflict, Registry!Users
<1>6. \A s \in S : Registry!Holder[s] = Never
  BY <1>2, <1>5 DEF HolderNames
<1>7. \A s \in Refs : Registry!Holder'[s] = IF s \in S THEN i ELSE Registry!Holder[s]
  <2>. TAKE s \in Refs
  <2>1. CASE s \in S
    BY <1>4, <2>1 DEF HolderNames
  <2>2. CASE s \notin S
    <3>1. \A j \in PairIds : j \in Registry!Users(s)' <=> j \in Registry!Users(s)
      BY <1>4, <2>2
    <3>. HIDE DEF S
    <3>. QED
      BY <2>2, <3>1 DEF HolderNames
  <2>. QED
    BY <2>1, <2>2
<1>8. Registry!Holder' = [s \in Refs |-> IF s \in S THEN i ELSE Registry!Holder[s]]
  BY <1>7 DEF HolderNames
<1>. HIDE DEF S
<1>. QED
  BY <1>1, <1>2, <1>3, <1>6, <1>8 DEF Registry!Leases!LeaseNext, Registry!Leases!Take

(* A lifecycle call keeps the pair in use, or ends its lease.              *)
LEMMA ReplaceLease ==
  ASSUME PairIInv, HolderNames, HolderNames', Never \notin PairIds, NEW i \in PairIds,
         NEW from \in SUBSET Registry!Active, NEW to \in Registry!Active \cup Registry!Terminal,
         Registry!Replace(i, from, to)
  PROVE  Registry!Leases!LeaseNext \/ UNCHANGED <<Registry!Holder, Registry!Known>>
<1>1. /\ pairs' = [pairs EXCEPT ![i] = [pairs[i] EXCEPT !.state = to]]
      /\ i \in Registry!Known /\ Registry!InUse(i)
  BY DEF Registry!Replace, Registry!InUse
<1>2. pairs \in [PairIds -> Registry!Records \cup {Registry!Unknown}] /\ pairs[i] \in Registry!Records
  BY <1>1 DEF PairIInv, Registry!TypeOK, Registry!Known
<1>3. pairs'[i].state = to /\ pairs'[i].ends = pairs[i].ends
  BY <1>1, <1>2 DEF Registry!Records
<1>4. \A j \in PairIds \ {i} : pairs'[j] = pairs[j]
  BY <1>1, <1>2
<1>5. Registry!Known' = Registry!Known
  BY <1>1, <1>2, <1>3, <1>4 DEF Registry!Known, Registry!Unknown, Registry!Active, Registry!Terminal
<1>6. CASE to \in Registry!Active
  <2>1. \A s \in Refs, j \in PairIds : j \in Registry!Users(s)' <=> j \in Registry!Users(s)
    BY <1>1, <1>3, <1>4, <1>6 DEF Registry!Users, Registry!InUse
  <2>2. \A s \in Refs : Registry!Holder'[s] = Registry!Holder[s]
    BY <2>1 DEF HolderNames
  <2>. QED
    BY <1>5, <2>2 DEF HolderNames
<1>7. CASE to \in Registry!Terminal
  <2>1. /\ ~Registry!InUse(i)'
        /\ \A j \in PairIds \ {i} :
             pairs'[j].ends = pairs[j].ends /\ (Registry!InUse(j)' <=> Registry!InUse(j))
    BY <1>3, <1>4, <1>7 DEF Registry!InUse, Registry!Active, Registry!Terminal
  <2>2. Registry!Leases!End({i})
    BY <1>1, <1>5, <2>1, OutOfUseEnds
  <2>. QED
    BY <2>2 DEF Registry!Leases!LeaseNext
<1>. QED
  BY <1>6, <1>7

LEMMA SweepEnds ==
  ASSUME PairIInv, HolderNames, HolderNames', Never \notin PairIds, Registry!ExpireBefore
  PROVE  Registry!Leases!LeaseNext
<1>. DEFINE R == {i \in PairIds : Registry!Lapsed(i)}
<1>1. \A i \in PairIds :
        pairs'[i] = IF Registry!Lapsed(i) THEN [pairs[i] EXCEPT !.state = "expired"] ELSE pairs[i]
  BY DEF Registry!ExpireBefore
<1>2. \A i \in R : pairs[i] \in Registry!Records /\ pairs'[i].state = "expired"
  <2>. TAKE i \in R
  <2>1. pairs[i] \in Registry!Records
    BY DEF PairIInv, Registry!TypeOK, Registry!Lapsed, Registry!InUse, Registry!Unknown,
           Registry!Active
  <2>. QED
    BY <1>1, <2>1 DEF Registry!Records
<1>3. R \in SUBSET Registry!Known /\ Registry!Known' = Registry!Known
  <2>1. \A i \in R : pairs[i] # Registry!Unknown /\ pairs'[i] # Registry!Unknown
    BY <1>2 DEF Registry!Unknown, Registry!Records, Registry!Active, Registry!Terminal
  <2>2. \A i \in PairIds \ R : pairs'[i] = pairs[i]
    BY <1>1
  <2>. HIDE DEF R
  <2>3. R \subseteq PairIds
    BY DEF R
  <2>. QED
    BY <2>1, <2>2, <2>3 DEF Registry!Known
<1>4. \A i \in PairIds \ R : pairs'[i].ends = pairs[i].ends /\ (Registry!InUse(i)' <=> Registry!InUse(i))
  BY <1>1 DEF Registry!InUse
<1>5. \A i \in R : ~Registry!InUse(i)'
  BY <1>2 DEF Registry!InUse, Registry!Active
<1>. HIDE DEF R
<1>6. R \in SUBSET PairIds
  BY <1>3 DEF Registry!Known
<1>. QED
  BY <1>3, <1>4, <1>5, <1>6, OutOfUseEnds DEF Registry!Leases!LeaseNext

(* Slots are leased to pairs exclusively and as a whole, and a pair's name *)
(* is used once: registering, lifecycle calls and sweeps do nothing else   *)
(* to the leases.                                                          *)
THEOREM RegistryImplementsLeases ==
  ASSUME Never \notin PairIds
  PROVE  Registry!Spec => Registry!ImplementsLeases
<1>1. Registry!Init => Registry!Leases!LeaseInit
  <2>. SUFFICES ASSUME Registry!Init PROVE Registry!Leases!LeaseInit
    OBVIOUS
  <2>1. \A i \in PairIds : pairs[i] = Registry!Unknown
    BY DEF Registry!Init
  <2>2. Registry!Known = {} /\ \A s \in Refs : Registry!Users(s) = {}
    BY <2>1 DEF Registry!Known, Registry!Users, Registry!InUse, Registry!Unknown, Registry!Active
  <2>. QED
    BY <2>2 DEF Registry!Leases!LeaseInit, Registry!Holder
<1>2. HolderNames /\ HolderNames' /\ PairIInv /\ [Registry!Next]_(Registry!vars) =>
        [Registry!Leases!LeaseNext]_(Registry!Leases!leaseVars)
  <2>. SUFFICES ASSUME HolderNames, HolderNames', PairIInv, [Registry!Next]_(Registry!vars)
                PROVE  Registry!Leases!LeaseNext \/ UNCHANGED <<Registry!Holder, Registry!Known>>
    BY DEF Registry!Leases!leaseVars
  <2>1. CASE Registry!Tick \/ UNCHANGED Registry!vars
    <3>1. pairs' = pairs
      BY <2>1 DEF Registry!Tick, Registry!vars
    <3>. QED
      BY <3>1 DEF Registry!Holder, Registry!Known, Registry!Users, Registry!InUse
  <2>2. CASE Registry!ExpireBefore
    BY <2>2, SweepEnds
  <2>3. ASSUME NEW i \in PairIds, NEW record \in Registry!Records, Registry!Register(i, record)
        PROVE  Registry!Leases!LeaseNext
    BY <2>3, RegisterTakes
  <2>4. ASSUME NEW i \in PairIds, LifecycleCall(i)
        PROVE  Registry!Leases!LeaseNext \/ UNCHANGED <<Registry!Holder, Registry!Known>>
    <3>1. PICK from \in SUBSET Registry!Active, to \in Registry!Active \cup Registry!Terminal :
        Registry!Replace(i, from, to)
      BY <2>4 DEF LifecycleCall, Registry!Reserve, Registry!Release, Registry!Consume,
                  Registry!Expire, Registry!Fail, Registry!Active, Registry!Terminal
    <3>. QED
      BY <3>1, ReplaceLease
  <2>. QED
    BY <2>1, <2>2, <2>3, <2>4 DEF Registry!Next, LifecycleCall
<1>3. Registry!Spec => []HolderNames
  BY HolderIsUser, PairSpecIInv, PTL
<1>. QED
  BY <1>1, <1>2, <1>3, PairSpecIInv, PTL DEF Registry!Spec, Registry!ImplementsLeases,
                                             Registry!Leases!LeaseSpec

-----------------------------------------------------------------------------
(* The ledger beside the registry *)

(* Whoever calls, the one does what its own specification allows while the *)
(* other does nothing or lets the tick pass.                               *)
LEMMA LedgersAreBoth == LedgersSpec => Spec /\ Registry!Spec
<1>1. LedgersInit => Init /\ Registry!Init
  BY DEF LedgersInit
<1>2. [LedgersNext]_<<vars, pairs>> => [Next]_vars /\ [Registry!Next]_(Registry!vars)
  <2>. SUFFICES ASSUME [LedgersNext]_<<vars, pairs>>
                PROVE  [Next]_vars /\ [Registry!Next]_(Registry!vars)
    OBVIOUS
  <2>1. CASE Next /\ UNCHANGED pairs
    <3>1. Registry!Tick \/ now' = now
      <4>1. Tick => Registry!Tick
        BY <2>1 DEF Tick, Registry!Tick
      <4>2. Mark => now' = now
        BY DEF Mark, MarkOccupied, MarkConsumed, MarkExpired, MarkFailed, MarkFree, MarkFrom
      <4>3. Close => now' = now
        BY CloseIsCloseAll DEF CloseAll
      <4>4. Reserve => now' = now
        BY ReserveMemoriesSelects DEF Reserve, ReserveRefs
      <4>5. ~Tick /\ ~Mark /\ ~Close /\ ~Reserve => now' = now
        BY <2>1 DEF Next, RegisterMemory, ReserveRejected, Commit
      <4>. QED
        BY <4>1, <4>2, <4>3, <4>4, <4>5
    <3>. QED
      BY <2>1, <3>1 DEF Registry!Next, Registry!vars
  <2>2. CASE Registry!Next /\ UNCHANGED ledgerVars
    <3>1. Registry!Tick => Tick
      BY <2>2 DEF Tick, Registry!Tick, ledgerVars
    <3>2. ~Registry!Tick => now' = now
      BY <2>2 DEF Registry!Next, Registry!ExpireBefore, Registry!Register, Registry!Reserve,
            Registry!Release, Registry!Consume, Registry!Expire, Registry!Fail, Registry!Replace
    <3>. QED
      BY <2>2, <3>1, <3>2 DEF Next, vars, ledgerVars
  <2>3. CASE UNCHANGED <<vars, pairs>>
    BY <2>3 DEF vars, Registry!vars
  <2>. QED
    BY <2>1, <2>2, <2>3 DEF LedgersNext
<1>. QED
  BY <1>1, <1>2, PTL DEF LedgersSpec, Spec, Registry!Spec

(* No slot holds halves of two pairs in use.                               *)
THEOREM LedgersOnePairPerSlot == LedgersSpec => []OnePairPerSlot
<1>1. Registry!OnePairPerSlot => OnePairPerSlot
  BY DEF OnePairPerSlot
<1>. QED
  BY <1>1, LedgersAreBoth, RegistryOnePairPerSlot, PTL

(* Ledger and registry lease slots under the same rules.                   *)
THEOREM LedgersImplementLeases == LedgersSpec => BothImplementLeases
<1>1. Registry!Spec => Registry!ImplementsLeases
  BY RegistryImplementsLeases, PairAssumption
<1>. QED
  BY <1>1, LedgersAreBoth, SpecImplementsLeases, PTL DEF BothImplementLeases
=============================================================================

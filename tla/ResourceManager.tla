--------------------------- MODULE ResourceManager --------------------------
(***************************************************************************)
(* The ledger of memory slots and reservations, resources/manager.py with  *)
(* the records of reservation.py and memory.py.  It is plain bookkeeping:  *)
(* agents of several owners call it, in any order and at any tick, and the *)
(* memories it describes tell it nothing, so that callers may report any   *)
(* slot as occupied, consumed, expired, failed or free at any moment.      *)
(***************************************************************************)
EXTENDS Integers, FiniteSets

CONSTANTS Slots,            \* memory refs, numbered in the order of their keys
          Nodes,            \* node ids
          NodeOf,           \* the node of a slot
          DeviceOf,         \* the memory device of a slot; a device is on one node
          Owners,           \* who asks for reservations
          MaxReservations,  \* bound: reservations ever made
          MaxTime,          \* bound: last tick
          Never             \* an expiry or readiness time that is None

ASSUME TimeAssumption == MaxTime \in Nat /\ Never \notin Int

ASSUME ResourceAssumption ==
  /\ Slots \subseteq Int
  /\ NodeOf \in [Slots -> Nodes]
  /\ DOMAIN DeviceOf = Slots
  /\ MaxReservations \in Nat

VARIABLES
  now,            \* the tick callers pass as now
  slot,           \* _slots: slot -> its MemorySlotState, or "unregistered"
  readyAt,        \* slot -> ready_at, fixed when the slot is registered
  reservation,    \* _reservations: the reservations by id
  holder,         \* _memory_holders: slot -> reservation id, or NoHolder
  nextIndex       \* _next_reservation_index

vars == <<now, slot, readyAt, reservation, holder, nextIndex>>

Ticks == 0..MaxTime

ResId    == 0..(MaxReservations - 1)
NoHolder == -1
Devices  == {DeviceOf[s] : s \in Slots}
Expiries == Ticks \cup {Never}

SlotStates   == {"free", "reserved", "occupied", "consumed", "expired", "failed"}
OpenStates   == {"active", "committed"}
ClosedStates == {"released", "cancelled", "expired"}

(* A reservation of the ledger; "none" is an id that was never used. *)
NoReservation == [state |-> "none", refs |-> {}, owner |-> Never, expires |-> Never]
Reservations  == [state : OpenStates \cup ClosedStates, refs : (SUBSET Slots) \ {{}},
                  owner : Owners, expires : Expiries]

Registered == {s \in Slots : slot[s] # "unregistered"}
Known      == {r \in ResId : reservation[r] # NoReservation}
Open(r)    == reservation[r].state \in OpenStates

-----------------------------------------------------------------------------

(* from_network: a slot of a device found on the network starts out free   *)
(* or occupied, as the position's status says, and with its ready_at.      *)
Init ==
  /\ now = 0
  /\ \E D \in SUBSET Devices :
       slot \in {f \in [Slots -> {"unregistered", "free", "occupied"}] :
                   \A s \in Slots : f[s] # "unregistered" <=> DeviceOf[s] \in D}
  /\ readyAt \in [Slots -> {Never, MaxTime}]
  /\ \A s \in Slots : slot[s] # "free" => readyAt[s] = Never
  /\ reservation = [r \in ResId |-> NoReservation]
  /\ holder = [s \in Slots |-> NoHolder]
  /\ nextIndex = 0

Tick == /\ now < MaxTime
        /\ now' = now + 1
        /\ UNCHANGED <<slot, readyAt, reservation, holder, nextIndex>>

(* register_memory: all slots of a device, none of which may be known yet. *)
RegisterMemory(d) ==
  /\ \A s \in Slots : DeviceOf[s] = d => s \notin Registered
  /\ slot' = [s \in Slots |-> IF DeviceOf[s] = d THEN "free" ELSE slot[s]]
  /\ UNCHANGED <<now, readyAt, reservation, holder, nextIndex>>

(* A mistake: what is physically free is available, held or not. *)
AvailableIfEmpty(s) ==
  /\ slot[s] \in {"free", "reserved"}
  /\ readyAt[s] # Never => readyAt[s] <= now

(* _is_available *)
Available(s) ==
  /\ slot[s] = "free"
  /\ readyAt[s] # Never => readyAt[s] <= now
  /\ holder[s] = NoHolder

(* _resolve_reservation_id: the caller's id if it is new, or the first     *)
(* generated one, from the counter on, that no caller has used.            *)
FreshId(r) ==
  /\ r \in ResId \ Known
  /\ \/ UNCHANGED nextIndex
     \/ /\ r >= nextIndex
        /\ \A i \in nextIndex..(r - 1) : i \in Known
        /\ nextIndex' = r + 1

(* reserve_memory_refs *)
ReserveRefs(S, owner, expires) ==
  /\ S # {}
  /\ \A s \in S : Available(s)
  /\ \E r \in ResId :
       /\ FreshId(r)
       /\ reservation' = [reservation EXCEPT ![r] =
            [state |-> "active", refs |-> S, owner |-> owner, expires |-> expires]]
       /\ holder' = [s \in Slots |-> IF s \in S THEN r ELSE holder[s]]
  /\ slot' = [s \in Slots |-> IF s \in S THEN "reserved" ELSE slot[s]]
  /\ UNCHANGED <<now, readyAt>>

(* The generated id is used up before the record's own checks, here that   *)
(* it does not expire before it was created, refuse the reservation.       *)
ReserveRejected(S) ==
  /\ S # {}
  /\ \A s \in S : Available(s)
  /\ \E r \in ResId : FreshId(r) /\ nextIndex' # nextIndex
  /\ UNCHANGED <<now, slot, readyAt, reservation, holder>>

(* The k lowest slots of S in the order of their keys. *)
Lowest(S, k) == {s \in S : Cardinality({t \in S : t < s}) < k}

(* reserve_memories: per node, or per device of a node, the lowest         *)
(* available slots; too few on any of them and nothing is reserved.        *)
ReserveMemories(need, GroupOf, owner, expires) ==
  LET Group(g)  == {s \in Slots : GroupOf[s] = g /\ Available(s)}
      Groups    == {g \in DOMAIN need : need[g] > 0}
  IN  /\ \A g \in Groups : Cardinality(Group(g)) >= need[g]
      /\ ReserveRefs(UNION {Lowest(Group(g), need[g]) : g \in Groups}, owner, expires)

Commit(r, owner) ==
  /\ r \in Known
  /\ reservation[r].owner = owner
  /\ reservation[r].state = "active"
  /\ reservation' = [reservation EXCEPT ![r].state = "committed"]
  /\ UNCHANGED <<now, slot, readyAt, holder, nextIndex>>

-----------------------------------------------------------------------------
(* Closing reservations *)

(* A mistake: whatever the slots of a closed reservation hold, they are    *)
(* given back as free.                                                     *)
CloseAllFreeing(R, state) ==
  LET refs == UNION {reservation[r].refs : r \in R} IN
  /\ reservation' = [r \in ResId |->
       IF r \in R THEN [reservation[r] EXCEPT !.state = state] ELSE reservation[r]]
  /\ holder' = [s \in Slots |-> IF s \in refs THEN NoHolder ELSE holder[s]]
  /\ slot' = [s \in Slots |-> IF s \in refs THEN "free" ELSE slot[s]]
  /\ UNCHANGED <<now, readyAt, nextIndex>>

(* _close_reservation for each of R: the slots lose their holder, and only *)
(* those nothing has happened to become free.  Its two RuntimeErrors, for  *)
(* a slot held by nobody or by another, are what LedgerConsistent excludes.*)
CloseAll(R, state) ==
  LET refs == UNION {reservation[r].refs : r \in R} IN
  /\ reservation' = [r \in ResId |->
       IF r \in R THEN [reservation[r] EXCEPT !.state = state] ELSE reservation[r]]
  /\ holder' = [s \in Slots |-> IF s \in refs THEN NoHolder ELSE holder[s]]
  /\ slot' = [s \in Slots |->
                IF s \in refs /\ slot[s] = "reserved" THEN "free" ELSE slot[s]]
  /\ UNCHANGED <<now, readyAt, nextIndex>>

Release(r, owner) == /\ Open(r) /\ reservation[r].owner = owner
                     /\ CloseAll({r}, "released")

CancelReservation(r, owner) == /\ Open(r) /\ reservation[r].owner = owner
                               /\ CloseAll({r}, "cancelled")

(* expire_reservation asks for no owner and does not look at the time. *)
ExpireReservation(r) == Open(r) /\ CloseAll({r}, "expired")

Due(r) == Open(r) /\ reservation[r].expires # Never /\ reservation[r].expires <= now

(* expire_before(now) *)
ExpireBefore == CloseAll({r \in ResId : Due(r)}, "expired")

-----------------------------------------------------------------------------
(* Mirroring what happened to the physical slot; nobody's ownership is     *)
(* asked for.                                                              *)

MarkFrom(s, from, to) ==
  /\ slot[s] \in from
  /\ slot' = [slot EXCEPT ![s] = to]
  /\ UNCHANGED <<now, readyAt, reservation, holder, nextIndex>>

MarkOccupied(s) == MarkFrom(s, {"free", "reserved"}, "occupied")
MarkConsumed(s) == MarkFrom(s, {"occupied"}, "consumed")
MarkExpired(s)  == MarkFrom(s, {"reserved", "occupied"}, "expired")
MarkFailed(s)   == MarkFrom(s, SlotStates, "failed")

(* A mistake: an empty slot is free, whoever holds it. *)
MarkFreeAlways(s) == MarkFrom(s, SlotStates, "free")

MarkFree(s) ==
  MarkFrom(s, SlotStates, IF holder[s] = NoHolder THEN "free" ELSE "reserved")

-----------------------------------------------------------------------------

Needs(G) == [G -> 0..Cardinality(Slots)]

Reserve ==
  \E owner \in Owners, expires \in Expiries :
    \/ \E S \in SUBSET Slots : ReserveRefs(S, owner, expires)
    \/ \E need \in Needs(Nodes)   : ReserveMemories(need, NodeOf, owner, expires)
    \/ \E need \in Needs(Devices) : ReserveMemories(need, DeviceOf, owner, expires)

Close ==
  \/ \E r \in ResId, owner \in Owners : Release(r, owner) \/ CancelReservation(r, owner)
  \/ \E r \in ResId : ExpireReservation(r)
  \/ ExpireBefore

Mark == \E s \in Slots : \/ MarkOccupied(s) \/ MarkConsumed(s) \/ MarkExpired(s)
                         \/ MarkFailed(s) \/ MarkFree(s)

Next ==
  \/ Tick
  \/ \E d \in Devices : RegisterMemory(d)
  \/ Reserve
  \/ \E S \in SUBSET Slots : ReserveRejected(S)
  \/ \E r \in ResId, owner \in Owners : Commit(r, owner)
  \/ Close
  \/ Mark

Spec == Init /\ [][Next]_vars

-----------------------------------------------------------------------------
(* Properties *)

TypeOK ==
  /\ now \in Ticks
  /\ slot \in [Slots -> SlotStates \cup {"unregistered"}]
  /\ readyAt \in [Slots -> Expiries]
  /\ reservation \in [ResId -> Reservations \cup {NoReservation}]
  /\ holder \in [Slots -> ResId \cup {NoHolder}]
  /\ nextIndex \in 0..MaxReservations

(* A slot is held by exactly the open reservation that lists it: no two    *)
(* open reservations share a slot, and closing one never fails half way.   *)
HoldersExact ==
  \A s \in Slots, r \in ResId :
    holder[s] = r <=> (Open(r) /\ s \in reservation[r].refs)

(* What the slot's own state says about it agrees with the holders: a      *)
(* reserved slot is held, a free one is not.                               *)
StatesAgree ==
  \A s \in Slots : /\ slot[s] = "reserved" => holder[s] # NoHolder
                   /\ slot[s] \in {"free", "unregistered"} => holder[s] = NoHolder

(* Through any sequence of reservations, closings and reports from several *)
(* owners the three maps of the ledger tell one story.                     *)
LedgerConsistent == HoldersExact /\ StatesAgree

(* Taking or closing a reservation never changes what happened physically: *)
(* a slot found occupied, consumed, expired or failed stays so, and is not *)
(* handed to the next caller as free.                                      *)
PhysicalStateKept ==
  [][\A s \in Slots : holder'[s] # holder[s] =>
       \/ slot'[s] = slot[s]
       \/ slot[s] = "reserved" /\ slot'[s] = "free"
       \/ slot[s] = "free" /\ slot'[s] = "reserved"
            /\ (readyAt[s] # Never => readyAt[s] <= now)]_vars

Leases == INSTANCE SlotLease WITH
            Slot <- Slots, Lease <- ResId, Nobody <- NoHolder, taken <- Known

(* The ledger implements exclusive, all-or-nothing leases of slots.        *)
ImplementsLeases == Leases!LeaseSpec
=============================================================================

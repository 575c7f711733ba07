---------------------------- MODULE PairRegistry ----------------------------
(***************************************************************************)
(* The registry of entangled pairs, entanglement/registry.py with the      *)
(* records of pair.py.  A record names the two memory slots its pair lives *)
(* in; the registry keeps the life of every record and that no slot is in  *)
(* two pairs that are still in use.  Callers are the agents of both nodes  *)
(* of a pair, and protocol code that holds records from before.            *)
(***************************************************************************)
EXTENDS Integers, FiniteSets

CONSTANTS PairIds,   \* pair ids
          Slots,     \* memory refs
          MaxTime,   \* bound: last tick
          Never      \* an expiry that is None

VARIABLES pairs,  \* _pairs: pair id -> its record, or Unknown
          now     \* the tick callers pass as now

vars == <<now, pairs>>

Ticks == 0..MaxTime

Active   == {"available", "reserved"}
Terminal == {"consumed", "expired", "failed"}
Ends     == {S \in SUBSET Slots : \E a, b \in S : a # b /\ S = {a, b}}

Unknown == [state |-> "unknown", ends |-> {}, expires |-> Never]
Records == [state : Active \cup Terminal, ends : Ends, expires : Ticks \cup {Never}]

Known      == {i \in PairIds : pairs[i] # Unknown}
InUse(i)   == pairs[i].state \in Active

Init == now = 0 /\ pairs = [i \in PairIds |-> Unknown]

Tick == now < MaxTime /\ now' = now + 1 /\ UNCHANGED pairs

(* A mistake: only available pairs are in the way of a new one. *)
NoConflictAvailable(record, others) ==
  record.state \in Active =>
    \A j \in others : pairs[j].state = "available" => record.ends \cap pairs[j].ends = {}

(* _ensure_no_active_memory_conflict *)
NoConflict(record, others) ==
  record.state \in Active =>
    \A j \in others : InUse(j) => record.ends \cap pairs[j].ends = {}

(* A record may come with any state: of a pair that is known to be gone,   *)
(* or one reserved before it is registered.                                *)
Register(i, record) ==
  /\ i \notin Known
  /\ NoConflict(record, PairIds)
  /\ pairs' = [pairs EXCEPT ![i] = record]
  /\ UNCHANGED now

(* _replace, after the caller has asked for the state the pair was in.     *)
Replace(i, from, to) ==
  LET record == [pairs[i] EXCEPT !.state = to] IN
  /\ i \in Known
  /\ pairs[i].state \in from
  /\ NoConflict(record, PairIds \ {i})
  /\ pairs' = [pairs EXCEPT ![i] = record]
  /\ UNCHANGED now

Reserve(i) == Replace(i, {"available"}, "reserved")
Release(i) == Replace(i, {"reserved"}, "available")
Consume(i) == Replace(i, Active, "consumed")
Expire(i)  == Replace(i, Active, "expired")
Fail(i)    == Replace(i, Active, "failed")

Lapsed(i) == InUse(i) /\ pairs[i].expires # Never /\ pairs[i].expires <= now

(* expire_before(now) *)
ExpireBefore ==
  /\ pairs' = [i \in PairIds |->
       IF Lapsed(i) THEN [pairs[i] EXCEPT !.state = "expired"] ELSE pairs[i]]
  /\ UNCHANGED now

Next ==
  \/ Tick
  \/ ExpireBefore
  \/ \E i \in PairIds :
       \/ \E record \in Records : Register(i, record)
       \/ Reserve(i) \/ Release(i) \/ Consume(i) \/ Expire(i) \/ Fail(i)

Spec == Init /\ [][Next]_vars

-----------------------------------------------------------------------------
(* Properties *)

TypeOK == now \in Ticks /\ pairs \in [PairIds -> Records \cup {Unknown}]

(* A slot holds one half of one pair at most: pair_using_memory has one    *)
(* answer, and no lifecycle call is refused for the sake of another pair.  *)
OnePairPerSlot ==
  \A i, j \in PairIds : i # j /\ InUse(i) /\ InUse(j) => pairs[i].ends \cap pairs[j].ends = {}

(* What has become of a pair is final, its id is not used again, and the   *)
(* sweep rewrites no history.                                              *)
FateIsFinal ==
  [][\A i \in PairIds : pairs[i].state \in Terminal => pairs'[i] = pairs[i]]_vars

Users(s) == {i \in PairIds : InUse(i) /\ s \in pairs[i].ends}

Holder == [s \in Slots |-> IF Users(s) = {} THEN Never ELSE CHOOSE i \in Users(s) : TRUE]

Leases == INSTANCE SlotLease WITH
            Slot <- Slots, Lease <- PairIds, Nobody <- Never,
            holder <- Holder, taken <- Known

(* The registry leases slots to pairs under the same rules as the resource *)
(* manager does to reservations.                                           *)
ImplementsLeases == Leases!LeaseSpec
=============================================================================

------------------------------ MODULE MCLedgers ------------------------------
(* The ledger of two slots, one position of each of two memories on a node, *)
(* and the registry of three pairs over three slots.  Neither reads the     *)
(* other, and agents call them independently; each is explored while the    *)
(* other is as it was made.                                                 *)
EXTENDS ResourceManager

CONSTANTS PairIds, Refs

ASSUME PairAssumption == Never \notin PairIds

VARIABLE pairs

Registry == INSTANCE PairRegistry WITH Slots <- Refs

MCSlots    == 0..1
MCNodeOf   == [s \in MCSlots |-> "alice"]
MCDeviceOf == [s \in MCSlots |-> IF s = 0 THEN "qmem_a" ELSE "qmem_b"]
MCNodes    == {"alice"}

ledgerVars == <<slot, readyAt, reservation, holder, nextIndex>>

LedgersInit == Init /\ Registry!Init

LedgersNext ==
  \/ Registry!Known = {} /\ Next /\ UNCHANGED pairs
  \/ /\ Registered = {} /\ nextIndex = 0 /\ readyAt = [s \in Slots |-> Never] /\ Registry!Next
     /\ UNCHANGED ledgerVars

LedgersSpec == LedgersInit /\ [][LedgersNext]_<<vars, pairs>>

(* A slot holds one half of one pair at most (entanglement/registry.py,    *)
(* _ensure_no_active_memory_conflict).                                     *)
OnePairPerSlot == Registry!OnePairPerSlot

(* The ledger leases slots to reservations, and the registry to pairs,     *)
(* under the same rules: exclusively, as a whole, and once under a name.   *)
BothImplementLeases == ImplementsLeases /\ Registry!ImplementsLeases
=============================================================================

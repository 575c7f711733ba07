----------------------------- MODULE SlotLease ------------------------------
(***************************************************************************)
(* What reserving memory slots promises: a slot has at most one holder, a  *)
(* lease is taken and ended as a whole, and its name is never used again.  *)
(***************************************************************************)
CONSTANTS Slot, Lease, Nobody

VARIABLES holder,    \* slot -> the lease that holds it, or Nobody
          taken      \* the leases there have ever been

leaseVars == <<holder, taken>>

LeaseInit == holder = [s \in Slot |-> Nobody] /\ taken = {}

(* A lease of no slot at all has its name, and that is used up too. *)
Take(r, S) == /\ r \in Lease \ taken
              /\ \A s \in S : holder[s] = Nobody
              /\ taken' = taken \cup {r}
              /\ holder' = [s \in Slot |-> IF s \in S THEN r ELSE holder[s]]

(* A sweep may end several leases in one call. *)
End(R) == /\ R \subseteq taken
          /\ holder' = [s \in Slot |-> IF holder[s] \in R THEN Nobody ELSE holder[s]]
          /\ UNCHANGED taken

LeaseNext == \/ \E R \in SUBSET Lease : End(R)
             \/ \E r \in Lease, S \in SUBSET Slot : Take(r, S)

LeaseSpec == LeaseInit /\ [][LeaseNext]_leaseVars
=============================================================================

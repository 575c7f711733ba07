------------------------- MODULE SubsystemOwnership -------------------------
(***************************************************************************)
(* What the store of quantum states promises to the components that hold   *)
(* subsystem names: every name that exists is in exactly one joint state,  *)
(* states are only ever merged, and a name leaves the store when its       *)
(* subsystem is discarded, never because of an operation on another one.   *)
(***************************************************************************)
CONSTANT Label      \* subsystem names

VARIABLE groups     \* the sets of names that share one joint state

Owned == UNION groups

OwnershipInit == groups = {}

Create(S) == /\ S \cap Owned = {} /\ S # {}
             /\ groups' = groups \cup {S}

Join(G) == groups' = (groups \ G) \cup {UNION G}

Drop(g, S) == groups' = (groups \ {g}) \cup ({g \ S} \ {{}})

Rename(g, old, new) == /\ old \in g /\ new \notin Owned
                       /\ groups' = (groups \ {g}) \cup {(g \ {old}) \cup {new}}

Forget == groups' = {}

OwnershipNext ==
  \/ \E S \in SUBSET Label : Create(S)
  \/ \E G \in SUBSET groups : G # {} /\ Join(G)
  \/ \E g \in groups : \E S \in SUBSET g : Drop(g, S)
  \/ \E g \in groups, old, new \in Label : Rename(g, old, new)
  \/ Forget

OwnershipSpec == OwnershipInit /\ [][OwnershipNext]_groups

(* Every name is in one joint state at most, and no joint state is empty:  *)
(* the uniqueness that QuantumStateStore declares.                         *)
OneOwner == /\ \A g, h \in groups : g # h => g \cap h = {}
            /\ groups \subseteq (SUBSET Label) \ {{}}
=============================================================================

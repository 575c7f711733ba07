--------------------------- MODULE MCQuantumStates ---------------------------
(* What the quantum states of a run are for their users: the store, with    *)
(* its names and axes and without numbers; Bell pairs, with their numbers   *)
(* and without names; and a register of up to three qubits, number by       *)
(* number.  None of the three is read by another: each is explored while    *)
(* the others are as they were made.                                        *)
EXTENDS PairRepresentations, DenseStates

Prepared(rep, label) == [rep |-> rep, label |-> label, probs |-> Pure(label)]

MCPreparations ==
  {<<Prepared("ket", l), Prepared("ket", m)>> : l \in Labels, m \in Labels} \cup
  {<<Prepared("density", l), Prepared("bell_diag", 5 - l)>> : l \in Labels} \cup
  { << [rep |-> "bell_diag", label |-> 4, probs |-> <<1, 1, 1, 3>>],
       [rep |-> "density", label |-> 1, probs |-> <<2, 0, 1, 0>>] >>,
    <<Prepared("ket", 2), Prepared("ket", 4), Prepared("ket", 3)>>,
    <<Prepared("bell_diag", 1)>> }

MCPauliPairs == {<<"X", "I">>, <<"I", "Y">>, <<"Z", "X">>}

MCMixtures ==
  { [pq \in {<<"I", "I">>, <<"I", "X">>, <<"I", "Y">>, <<"I", "Z">>} |->
       IF pq[2] = "I" THEN 3 ELSE 1],
    [pq \in {<<"I", "I">>, <<"Z", "Z">>} |-> IF pq[1] = "I" THEN 2 ELSE 1] }

(* Kets and gates are given up to a factor, channels and POVMs up to the    *)
(* factor that all their operators have in common.                          *)
Sure(v) == << [ket |-> v, weight |-> 1] >>
PlusI   == <<Unit, Imag(1)>>

MCSamplers ==
  { Sure(PlusI),
    << [ket |-> <<Unit, Unit, None, Imag(2)>>, weight |-> 1],
       [ket |-> <<None, Unit, Real(-1), None>>, weight |-> 3],
       [ket |-> <<Unit, None, None, None>>, weight |-> 0] >>,
    Sure(<<Unit, None, Unit, Imag(1), None, Real(2), Real(-1), None>>) }

MCUnitaries == {Hadamard, PhaseS, PauliMatrix.Y, ControlledX(1), ControlledSwap}

Diagonal(a, b) == Reals(<< <<a, 0>>, <<0, b>> >>)
Flipping(a)    == Reals(<< <<0, a>>, <<a, 0>> >>)
Decay          == Reals(<< <<0, 4>>, <<0, 0>> >>)

MCChannels ==
  { <<Diagonal(5, 3), Decay>>,   \* damping by 16/25
    <<Kron(Diagonal(3, 3), PauliMatrix.I), Kron(Flipping(4), PauliMatrix.Z)>> }

MCPOVMs == {<<ElementOf(Diagonal(16, 9), <<>>),
              ElementOf(Diagonal(9, 16), Reals(<< <<0, 4>>, <<3, 0>> >>))>>}

MCAxesTried == {<<1>>, <<2>>, <<2, 1>>, <<1, 3>>, <<3, 1>>, <<2, 3, 1>>}
MCFresh     == {<<Unit, None>>, <<Unit, Real(-1)>>}

CONSTANTS Names, MaxRef, MaxTargets   \* of the store

VARIABLES records, where, nextRef, noiseMode, holds,
          subject   \* which of the three is explored

Store == INSTANCE StateStore WITH Labels <- Names

storeVars == <<records, where, nextRef, noiseMode, holds>>

QuantumStatesInit ==
  /\ subject \in {"store", "pairs", "register"}
  /\ Init      /\ (subject = "pairs" \/ Len(pairs) = 1)
  /\ Store!Init /\ (subject = "store" \/ noiseMode = "density")
  /\ DenseInit /\ (subject = "register" \/ ket = PlusI)

QuantumStatesNext ==
  /\ \/ subject = "store"    /\ Store!Next /\ UNCHANGED <<vars, denseVars>>
     \/ subject = "pairs"    /\ Next       /\ UNCHANGED <<storeVars, denseVars>>
     \/ subject = "register" /\ DenseNext  /\ UNCHANGED <<vars, storeVars>>
  /\ UNCHANGED subject

QuantumStatesSpec == QuantumStatesInit /\ [][QuantumStatesNext]_<<vars, storeVars, denseVars, subject>>
------------------------------------------------------------------------------
(* Whatever order the axes are named in, an operation acts on the qubits    *)
(* that are meant: each route through kets and density matrices gives the  *)
(* state it must (DenseStates), and in the store the axes of a record stand *)
(* for the qubits that the index says (store.py, reduce.py).               *)
AxesMeanTheirQubits == EveryRouteAgrees /\ Store!AxesNameTheRightQubit

(* The store is what the other components take it for: every operation     *)
(* creates, joins, reduces or renames joint states, and a reference means  *)
(* the same state as long as it lives (store.py).                          *)
StorePromises == Store!ImplementsOwnership /\ Store!RefsAreStable
==============================================================================

---------------------------- MODULE BellDiagonal ----------------------------
(***************************************************************************)
(* A chain of entangled pairs as their Bell-diagonal form describes them   *)
(* (qstate/state/bell_diag): a pair is a distribution over the four Bell   *)
(* labels, a Pauli permutes it, a Pauli channel mixes the permutations, a  *)
(* Bell measurement leaves one label, and a swap at the relay between two  *)
(* pairs combines their labels with that of the outcome by the bits of the *)
(* Pauli frames (qstate/ops/frame).                                        *)
(***************************************************************************)
EXTENDS PauliLabels, Sequences, SequencesExt

CONSTANTS Chains,    \* the chains of distributions tried
          Mixtures   \* the Pauli channels tried: weights of I, X, Y, Z

VARIABLE chain       \* the pairs: a sequence of distributions
-----------------------------------------------------------------------------
Init == chain \in Chains

Becomes(i, w) == chain' = [chain EXCEPT ![i] = w]

Apply(i)   == \E p \in Paulis : Becomes(i, Permuted(chain[i], p))
Channel(i) == \E mix \in Mixtures : Becomes(i, Mixed(chain[i], mix))
Measure(i) == \E l \in Labels : chain[i][l] > 0 /\ Becomes(i, Pure(l))
Swap(i)    ==
  /\ i < Len(chain)
  /\ \E outcome \in Labels :
       chain' = ReplaceAt(RemoveAt(chain, i + 1), i, Swapped(chain[i], chain[i + 1], outcome))

Next == \E i \in DOMAIN chain : Apply(i) \/ Channel(i) \/ Measure(i) \/ Swap(i)

Spec == Init /\ [][Next]_chain
=============================================================================

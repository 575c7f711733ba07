------------------------ MODULE PairRepresentations ------------------------
(***************************************************************************)
(* A chain of pairs as the three representations of qstate hold them:      *)
(* Bell-diagonal probabilities, and the ket or the density matrix of the   *)
(* two qubits.  An operation goes to the handler of the representation a   *)
(* pair has at the moment, pairs are converted in between, and the relay   *)
(* of two pairs measures its two qubits and discards them.  The matrices   *)
(* are real if Y is taken without its phase, and their entries are         *)
(* integers, each state to a scale of its own.                             *)
(***************************************************************************)
EXTENDS PauliLabels, Sequences, SequencesExt

CONSTANTS Preparations,   \* the chains tried: sequences of [rep, label, probs]
          Mixtures,       \* the channels tried: Paulis of the two qubits -> weight
          PauliPairs,     \* the Paulis tried on the two qubits
          MaxOperations   \* bound: operations of a run

VARIABLES pairs,      \* the pairs: a sequence of [rep, payload]
          frame,      \* per pair, the pending correction <<x, z>> its nodes know of
          known,      \* history: per pair, whether they know all that happened to it
          operations

vars == <<pairs, frame, known, operations>>

(* Basis states of the two qubits are numbered 00, 01, 10, 11; a Pauli on  *)
(* one qubit exchanges some of them and changes the sign of some.          *)
First(i)    == (i - 1) \div 2
Second(i)   == (i - 1) % 2
Basis(a, b) == 1 + 2 * a + b

Flips(p)      == PauliBits[p][1]
Sign(p, bit)  == IF PauliBits[p][2] = 1 /\ bit = 1 THEN -1 ELSE 1
Flipped(bit, p) == (bit + Flips(p)) % 2

\* p on the first qubit and q on the second
Moved(pq, i)  == Basis(Flipped(First(i), pq[1]), Flipped(Second(i), pq[2]))
Signed(pq, i) == Sign(pq[1], First(i)) * Sign(pq[2], Second(i))

ApplyKet(ket, pq)     == Each(LAMBDA i : Signed(pq, i) * ket[Moved(pq, i)])
ApplyDensity(rho, pq) ==
  Each(LAMBDA i : Each(LAMBDA j : Signed(pq, i) * Signed(pq, j) * rho[Moved(pq, i)][Moved(pq, j)]))

Projector(ket) == Each(LAMBDA i : Each(LAMBDA j : ket[i] * ket[j]))
-----------------------------------------------------------------------------
(* Bell measurement and conversion (qstate/measure/bell, state/convert)    *)

(* The basis states of a Bell vector, and the sign of the second.  To name *)
(* the qubits in the other order changes the vector by its sign at most.   *)
Upper == <<1, 1, 2, 2>>
Lower == <<4, 4, 3, 3>>
Relative == <<1, -1, 1, -1>>
BellVector(l) ==
  Each(LAMBDA i : IF i = Upper[l] THEN 1 ELSE IF i = Lower[l] THEN Relative[l] ELSE 0)

KetWeight(ket, l) ==
  LET a == ket[Upper[l]] + Relative[l] * ket[Lower[l]] IN (a * a) \div 4
DensityWeight(rho, l) ==
  (rho[Upper[l]][Upper[l]] + rho[Lower[l]][Lower[l]]
     + Relative[l] * (rho[Upper[l]][Lower[l]] + rho[Lower[l]][Upper[l]])) \div 4

FromProbabilities(w) ==
  Each(LAMBDA i : Each(LAMBDA j :
    IF i = j THEN IF i \in {1, 4} THEN w[1] + w[2] ELSE w[3] + w[4]
    ELSE IF {i, j} = {1, 4} THEN w[1] - w[2]
    ELSE IF {i, j} = {2, 3} THEN w[3] - w[4] ELSE 0))

ToDensity(pair) ==
  CASE pair.rep = "density"   -> pair.payload
    [] pair.rep = "ket"       -> Projector(pair.payload)
    [] pair.rep = "bell_diag" -> FromProbabilities(pair.payload)

(* The probabilities of the four outcomes of a Bell measurement.           *)
Probabilities(pair) ==
  CASE pair.rep = "bell_diag" -> pair.payload
    [] pair.rep = "ket"       -> Each(LAMBDA l : KetWeight(pair.payload, l))
    [] pair.rep = "density"   -> Each(LAMBDA l : DensityWeight(pair.payload, l))

(* A density matrix is exactly Bell diagonal if it is what its four        *)
(* probabilities give again.                                               *)
ExactDensity(rho) ==
  /\ rho[1][1] = rho[4][4] /\ rho[2][2] = rho[3][3]
  /\ rho[1][4] = rho[4][1] /\ rho[2][3] = rho[3][2]
  /\ \A i \in {1, 4}, j \in {2, 3} : rho[i][j] = 0 /\ rho[j][i] = 0
IsExact(pair) == pair.rep = "bell_diag" \/ ExactDensity(ToDensity(pair))
IsPureBell(pair, l) == IsExact(pair) /\ {m \in Labels : Probabilities(pair)[m] > 0} = {l}

(* as_rep: conversions to a ket need a pure state, those to Bell-diagonal  *)
(* form a state that is exactly of that form.                              *)
CanConvert(pair, rep) ==
  CASE rep = "density"   -> TRUE
    [] rep = "ket"       -> \E l \in Labels : IsPureBell(pair, l)
    [] rep = "bell_diag" -> IsExact(pair)

AsRep(pair, rep) ==
  [rep |-> rep,
   payload |-> CASE rep = "density"   -> ToDensity(pair)
                 [] rep = "ket"       -> BellVector(CHOOSE l \in Labels : IsPureBell(pair, l))
                 [] rep = "bell_diag" -> Probabilities(pair)]
-----------------------------------------------------------------------------
(* Operations *)

Init ==
  \E c \in Preparations :
    /\ pairs = [i \in DOMAIN c |->
                  AsRep([rep |-> "bell_diag", payload |-> c[i].probs], c[i].rep)]
    /\ frame = [i \in DOMAIN c |-> LabelBits[c[i].label]]
    /\ known = [i \in DOMAIN c |-> c[i].probs = Pure(c[i].label)]
    /\ operations = 0

Operated(i, payload) ==
  /\ operations < MaxOperations
  /\ operations' = operations + 1
  /\ pairs' = [pairs EXCEPT ![i].payload = payload]

(* Paulis p and q on the two qubits, or on one of them if the other is I.  *)
AfterPaulis(pair, p, q) ==
  CASE pair.rep = "bell_diag" -> Permuted(pair.payload, CombinedPauli(p, q))
    [] pair.rep = "ket"       -> ApplyKet(pair.payload, <<p, q>>)
    [] pair.rep = "density"   -> ApplyDensity(pair.payload, <<p, q>>)

Apply(i) ==
  /\ \E pq \in PauliPairs : Operated(i, AfterPaulis(pairs[i], pq[1], pq[2]))
  /\ known' = [known EXCEPT ![i] = FALSE]
  /\ UNCHANGED frame

(* A mistake: the Pauli on the second qubit is not looked at.              *)
OnLabelsFirst(mix) ==
  LET weight(r) == MapThenSumSet(LAMBDA pq : mix[pq], {pq \in DOMAIN mix : pq[1] = r})
  IN  <<weight("I"), weight("X"), weight("Y"), weight("Z")>>

(* What a channel on both qubits is to their pair.                         *)
OnLabels(mix) ==
  LET weight(r) == MapThenSumSet(LAMBDA pq : mix[pq],
                                 {pq \in DOMAIN mix : CombinedPauli(pq[1], pq[2]) = r})
  IN  <<weight("I"), weight("X"), weight("Y"), weight("Z")>>

(* A ket takes one branch of the channel at random.                        *)
Channel(i) ==
  /\ \E mix \in Mixtures :
       \/ /\ pairs[i].rep = "bell_diag"
          /\ Operated(i, Mixed(pairs[i].payload, OnLabels(mix)))
       \/ /\ pairs[i].rep = "ket"
          /\ \E pq \in DOMAIN mix : Operated(i, AfterPaulis(pairs[i], pq[1], pq[2]))
       \/ /\ pairs[i].rep = "density"
          /\ Operated(i, Each(LAMBDA r : Each(LAMBDA c :
               MapThenSumSet(LAMBDA pq : mix[pq] * AfterPaulis(pairs[i], pq[1], pq[2])[r][c],
                             DOMAIN mix))))
  /\ known' = [known EXCEPT ![i] = FALSE]
  /\ UNCHANGED frame

Measure(i) ==
  \E l \in Labels :
    /\ \/ /\ pairs[i].rep = "bell_diag" /\ pairs[i].payload[l] > 0
          /\ Operated(i, Pure(l))
       \/ /\ pairs[i].rep = "ket" /\ KetWeight(pairs[i].payload, l) > 0
          /\ Operated(i, BellVector(l))
       \/ /\ pairs[i].rep = "density" /\ DensityWeight(pairs[i].payload, l) > 0
          /\ Operated(i, Projector(BellVector(l)))
    /\ frame' = [frame EXCEPT ![i] = LabelBits[l]]
    /\ known' = [known EXCEPT ![i] = TRUE]

Convert(i) ==
  \E rep \in {"ket", "density", "bell_diag"} :
    /\ rep # pairs[i].rep /\ CanConvert(pairs[i], rep)
    /\ operations < MaxOperations /\ operations' = operations + 1
    /\ pairs' = [pairs EXCEPT ![i] = AsRep(pairs[i], rep)]
    /\ UNCHANGED <<frame, known>>

(* A mistake: X and Z are exchanged.                                       *)
CorrectionExchanged(bits) == CombinedPauli(IF bits[1] = 1 THEN "Z" ELSE "I",
                                           IF bits[2] = 1 THEN "X" ELSE "I")

Correction(bits) == CombinedPauli(IF bits[1] = 1 THEN "X" ELSE "I",
                                  IF bits[2] = 1 THEN "Z" ELSE "I")

(* One end applies the pending correction to its qubit.                    *)
Correct(i) ==
  /\ \E p \in {Correction(frame[i])} :
       \E op \in {<<p, "I">>, <<"I", p>>} : Operated(i, AfterPaulis(pairs[i], op[1], op[2]))
  /\ frame' = [frame EXCEPT ![i] = <<0, 0>>]
  /\ UNCHANGED known

(* The relay projects its two qubits, the second of the left pair and the  *)
(* first of the right one, on the Bell vector of its outcome.              *)
Weight(l, k) == IF k = Lower[l] THEN Relative[l] ELSE 1
SwappedKets(left, right, l) ==
  LET term(i, k) == Weight(l, k) * left[Basis(First(i), First(k))]
                                 * right[Basis(Second(k), Second(i))]
  IN  Each(LAMBDA i : term(i, Upper[l]) + term(i, Lower[l]))

SwappedDensities(left, right, l) ==
  LET term(i, j, k, m) == Weight(l, k) * Weight(l, m)
                            * left[Basis(First(i), First(k))][Basis(First(j), First(m))]
                            * right[Basis(Second(k), Second(i))][Basis(Second(m), Second(j))]
  IN  Each(LAMBDA i : Each(LAMBDA j :
        term(i, j, Upper[l], Upper[l]) + term(i, j, Upper[l], Lower[l])
          + term(i, j, Lower[l], Upper[l]) + term(i, j, Lower[l], Lower[l])))

Weightless(rho) == \A i \in 1..4 : rho[i][i] = 0

(* A mistake: the correction counts the outcome alone.                     *)
FrameAfterSwapOutcome(left, right, l) == LabelBits[l]

FrameAfterSwap(left, right, l) == CorrectionForSwap(BitsToLabel(left), BitsToLabel(right), l)

(* The relay between pairs i and i+1 measures its qubits and discards      *)
(* them.  States are combined in one representation, kets and densities    *)
(* only; what remains after the discard is a density matrix.               *)
Swap(i) ==
  /\ i < Len(pairs) /\ operations < MaxOperations
  /\ operations' = operations + 1
  /\ pairs[i].rep = pairs[i + 1].rep /\ pairs[i].rep # "bell_diag"
  /\ \E l \in Labels :
       LET swapped == IF pairs[i].rep = "ket"
                      THEN Projector(SwappedKets(pairs[i].payload, pairs[i + 1].payload, l))
                      ELSE SwappedDensities(pairs[i].payload, pairs[i + 1].payload, l)
       IN  /\ ~Weightless(swapped)
           /\ pairs' = ReplaceAt(RemoveAt(pairs, i + 1), i,
                                 [rep |-> "density", payload |-> swapped])
           /\ frame' = ReplaceAt(RemoveAt(frame, i + 1), i,
                                 FrameAfterSwap(frame[i], frame[i + 1], l))
           /\ known' = ReplaceAt(RemoveAt(known, i + 1), i, known[i] /\ known[i + 1])

Next == \E i \in DOMAIN pairs : \/ Apply(i) \/ Channel(i) \/ Measure(i)
                                \/ Convert(i) \/ Correct(i) \/ Swap(i)

Spec == Init /\ [][Next]_vars
-----------------------------------------------------------------------------
(* A pair whose nodes know its preparation and the outcomes of the swaps   *)
(* on its way is taken to phi+ by the correction they have on record, on   *)
(* whichever of its ends (ops/frame, "back to phi+").                      *)
FramesRestore ==
  \A i \in DOMAIN pairs : known[i] =>
    LET fix == Correction(frame[i])
    IN  \A op \in {<<fix, "I">>, <<"I", fix>>} :
          IsPureBell([rep |-> "density",
                      payload |-> ApplyDensity(ToDensity(pairs[i]), op)], PhiPlus)

NotBellDiagonal == <<0, 0, 0, 0>>
BellDiag(pair)  == IF IsExact(pair) THEN Divided(Probabilities(pair)) ELSE NotBellDiagonal

Bell == INSTANCE BellDiagonal
          WITH chain <- [i \in DOMAIN pairs |-> BellDiag(pairs[i])],
               Chains <- {[i \in DOMAIN c |-> c[i].probs] : c \in Preparations},
               Mixtures <- {OnLabels(mix) : mix \in Mixtures}

(* Whatever representation a pair is held in and however it is converted,  *)
(* Paulis, Pauli channels, Bell measurements and swaps act on it as they   *)
(* do on its Bell-diagonal form, which it never leaves (BellDiagHandler,   *)
(* DensityHandler, KetHandler, as_rep).                                    *)
RepresentationsAgree == Bell!Spec
=============================================================================

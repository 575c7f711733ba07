----------------------------- MODULE PauliLabels -----------------------------
(***************************************************************************)
(* Bell labels, Paulis and the two bits that stand for each of them        *)
(* (qstate/state/bell_diag, qstate/ops/frame), and what Paulis, Pauli      *)
(* channels and swaps do to a distribution over the labels.  A label is    *)
(* its place in BELL_LABELS, phi+, phi-, psi+, psi-; probabilities are     *)
(* integer weights, divided by their common divisor.                       *)
(***************************************************************************)
EXTENDS Integers, FiniteSets, FiniteSetsExt

Labels  == 1..4
PhiPlus == 1
Paulis  == {"I", "X", "Y", "Z"}

LabelBits == << <<0, 0>>, <<0, 1>>, <<1, 0>>, <<1, 1>> >>
PauliBits == [I |-> <<0, 0>>, X |-> <<1, 0>>, Y |-> <<1, 1>>, Z |-> <<0, 1>>]

BitsToLabel(bits) == 1 + 2 * bits[1] + bits[2]
Xor(b, c)         == <<(b[1] + c[1]) % 2, (b[2] + c[2]) % 2>>

LabelAfterPauli(l, p) == BitsToLabel(Xor(LabelBits[l], PauliBits[p]))
CombinedPauli(p, q)   == CHOOSE r \in Paulis : PauliBits[r] = Xor(PauliBits[p], PauliBits[q])

(* The bits that take the pair between the endpoints of a swap to phi+.    *)
CorrectionForSwap(left, right, outcome) ==
  Xor(Xor(LabelBits[left], LabelBits[right]), LabelBits[outcome])

Each(f(_)) == <<f(1), f(2), f(3), f(4)>>
Dot(u, v)  == u[1] * v[1] + u[2] * v[2] + u[3] * v[3] + u[4] * v[4]

CommonDivisor(sizes) ==
  Max({d \in 1..Max(sizes \cup {1}) : \A n \in sizes : n % d = 0})
Divided(w) ==
  LET by[v \in {w}] == LET common == CommonDivisor({v[1], v[2], v[3], v[4]})
                       IN  Each(LAMBDA l : v[l] \div common)
  IN  by[w]

Pure(l)        == Each(LAMBDA m : IF m = l THEN 1 ELSE 0)
Permuted(w, p) == Each(LAMBDA l : w[LabelAfterPauli(l, p)])   \* its own inverse

(* mix: weights of I, X, Y and Z                                           *)
Mixed(w, mix) ==
  Divided(Each(LAMBDA l : Dot(mix, << w[l], w[LabelAfterPauli(l, "X")],
                                      w[LabelAfterPauli(l, "Y")], w[LabelAfterPauli(l, "Z")] >>)))

(* A pair of label a and one of label b come to be one of label l if l is  *)
(* what the correction of the swap undoes.                                 *)
Swapped(left, right, outcome) ==
  Divided(Each(LAMBDA l :
     Dot(left, Each(LAMBDA a : right[BitsToLabel(CorrectionForSwap(a, outcome, l))]))))
=============================================================================

----------------------------- MODULE DenseStates -----------------------------
(***************************************************************************)
(* A small register as a ket and as a density matrix (qstate/state,        *)
(* qstate/measure, qstate/noise, qstate/ops).  The program keeps one of    *)
(* the two; here both go through every operation, each along the route of  *)
(* its own handler, beside the matrix that the operations mean.  What has  *)
(* no ket - a mixture, or what is left of an entangled register - is kept  *)
(* as a density matrix only.                                               *)
(*                                                                         *)
(* First the vectors and matrices of qstate/math, of up to three qubits.   *)
(* A number is <<re, im>> with whole parts, and an array is kept up to a   *)
(* positive factor: the 1 / sqrt 2 of a gate, a basis or a Bell vector is  *)
(* left out, and what counts is never the length of a vector or the trace  *)
(* of a matrix but what it is a multiple of.  Entry i of a vector of n     *)
(* qubits is the amplitude of the bits of i - 1, axis 1 the first of them. *)
(* Then what qstate does to a ket and to a density matrix: operators on    *)
(* some axes of several, in any order, measurement in a basis, of a Bell   *)
(* pair and of a POVM, Kraus channels, partial traces.  Beside each stands *)
(* what it means, entry by entry and without moving an axis.               *)
(***************************************************************************)
EXTENDS Integers, Sequences, FiniteSets, FiniteSetsExt

(* Arrays *)

None == <<0, 0>>
Unit == <<1, 0>>
Plus(x, y)   == <<x[1] + y[1], x[2] + y[2]>>
Times(x, y)  == <<x[1] * y[1] - x[2] * y[2], x[1] * y[2] + x[2] * y[1]>>
Conjugate(x) == <<x[1], 0 - x[2]>>
Size2(x)     == x[1] * x[1] + x[2] * x[2]

Total(terms) == LET upTo[k \in 0..Len(terms)] == IF k = 0 THEN None
                                                 ELSE Plus(upTo[k - 1], terms[k])
                IN  upTo[Len(terms)]

Array(n, entry(_))     == <<>> \o [i \in 1..n |-> entry(i)]
Matrix(n, entry(_, _)) == Array(n, LAMBDA r : Array(n, LAMBDA c : entry(r, c)))

Dagger(m)      == Matrix(Len(m), LAMBDA r, c : Conjugate(m[c][r]))
Trace(m)       == Total([i \in 1..Len(m) |-> m[i][i]])
Product2(a, b) == Matrix(Len(a), LAMBDA r, c : Total([k \in 1..Len(b) |-> Times(a[r][k], b[k][c])]))
Added(a, b)    == Matrix(Len(a), LAMBDA r, c : Plus(a[r][c], b[r][c]))
Sandwich(op, m) == Product2(Product2(op, m), Dagger(op))
IsHermitian(m) == m = Dagger(m)

Nothing(size) == Matrix(size, LAMBDA r, c : None)
Identity(size) == Matrix(size, LAMBDA r, c : IF r = c THEN Unit ELSE None)
MultipleOfIdentity(m) ==
  /\ \A r, c \in 1..Len(m) : r # c => m[r][c] = None
  /\ \A r \in 1..Len(m) : m[r][r] = m[1][1]
  /\ m[1][1][1] > 0 /\ m[1][1][2] = 0

(* The sum of the images of the indices under a matrix-valued operator     *)
SumOfMatrices(size, n, term(_)) ==
  LET upTo[k \in 0..n] == IF k = 0 THEN Nothing(size) ELSE Added(upTo[k - 1], term(k))
  IN  upTo[n]

(* np.kron: the axes of the left operand come first                        *)
KronKets(left, right) ==
  LET d == Len(right)
  IN  Array(Len(left) * d, LAMBDA i : Times(left[1 + ((i - 1) \div d)], right[1 + ((i - 1) % d)]))
Kron(left, right) ==
  LET d == Len(right)
  IN  Matrix(Len(left) * d,
             LAMBDA r, c : Times(left[1 + ((r - 1) \div d)][1 + ((c - 1) \div d)],
                                 right[1 + ((r - 1) % d)][1 + ((c - 1) % d)]))
KronAll(parts) ==
  LET upTo[k \in 1..Len(parts)] == IF k = 1 THEN parts[1] ELSE Kron(upTo[k - 1], parts[k])
  IN  upTo[Len(parts)]

Outer(v)           == Matrix(Len(v), LAMBDA r, c : Times(v[r], Conjugate(v[c])))
VectorProjector(v) == Outer(v)

(* The same vector or matrix, divided by whatever divides all its parts    *)
Gcd[a \in Nat, b \in Nat] == IF b = 0 THEN a ELSE Gcd[b, a % b]
Common(sizes) == FoldSet(LAMBDA x, y : Gcd[x, y], 0, sizes)
Parts(v) == UNION {{IF p < 0 THEN 0 - p ELSE p : p \in {v[i][1], v[i][2]}} : i \in DOMAIN v}
DividedBy(v, d) == Array(Len(v), LAMBDA i : <<v[i][1] \div d, v[i][2] \div d>>)
ReducedKet(v) == DividedBy(v, Common(Parts(v)))
Reduced(m) == LET d == Common(UNION {Parts(m[r]) : r \in DOMAIN m})
              IN  Array(Len(m), LAMBDA r : DividedBy(m[r], d))
------------------------------------------------------------------------------
Real(x)  == <<x, 0>>
Imag(x)  == <<0, x>>
Reals(rows) == Matrix(Len(rows), LAMBDA r, c : Real(rows[r][c]))

PauliMatrix == [I |-> Reals(<< <<1, 0>>, <<0, 1>> >>),
                X |-> Reals(<< <<0, 1>>, <<1, 0>> >>),
                Y |-> << <<None, Imag(-1)>>, <<Imag(1), None>> >>,
                Z |-> Reals(<< <<1, 0>>, <<0, -1>> >>)]
Hadamard == Reals(<< <<1, 1>>, <<1, -1>> >>)
PhaseS   == << <<Unit, None>>, <<None, Imag(1)>> >>
PhaseSdg == << <<Unit, None>>, <<None, Imag(-1)>> >>
Swap2    == Reals(<< <<1, 0, 0, 0>>, <<0, 0, 1, 0>>, <<0, 1, 0, 0>>, <<0, 0, 0, 1>> >>)

(* A permutation of the basis, column by column                            *)
Permutation(size, row(_)) ==
  Matrix(size, LAMBDA r, c : IF r - 1 = row(c - 1) THEN Unit ELSE None)

(* The last bit is flipped where all the others are set.                   *)
ControlledX(controls) ==
  Permutation(2^(controls + 1),
              LAMBDA column : IF column \div 2 = 2^controls - 1
                              THEN 2 * (column \div 2) + (1 - (column % 2)) ELSE column)

ControlledZ(controls) ==
  LET size == 2^(controls + 1)
  IN  Matrix(size, LAMBDA r, c : IF r # c THEN None ELSE IF r = size THEN Real(-1) ELSE Unit)

(* The last two bits change places where the first is set.                 *)
ControlledSwap ==
  Permutation(8, LAMBDA column : LET left == (column \div 2) % 2  right == column % 2
                                 IN  IF column \div 4 = 1 THEN 4 + 2 * right + left ELSE column)
-----------------------------------------------------------------------------
(* Operators on some axes *)

NumQubits(array) == CHOOSE n \in 0..3 : 2^n = Len(array)

(* The bit of axis a in index i of n qubits                                *)
Bit(n, i, a) == ((i - 1) \div 2^(n - a)) % 2
BitsOf(n, i) == [a \in 1..n |-> Bit(n, i, a)]
IndexOf(bits) ==
  LET upTo[k \in 0..Len(bits)] == IF k = 0 THEN 0 ELSE 2 * upTo[k - 1] + bits[k]
  IN  1 + upTo[Len(bits)]

RestAxes(n, axes) == SelectSeq([a \in 1..n |-> a], LAMBDA a : \A k \in DOMAIN axes : axes[k] # a)

(* np.transpose of a vector of qubits: axis k of the result is axis        *)
(* permutation[k] of the vector.  argsort undoes it.                       *)
Argsort(permutation) ==
  Array(Len(permutation), LAMBDA a : CHOOSE k \in DOMAIN permutation : permutation[k] = a)
Transposed(vector, permutation) ==
  LET n == Len(permutation)  at == Argsort(permutation)
  IN  Array(2^n, LAMBDA j : vector[IndexOf([a \in 1..n |-> Bit(n, j, at[a])])])

(* The rows of op act on the axes, which are moved to the front and back.  *)
OnFrontAxes(op, moved) ==
  LET width == Len(moved) \div Len(op)
  IN  Array(Len(moved),
            LAMBDA j : LET row == 1 + ((j - 1) \div width)
                           column == 1 + ((j - 1) % width)
                       IN  Total([k \in 1..Len(op) |->
                                    Times(op[row][k], moved[(k - 1) * width + column])]))

\* A mistake: the axes are not moved back.
ApplyOperatorToAxesLeft(vector, op, axes) ==
  LET permutation == axes \o RestAxes(NumQubits(vector), axes)
  IN  Transposed(OnFrontAxes(op, Transposed(vector, permutation)), permutation)
ApplyOperatorToAxes(vector, op, axes) ==
  LET permutation == axes \o RestAxes(NumQubits(vector), axes)
  IN  Transposed(OnFrontAxes(op, Transposed(vector, permutation)), Argsort(permutation))

(* One column per basis state                                              *)
ExpandOperator(op, axes, n) ==
  LET columns == Array(2^n, LAMBDA c :
                   ApplyOperatorToAxes(Array(2^n, LAMBDA i : IF i = c THEN Unit ELSE None), op, axes))
  IN  Matrix(2^n, LAMBDA r, c : columns[c][r])
------------------------------------------------------------------------------
(* Projective measurement: basis vectors as the columns of a matrix        *)
Bases == [z |-> Identity(2), x |-> Hadamard, y |-> << <<Unit, Unit>>, <<Imag(1), Imag(-1)>> >>]
BasisVector(basis, bit) == <<Bases[basis][1][bit + 1], Bases[basis][2][bit + 1]>>

InBasis(basis, axes) == KronAll([k \in DOMAIN axes |-> Bases[basis]])

ToMeasurementCoordinates(ket, basis, axes) ==
  ApplyOperatorToAxes(ket, KronAll([k \in DOMAIN axes |-> Dagger(Bases[basis])]), axes)

Row(moved, outcome, outcomes) ==
  LET width == Len(moved) \div outcomes
  IN  {i \in DOMAIN moved : 1 + ((i - 1) \div width) = outcome}

\* A mistake: the axes are read in the order of the register.
KetOddsUnordered(ket, basis, axes) ==
  LET n == NumQubits(ket)
      moved == ToMeasurementCoordinates(ket, basis, axes)
      first == SelectSeq([a \in 1..n |-> a], LAMBDA a : \E k \in DOMAIN axes : axes[k] = a)
      inOrder == Transposed(moved, first \o RestAxes(n, axes))
  IN  Array(2^Len(axes), LAMBDA o : MapThenSumSet(LAMBDA i : Size2(inOrder[i]),
                                                  Row(inOrder, o, 2^Len(axes))))
KetOdds(ket, basis, axes) ==
  LET moved == Transposed(ToMeasurementCoordinates(ket, basis, axes),
                          axes \o RestAxes(NumQubits(ket), axes))
  IN  Array(2^Len(axes), LAMBDA o : MapThenSumSet(LAMBDA i : Size2(moved[i]),
                                                  Row(moved, o, 2^Len(axes))))

KetCollapsed(ket, basis, axes, outcome) ==
  LET permutation == axes \o RestAxes(NumQubits(ket), axes)
      moved == Transposed(ToMeasurementCoordinates(ket, basis, axes), permutation)
      kept  == Row(moved, outcome, 2^Len(axes))
      restored == Transposed(Array(Len(moved), LAMBDA i : IF i \in kept THEN moved[i] ELSE None),
                             Argsort(permutation))
  IN  ApplyOperatorToAxes(restored, InBasis(basis, axes), axes)

LocalProjector(basis, bits) ==
  KronAll([k \in DOMAIN bits |-> VectorProjector(BasisVector(basis, bits[k]))])
ExpandedProjector(basis, axes, outcome, n) ==
  ExpandOperator(LocalProjector(basis, BitsOf(Len(axes), outcome)), axes, n)

(* A single qubit is measured without expanding anything.                  *)
OneQubitWeight(rho, v) ==
  Total(<<Times(Conjugate(v[1]), Plus(Times(rho[1][1], v[1]), Times(rho[1][2], v[2]))),
          Times(Conjugate(v[2]), Plus(Times(rho[2][1], v[1]), Times(rho[2][2], v[2])))>>)[1]
Weight2(effect, rho) ==
  Total([r \in DOMAIN rho |-> Total([k \in DOMAIN rho |-> Times(effect[r][k], rho[k][r])])])[1]

DensityOdds(rho, basis, axes) ==
  LET n == NumQubits(rho)
  IN  Array(2^Len(axes), LAMBDA o :
        IF n = 1 THEN OneQubitWeight(rho, BasisVector(basis, o - 1))
                 ELSE Weight2(ExpandedProjector(basis, axes, o, n), rho))
DensityCollapsed(rho, basis, axes, outcome) ==
  IF NumQubits(rho) = 1 THEN Sandwich(Outer(BasisVector(basis, outcome - 1)), rho)
                        ELSE Sandwich(ExpandedProjector(basis, axes, outcome, NumQubits(rho)), rho)
------------------------------------------------------------------------------
(* Bell measurement, in the order of BELL_LABELS: phi+, phi-, psi+, psi-   *)
BellKets == << <<Unit, None, None, Unit>>, <<Unit, None, None, Real(-1)>>,
               <<None, Unit, Unit, None>>, <<None, Unit, Real(-1), None>> >>
BellProjector(label) == VectorProjector(BellKets[label])
ExpandedBellProjector(label, axes, n) == ExpandOperator(BellProjector(label), axes, n)

Applied(op, ket) == Array(Len(ket), LAMBDA r : Total([k \in DOMAIN ket |-> Times(op[r][k], ket[k])]))
Overlap(left, right) == Total([i \in DOMAIN left |-> Times(Conjugate(left[i]), right[i])])

BellKetOdds(ket, axes) ==
  Array(4, LAMBDA l : Overlap(ket, Applied(ExpandedBellProjector(l, axes, NumQubits(ket)), ket))[1])
BellKetCollapsed(ket, axes, label) ==
  Applied(ExpandedBellProjector(label, axes, NumQubits(ket)), ket)
BellDensityOdds(rho, axes) ==
  Array(4, LAMBDA l : Weight2(ExpandedBellProjector(l, axes, NumQubits(rho)), rho))
BellDensityCollapsed(rho, axes, label) ==
  Sandwich(ExpandedBellProjector(label, axes, NumQubits(rho)), rho)

(* POVMs: an element is an effect and the operator that leaves the state   *)
(* behind.  An effect without one, diagonal here, is given its root.       *)
SquareRoot(effect) ==
  Matrix(Len(effect), LAMBDA r, c :
    IF r # c THEN None ELSE Real(CHOOSE x \in 0..effect[r][r][1] : x * x = effect[r][r][1]))
ElementOf(effect, op) ==
  [effect |-> effect, op |-> IF op = <<>> THEN SquareRoot(effect) ELSE op]
IsElement(element) == /\ IsHermitian(element.effect)
                      /\ Product2(Dagger(element.op), element.op) = element.effect
IsPOVM(elements) ==
  LET size == Len(elements[1].effect)
  IN  /\ \A e \in DOMAIN elements : IsElement(elements[e])
      /\ MultipleOfIdentity(SumOfMatrices(size, Len(elements), LAMBDA e : elements[e].effect))

POVMOdds(rho, elements, axes) ==
  Array(Len(elements),
        LAMBDA e : Weight2(ExpandOperator(elements[e].effect, axes, NumQubits(rho)), rho))
POVMCollapsed(rho, elements, axes, outcome) ==
  Sandwich(ExpandOperator(elements[outcome].op, axes, NumQubits(rho)), rho)

(* Channels: Kraus operators of one arity that preserve the trace          *)
IsKrausChannel(ops) ==
  MultipleOfIdentity(SumOfMatrices(Len(ops[1]), Len(ops), LAMBDA k : Product2(Dagger(ops[k]), ops[k])))

ExpandedKraus(ops, axes, n) ==
  IF n = 1 THEN ops ELSE [k \in DOMAIN ops |-> ExpandOperator(ops[k], axes, n)]
KrausDensity(rho, ops, axes) ==
  LET expanded == ExpandedKraus(ops, axes, NumQubits(rho))
  IN  SumOfMatrices(Len(rho), Len(ops), LAMBDA k : Sandwich(expanded[k], rho))

KrausBranch(ket, op, axes) == IF Len(ket) = 2 THEN Applied(op, ket)
                                              ELSE ApplyOperatorToAxes(ket, op, axes)
BranchWeight(branch) == Overlap(branch, branch)[1]
------------------------------------------------------------------------------
(* Partial traces and orders of axes of a density matrix, whose rows are   *)
(* the first n axes of a tensor and whose columns are the next n.          *)
Flat(rho) == Array(Len(rho) * Len(rho),
                   LAMBDA i : rho[1 + ((i - 1) \div Len(rho))][1 + ((i - 1) % Len(rho))])
Twice(axes, n) == axes \o [k \in DOMAIN axes |-> axes[k] + n]

KeepAxesDensity(rho, keep) ==
  LET n == NumQubits(rho)
      drop == RestAxes(n, keep)
      kept == 2^Len(keep)  dropped == 2^Len(drop)
      moved == Transposed(Flat(rho), Twice(keep \o drop, n))
  IN  IF drop = <<>> THEN rho
      ELSE Matrix(kept, LAMBDA r, c : Total([d \in 1..dropped |->
             moved[((r - 1) * dropped + d - 1) * kept * dropped + (c - 1) * dropped + d]]))

\* A mistake: the order of the axes is taken the wrong way round.
ReorderDensityAxesBack(rho, current, target) ==
  LET n == NumQubits(rho)
      permutation == [k \in 1..n |-> CHOOSE j \in 1..n : target[j] = current[k]]
      moved == Transposed(Flat(rho), Twice(permutation, n))
  IN  Matrix(2^n, LAMBDA r, c : moved[(r - 1) * 2^n + c])
ReorderDensityAxes(rho, current, target) ==
  LET n == NumQubits(rho)
      permutation == [k \in 1..n |-> CHOOSE j \in 1..n : current[j] = target[k]]
      moved == Transposed(Flat(rho), Twice(permutation, n))
  IN  Matrix(2^n, LAMBDA r, c : moved[(r - 1) * 2^n + c])

ResetDensity(rho, axes, prepared) ==
  LET n == NumQubits(rho)
      keep == RestAxes(n, axes)
      combined == IF keep = <<>> THEN Outer(prepared)
                  ELSE Kron(KeepAxesDensity(rho, keep), Outer(prepared))
  IN  ReorderDensityAxes(combined, keep \o axes, [a \in 1..n |-> a])
------------------------------------------------------------------------------
(* What the operations mean: an entry of the new matrix from entries of    *)
(* the old one whose bits on the axes are replaced.                        *)
At(n, i, axes) == IndexOf([k \in DOMAIN axes |-> Bit(n, i, axes[k])])
With(n, i, axes, t) ==
  IndexOf([a \in 1..n |-> IF \E k \in DOMAIN axes : axes[k] = a
                          THEN Bit(Len(axes), t, CHOOSE k \in DOMAIN axes : axes[k] = a)
                          ELSE Bit(n, i, a)])

Meaning(rho, op, axes) ==
  LET n == NumQubits(rho)
      at == Array(Len(rho), LAMBDA i : At(n, i, axes))
      from == Array(Len(rho), LAMBDA i :   \* the entries that i is made of, with their factors
                SelectSeq(Array(Len(op), LAMBDA s : <<op[at[i]][s], With(n, i, axes, s)>>),
                          LAMBDA f : f[1] # None))
      Term(f, g) == Times(Times(f[1], Conjugate(g[1])), rho[f[2]][g[2]])
  IN  Matrix(Len(rho), LAMBDA r, c :
        Total([j \in DOMAIN from[r] |-> Total([k \in DOMAIN from[c] |-> Term(from[r][j], from[c][k])])]))

MeaningOfMeasurement(rho, basis, axes, outcome) ==   \* one qubit after the other
  LET projected[k \in 0..Len(axes)] ==
        IF k = 0 THEN rho
        ELSE Meaning(projected[k - 1],
                     Outer(BasisVector(basis, Bit(Len(axes), outcome, k))), <<axes[k]>>)
  IN  projected[Len(axes)]

MeaningOfChannel(rho, ops, axes) ==
  SumOfMatrices(Len(rho), Len(ops), LAMBDA k : Meaning(rho, ops[k], axes))

MeaningOfKeeping(rho, keep) ==
  LET n == NumQubits(rho)  drop == RestAxes(n, keep)
      From(i, t) == With(n, With(n, 1, keep, i), drop, t)
  IN  Matrix(2^Len(keep), LAMBDA r, c : Total([t \in 1..2^Len(drop) |-> rho[From(r, t)][From(c, t)]]))

MeaningOfReset(rho, axes, prepared) ==
  LET n == NumQubits(rho)  keep == RestAxes(n, axes)
      kept == IF keep = <<>> THEN << <<Unit>> >> ELSE MeaningOfKeeping(rho, keep)
      Fresh(r, c) == Times(prepared[At(n, r, axes)], Conjugate(prepared[At(n, c, axes)]))
  IN  Matrix(Len(rho), LAMBDA r, c : Times(kept[At(n, r, keep)][At(n, c, keep)], Fresh(r, c)))
-----------------------------------------------------------------------------
(* The register *)

CONSTANTS Samplers,    \* sequences of [ket, weight], the states a sampler may return
          Unitaries,   \* the gates tried
          Channels,    \* the Kraus channels tried: sequences of operators
          POVMs,       \* the POVMs tried: sequences of elements
          AxesTried,   \* the sequences of axes operations are given
          Ancillas,    \* the one-qubit kets a register is joined with or reset to
          MaxSize      \* bound: steps taken and qubits kept, together

VARIABLES ket,     \* of KetHandler, or <<>> if the state is kept as a density matrix only
          rho,     \* of DensityHandler
          meant,   \* history: what the operations make of it
          odds,    \* history: the odds of the last draw along every route
          turned,  \* history: all axes have been asked for in another order
          steps    \* operations so far

denseVars == <<ket, rho, meant, odds, turned, steps>>

ASSUME ChannelsAssumption == \A ops \in Channels : IsKrausChannel(ops)
ASSUME POVMsAssumption == \A elements \in POVMs : IsPOVM(elements)

Qubits == NumQubits(rho)
HasKet == ket # <<>>
Register(n) == [a \in 1..n |-> a]
AxesFor(arity) == {axes \in AxesTried : Len(axes) = arity /\ \A k \in DOMAIN axes : axes[k] =< Qubits}
Arity(op) == NumQubits(op)

Ratio(weights) ==
  LET common == Common({weights[i] : i \in DOMAIN weights})
  IN  [i \in DOMAIN weights |-> weights[i] \div common]

Becomes(newKet, newRho, newMeant) ==
  /\ ket' = IF newKet = <<>> THEN <<>> ELSE ReducedKet(newKet)
  /\ rho' = Reduced(newRho)
  /\ meant' = Reduced(newMeant)
NothingDrawn == odds' = {}

DrawnFrom(sampler) == {i \in DOMAIN sampler : sampler[i].weight > 0}

DenseInit ==
  /\ \E sampler \in Samplers : \E i \in DrawnFrom(sampler) :
       /\ ket = sampler[i].ket
       /\ rho = Reduced(Outer(ket))
       /\ meant = rho
  /\ odds = {} /\ turned = FALSE /\ steps = 0
------------------------------------------------------------------------------
ApplyUnitary(op, axes) ==
  /\ Becomes(IF HasKet THEN ApplyOperatorToAxes(ket, op, axes) ELSE <<>>,
             Sandwich(ExpandOperator(op, axes, Qubits), rho),
             Meaning(meant, op, axes))
  /\ NothingDrawn

(* Both routes draw the same outcome, and the state stays as it is unless  *)
(* the measurement is to collapse it.                                      *)
MeasureAxes(basis, axes) ==
  LET outcomes == 2^Len(axes)
      byKet == IF HasKet THEN {KetOdds(ket, basis, axes)} ELSE {}
      byDensity == DensityOdds(rho, basis, axes)
      meaning == Array(outcomes, LAMBDA o : MeaningOfMeasurement(meant, basis, axes, o))
  IN  /\ odds' = {Ratio(w) : w \in byKet \cup
                    {byDensity, Array(outcomes, LAMBDA o : Trace(meaning[o])[1])}}
      /\ \E o \in 1..outcomes :
           /\ byDensity[o] > 0 /\ \A w \in byKet : w[o] > 0
           /\ \/ Becomes(IF HasKet THEN KetCollapsed(ket, basis, axes, o) ELSE <<>>,
                         DensityCollapsed(rho, basis, axes, o), meaning[o])
              \/ UNCHANGED <<ket, rho, meant>>

MeasureBellAxes(axes) ==
  LET byKet == IF HasKet THEN {BellKetOdds(ket, axes)} ELSE {}
      byDensity == BellDensityOdds(rho, axes)
      meaning == Array(4, LAMBDA l : Meaning(meant, BellProjector(l), axes))
  IN  /\ odds' = {Ratio(w) : w \in byKet \cup
                    {byDensity, Array(4, LAMBDA l : 2 * Trace(meaning[l])[1])}}
      /\ \E l \in 1..4 :
           /\ byDensity[l] > 0 /\ \A w \in byKet : w[l] > 0
           /\ Becomes(IF HasKet THEN BellKetCollapsed(ket, axes, l) ELSE <<>>,
                      BellDensityCollapsed(rho, axes, l), meaning[l])

(* A POVM is measured on the density matrix, whatever the state was.       *)
MeasurePOVMAxes(elements, axes) ==
  LET byDensity == POVMOdds(rho, elements, axes)
      meaning == Array(Len(elements), LAMBDA e : Meaning(meant, elements[e].op, axes))
  IN  /\ odds' = {Ratio(byDensity), Ratio(Array(Len(elements), LAMBDA e : Trace(meaning[e])[1]))}
      /\ \E e \in DOMAIN elements :
           /\ byDensity[e] > 0
           /\ Becomes(<<>>, POVMCollapsed(rho, elements, axes, e), meaning[e])

(* Noise turns a ket into a density matrix, or draws one of its branches.  *)
ApplyKrausDensity(ops, axes) ==
  /\ Becomes(<<>>, KrausDensity(rho, ops, axes), MeaningOfChannel(meant, ops, axes))
  /\ NothingDrawn

ApplyKrausKetSampled(ops, axes) ==
  LET branches == Array(Len(ops), LAMBDA k : KrausBranch(ket, ops[k], axes))
      weights  == Array(Len(ops), LAMBDA k : BranchWeight(branches[k]))
      meaning  == Array(Len(ops), LAMBDA k : Meaning(meant, ops[k], axes))
  IN  /\ HasKet
      /\ odds' = {Ratio(weights), Ratio(Array(Len(ops), LAMBDA k : Trace(meaning[k])[1]))}
      /\ \E k \in DOMAIN ops :
           /\ weights[k] > 0
           /\ Becomes(branches[k], Outer(branches[k]), meaning[k])
------------------------------------------------------------------------------
TensorWith(prepared) ==
  LET n == Qubits + 1
      right == <<n>>
      Product(r, c) == Times(meant[At(n, r, Register(Qubits))][At(n, c, Register(Qubits))],
                             Times(prepared[At(n, r, right)], Conjugate(prepared[At(n, c, right)])))
  IN  /\ n =< 3
      /\ Becomes(IF HasKet THEN KronKets(ket, prepared) ELSE <<>>,
                 Kron(rho, Outer(prepared)), Matrix(2^n, Product))
      /\ NothingDrawn

(* What is asked for is the axes in the order of the request, also when    *)
(* they are all of them.                                                   *)
KeepAxes(keep) ==
  /\ Becomes(<<>>, KeepAxesDensity(rho, keep), MeaningOfKeeping(meant, keep))
  /\ turned' = (turned \/ (Len(keep) = Qubits /\ keep # Register(Qubits)))
  /\ NothingDrawn

ResetAxes(axes, prepared) ==
  /\ Becomes(<<>>, ResetDensity(rho, axes, prepared), MeaningOfReset(meant, axes, prepared))
  /\ NothingDrawn

(* The ket of a pure density matrix, its first amplitude made positive     *)
FirstColumn(m) == LET c == CHOOSE c \in DOMAIN m : m[c][c] # None /\ \A b \in 1..(c - 1) : m[b][b] = None
                  IN  Array(Len(m), LAMBDA r : m[r][c])
DensityToKetIfPure ==
  /\ ~HasKet /\ Reduced(Outer(FirstColumn(rho))) = rho
  /\ Becomes(FirstColumn(rho), rho, meant)
  /\ NothingDrawn

KetToDensity == HasKet /\ Becomes(<<>>, Outer(ket), meant) /\ NothingDrawn

OtherOperation ==
  \/ \E op \in Unitaries : \E axes \in AxesFor(Arity(op)) : ApplyUnitary(op, axes)
  \/ \E basis \in DOMAIN Bases, axes \in AxesTried :
       axes \in AxesFor(Len(axes)) /\ MeasureAxes(basis, axes)
  \/ \E axes \in AxesFor(2) : MeasureBellAxes(axes)
  \/ \E elements \in POVMs : \E axes \in AxesFor(Arity(elements[1].effect)) :
       MeasurePOVMAxes(elements, axes)
  \/ \E ops \in Channels : \E axes \in AxesFor(Arity(ops[1])) :
       ApplyKrausDensity(ops, axes) \/ ApplyKrausKetSampled(ops, axes)
  \/ \E prepared \in Ancillas : TensorWith(prepared)
  \/ \E prepared \in Ancillas : \E axes \in AxesFor(1) : ResetAxes(axes, prepared)
  \/ DensityToKetIfPure \/ KetToDensity

(* A register that was turned is not followed: what is asked of an axis    *)
(* from then on is asked of another qubit.                                 *)
DenseNext ==
  /\ ~turned /\ steps + Qubits < MaxSize /\ steps' = steps + 1
  /\ \/ OtherOperation /\ UNCHANGED turned
     \/ \E axes \in AxesTried : axes \in AxesFor(Len(axes)) /\ KeepAxes(axes)

DenseSpec == DenseInit /\ [][DenseNext]_denseVars
------------------------------------------------------------------------------
(* Whichever representation a register is kept in, however an operator is  *)
(* moved to its axes and in whatever order they are named, the state is    *)
(* the one that the operations mean, where there is a ket the fidelity of  *)
(* the two representations is one, and a draw - of an outcome, of an       *)
(* element of a POVM, of a branch of a noise channel - has the same odds   *)
(* along every route (math/tensor, measure, noise, state/metric).  But *)
(* for all axes asked for in another order, of which RequestedOrderKept    *)
(* speaks.                                                                 *)
FullFidelity == Overlap(ket, Applied(rho, ket))[1] = Overlap(ket, ket)[1] * Trace(rho)[1]
SameState    == rho = meant /\ (HasKet => Reduced(Outer(ket)) = meant /\ FullFidelity)
SameOdds     == Cardinality(odds) =< 1
EveryRouteAgrees == turned \/ (SameState /\ SameOdds)

(* "The order of this tuple becomes the output axis order", and only in    *)
(* their existing order do all axes give the state itself (reduce.py:181,  *)
(* :187).                                                                  *)
RequestedOrderKept == rho = meant
==============================================================================

----------------------------- MODULE StateStore -----------------------------
(***************************************************************************)
(* The quantum states of a run: qstate/store.py keeps a record per live    *)
(* state and an index from subsystem names to (record, axis);              *)
(* qstate/manager.py combines, reduces and relabels records for the        *)
(* components.  A payload is the sequence of the qubits its tensor axes    *)
(* stand for: numbers are left out, the bookkeeping of axes is not.        *)
(*                                                                         *)
(* An operation that only changes amplitudes (a unitary, a projective      *)
(* measurement, noise on one record) leaves all of this state alone.       *)
(***************************************************************************)
EXTENDS Integers, FiniteSets, Sequences, SequencesExt

CONSTANTS Labels,      \* SubsystemIds
          MaxRef,      \* bound: state references ever allocated
          MaxTargets   \* bound: targets of one operation

VARIABLES records,    \* _records: live reference -> [layout, rep, payload]
          where,      \* _locations: owned name -> [ref, axis]
          nextRef,    \* _next_ref
          noiseMode,  \* _noise_mode
          holds       \* ghost: owned name -> the qubit it was given

vars == <<records, where, nextRef, noiseMode, holds>>

Live       == DOMAIN records
OwnedNames == DOMAIN where
Tuples(S)  == {t \in UNION {[1..n -> S] : n \in 1..MaxTargets} : IsInjective(t)}

Init == /\ records = <<>> /\ where = <<>> /\ holds = <<>> /\ nextRef = 0
        /\ noiseMode \in {"density", "sampled_ket"}

-----------------------------------------------------------------------------
(* The index, as QuantumStateStore maintains it. *)

Without(f, S) == [x \in DOMAIN f \ S |-> f[x]]

DropLocations(index, layout) == Without(index, ToSet(layout))

AddLocations(index, ref, layout) ==
  [l \in DOMAIN index \cup ToSet(layout) |->
     IF l \in ToSet(layout)
     THEN [ref |-> ref, axis |-> CHOOSE a \in DOMAIN layout : layout[a] = l]
     ELSE index[l]]

(* A mistake: only the name on the first axis is checked.                  *)
MayOwnFirst(layout, refs) == layout[1] \in OwnedNames => where[layout[1]].ref \in refs

(* _check_output_ownership *)
MayOwn(layout, refs) == \A l \in ToSet(layout) : l \in OwnedNames => where[l].ref \in refs

Put(record) ==
  /\ nextRef < MaxRef
  /\ MayOwn(record.layout, {})
  /\ nextRef' = nextRef + 1
  /\ records' = [r \in Live \cup {nextRef} |-> IF r = nextRef THEN record ELSE records[r]]
  /\ where' = AddLocations(where, nextRef, record.layout)

Replace(ref, record) ==
  /\ MayOwn(record.layout, {ref})
  /\ records' = [records EXCEPT ![ref] = record]
  /\ where' = AddLocations(DropLocations(where, records[ref].layout), ref, record.layout)
  /\ UNCHANGED nextRef

ReplaceSameLayout(ref, record) ==
  /\ record.layout = records[ref].layout
  /\ records' = [records EXCEPT ![ref] = record]
  /\ UNCHANGED <<where, nextRef>>

Delete(ref) ==
  /\ records' = Without(records, {ref})
  /\ where' = DropLocations(where, records[ref].layout)
  /\ UNCHANGED nextRef

-----------------------------------------------------------------------------
(* Targets of an operation. *)

RefsOf(targets) == {where[l].ref : l \in ToSet(targets)}
RefOf(targets)  == CHOOSE r \in RefsOf(targets) : TRUE

(* _state_ref_for_same_state_targets *)
InOneState(targets) == ToSet(targets) \subseteq OwnedNames /\ Cardinality(RefsOf(targets)) = 1

AxesOf(layout, targets) ==
  [i \in DOMAIN targets |-> CHOOSE a \in DOMAIN layout : layout[a] = targets[i]]

Ascending(S) == SetToSortSeq(S, <)

(* The entries of s at the axes of the sequence keep, in that order. *)
AtAxes(s, keep) == [i \in DOMAIN keep |-> s[keep[i]]]

KeptAxes(s, axes) == Ascending(DOMAIN s \ ToSet(axes))

(* _combine_states goes through the references in ascending order. *)
Tensor(refs) ==
  LET order == Ascending(refs)
  IN [layout  |-> FlattenSeq([i \in DOMAIN order |-> records[order[i]].layout]),
      payload |-> FlattenSeq([i \in DOMAIN order |-> records[order[i]].payload]),
      rep     |-> records[order[1]].rep]

(* Records of different representations, and Bell-diagonal ones, have no   *)
(* tensor product: the call raises before it has consumed anything.        *)
CanCombine(refs) == \E rep \in {"ket", "density"} : \A r \in refs : records[r].rep = rep

(* A mistake: the new record takes over the oldest reference.              *)
NewRefOldest(refs) == CHOOSE r \in refs : \A q \in refs : r <= q

(* _allocate_ref, after the consumed references are gone *)
NewRef(refs) == nextRef

(* _owning_state_for_targets on several records: consume_and_put, with the *)
(* representation the caller leaves the new record in.                     *)
Combine(targets, rep) ==
  LET refs == RefsOf(targets)
      new  == Tensor(refs)
      ref  == NewRef(refs)
  IN /\ Cardinality(refs) > 1 /\ CanCombine(refs) /\ nextRef < MaxRef
     /\ MayOwn(new.layout, refs)
     /\ nextRef' = nextRef + 1
     /\ records' = [r \in (Live \ refs) \cup {ref} |->
                      IF r = ref THEN [new EXCEPT !.rep = rep] ELSE records[r]]
     /\ where' = AddLocations(DropLocations(where, new.layout), ref, new.layout)

RepOf(targets) == records[RefOf(targets)].rep

(* The same for targets that are in one record already. *)
Convert1(ref, rep) == ReplaceSameLayout(ref, [records[ref] EXCEPT !.rep = rep])

-----------------------------------------------------------------------------
(* The manager's operations. *)

Prepare(layout, rep) ==
  /\ rep = "bell_diag" => Len(layout) = 2
  /\ LET qubits == [a \in DOMAIN layout |-> <<nextRef, a>>]
     IN /\ Put([layout |-> layout, rep |-> rep, payload |-> qubits])
        /\ holds' = [l \in DOMAIN holds \cup ToSet(layout) |->
                       IF l \in ToSet(layout)
                       THEN qubits[CHOOSE a \in DOMAIN layout : layout[a] = l]
                       ELSE holds[l]]
  /\ UNCHANGED noiseMode

RelabelSubsystem(old, new) ==
  /\ old \in OwnedNames /\ new \notin OwnedNames
  /\ LET ref == where[old].ref
     IN Replace(ref, [records[ref] EXCEPT !.layout = ReplaceAll(@, old, new)])
  /\ holds' = [l \in (DOMAIN holds \ {old}) \cup {new} |->
                 IF l = new THEN holds[old] ELSE holds[l]]
  /\ UNCHANGED noiseMode

(* apply and apply_noise: targets in several records are combined first,   *)
(* and stay combined when the operation itself is then refused.            *)
Apply(targets) ==
  /\ ToSet(targets) \subseteq OwnedNames
  /\ Combine(targets, RepOf(targets))
  /\ UNCHANGED <<noiseMode, holds>>

MeasureBell(targets) ==
  /\ Len(targets) = 2 /\ ToSet(targets) \subseteq OwnedNames
  /\ Combine(targets, RepOf(targets))
  /\ UNCHANGED <<noiseMode, holds>>

(* Noise models with auto_convert make a density state, unless noise on    *)
(* kets is sampled; Bell-diagonal records fall back to density when a      *)
(* channel is not a Pauli channel.                                         *)
NoisyReps(rep) ==
  CASE noiseMode = "density" -> {"density"}
    [] noiseMode = "sampled_ket" /\ rep = "bell_diag" -> {"bell_diag", "density"}
    [] OTHER -> {rep}

ApplyNoiseModels(targets) ==
  /\ ToSet(targets) \subseteq OwnedNames
  /\ \E rep \in NoisyReps(RepOf(targets)) :
       IF InOneState(targets) THEN Convert1(RefOf(targets), rep) ELSE Combine(targets, rep)
  /\ UNCHANGED <<noiseMode, holds>>

(* A POVM works on a density copy; it is stored when the result collapses. *)
MeasurePovm(targets) ==
  /\ ToSet(targets) \subseteq OwnedNames
  /\ \E rep \in {"density", RepOf(targets)} :
       IF InOneState(targets) THEN Convert1(RefOf(targets), rep) ELSE Combine(targets, rep)
  /\ UNCHANGED <<noiseMode, holds>>

(* Whether a state is pure, or Bell-diagonal, is left open. *)
Convert(ref, rep) ==
  /\ ref \in Live
  /\ rep = "bell_diag" => Len(records[ref].layout) = 2
  /\ Convert1(ref, rep)
  /\ UNCHANGED <<noiseMode, holds>>

(* What discard and measure_and_discard leave of a record. *)
TraceOut(targets) ==
  LET ref    == RefOf(targets)
      record == records[ref]
      keep   == KeptAxes(record.layout, AxesOf(record.layout, targets))
  IN /\ IF keep = <<>> THEN Delete(ref)
        ELSE Replace(ref, [layout |-> AtAxes(record.layout, keep), rep |-> "density",
                           payload |-> AtAxes(record.payload, keep)])
     /\ holds' = Without(holds, ToSet(targets))
     /\ UNCHANGED noiseMode

Discard(targets) == InOneState(targets) /\ TraceOut(targets)

(* A Bell-diagonal record cannot be measured projectively. *)
MeasureAndDiscard(targets) ==
  InOneState(targets) /\ RepOf(targets) # "bell_diag" /\ TraceOut(targets)

(* A mistake: the reset factors stay behind the axes that were kept.       *)
ResetPayloadUnordered(payload, axes) == AtAxes(payload, KeptAxes(payload, axes) \o axes)

(* reset_density traces the axes out, multiplies a fresh factor for each   *)
(* of them behind the rest, and permutes the product into layout order.    *)
(* The factor for a target stands for the qubit the target holds.          *)
ResetPayload(payload, axes) ==
  LET current  == KeptAxes(payload, axes) \o axes
      product  == AtAxes(payload, current)
      position == [a \in DOMAIN payload |-> CHOOSE i \in DOMAIN current : current[i] = a]
  IN [a \in DOMAIN payload |-> product[position[a]]]

Reset(targets) ==
  /\ InOneState(targets)
  /\ LET ref == RefOf(targets)
         record == records[ref]
     IN ReplaceSameLayout(ref,
          [record EXCEPT !.payload = ResetPayload(@, AxesOf(record.layout, targets)),
                         !.rep = "density"])
  /\ UNCHANGED <<noiseMode, holds>>

DeleteState(ref) == /\ ref \in Live /\ Delete(ref)
                    /\ holds' = Without(holds, ToSet(records[ref].layout))
                    /\ UNCHANGED noiseMode

(* References stay used up across a clear. *)
Clear == records' = <<>> /\ where' = <<>> /\ holds' = <<>> /\ UNCHANGED <<nextRef, noiseMode>>

Next == \/ \E t \in Tuples(Labels) :
             \/ \E rep \in {"ket", "density", "bell_diag"} : Prepare(t, rep)
             \/ Apply(t) \/ MeasureBell(t) \/ ApplyNoiseModels(t) \/ MeasurePovm(t)
             \/ Discard(t) \/ MeasureAndDiscard(t) \/ Reset(t)
        \/ \E old, new \in Labels : RelabelSubsystem(old, new)
        \/ \E ref \in Live : \/ \E rep \in {"ket", "density", "bell_diag"} : Convert(ref, rep)
                             \/ DeleteState(ref)
        \/ Clear

Spec == Init /\ [][Next]_vars
-----------------------------------------------------------------------------
(* The axis the index gives for a name is the axis of the qubit the name   *)
(* was given: combining, tracing out, resetting and relabelling records    *)
(* permute layout and payload alike.                                       *)
AxesNameTheRightQubit ==
  \A l \in OwnedNames : records[where[l].ref].payload[where[l].axis] = holds[l]

(* A reference a caller keeps never comes to mean another state: a record  *)
(* keeps the names it had until they are discarded or relabelled, and a    *)
(* reference that died is not given out again (references only grow).      *)
RefsAreStable ==
  [][/\ \A r \in DOMAIN records' \ Live : r >= nextRef /\ r < nextRef'
     /\ \A r \in DOMAIN records' \cap Live :
          ToSet(records'[r].payload) \subseteq ToSet(records[r].payload)]_vars

Ownership == INSTANCE SubsystemOwnership WITH
  Label <- Labels, groups <- {ToSet(records[r].layout) : r \in Live}

(* Every operation of the manager creates, joins, reduces or renames joint *)
(* states as SubsystemOwnership says, and none touches anyone else's.      *)
ImplementsOwnership == Ownership!OwnershipSpec
=============================================================================

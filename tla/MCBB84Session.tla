--------------------------- MODULE MCBB84Session ---------------------------
(* The BB84 session, and the post-processing of examples/postprocessing    *)
(* on bits that are given; a behaviour is of one of them.                  *)
(*                                                                         *)
(* Twelve slots, the last one empty; the detector reports the other        *)
(* eleven, with up to four wrong bits, or a frame of irregular reports.    *)
(* Two sampled bits leave a key of nine: blocks of 2, of 4, then of 8.     *)
EXTENDS BB84Session

CONSTANTS RawBits, ErrorPositions, MissCounts, MaxFinalKey

VARIABLES steps, sender, receiver, toSender, toReceiver, dropped, halted,   \* of the other
          subject

Post == INSTANCE PostprocessingSession WITH
          local <- steps, alice <- sender, bob <- receiver, toAlice <- toSender,
          toBob <- toReceiver, lost <- dropped, raised <- halted

postVars == <<steps, sender, receiver, toSender, toReceiver, dropped, halted>>

MCPrepared == [k \in 1..12 |-> IF k = 12 THEN NoEmission
                              ELSE [basis |-> IF k % 3 = 0 THEN "X" ELSE "Z", bit |-> k % 2]]

Report(k, flip, late) ==
  [from |-> k, time |-> ExpectedArrival(k) + late, success |-> TRUE,
   basis |-> MCPrepared[k].basis, bit |-> (MCPrepared[k].bit + flip) % 2]

Regular(wrong) == [k \in 1..11 |-> Report(k, IF k \in wrong THEN 1 ELSE 0, (k % 3) - 1)]

(* A wrong basis, a failed report, a photon that strays into the next slot *)
(* before or after that slot's own, one near no slot, one in an empty      *)
(* slot, and a click without an outcome.                                   *)
Irregular ==
  { [Regular({}) EXCEPT ![3].basis = "Z"],
    [Regular({4}) EXCEPT ![2].success = FALSE],
    [Regular({}) EXCEPT ![4].time = @ + Period, ![4].bit = 1 - @],
    InsertAt(Regular({}), 5, Report(3, 1, Period)),
    [Regular({1}) EXCEPT ![5].time = ExpectedArrival(5) + 2],
    Append(Regular({2}), Report(11, 1, Period)),
    [Regular({}) EXCEPT ![6].bit = NoBit] }

MCFrames == {Regular(w) : w \in {x \in SUBSET {1, 3, 4, 5, 6, 11} :
                                     Cardinality(x) \in {0, 1, 2, 4}}} \cup Irregular

MCSampleChoices(n, size) == IF size = 1 THEN {<<1>>} ELSE {<<1, 2>>, <<3, 8>>}

MCShuffles(n) == {<<1, 2, 3, 4, 5, 6, 7, 8, 9>>, <<1, 8, 2, 3, 9, 4, 7, 5, 6>>}

(* A margin that makes up for a key of nine bits                           *)
MCSecurityMargin == -18

MCPhaseErrorCost(errors, size, n) == IF errors = 0 THEN 1 ELSE n

(* Of 21 raw bits eleven have matching bases: a sample of two and a key of *)
(* nine; with one missed, ten and a sample of one; with two, too few.      *)
MCErrors == {{}, {3}, {1}, {1, 3}, {4, 9}, {1, 5, 6}, {3, 4, 8, 10}}
-----------------------------------------------------------------------------
SessionsInit ==
  /\ subject \in {"session", "postprocessing"}
  /\ Init /\ Post!Init
  /\ subject # "session" => frame = Regular({})
  /\ subject = "session" => receiver.measured = Post!BobBits({}, 0)

SessionsNext ==
  \/ subject = "session" /\ Next /\ UNCHANGED <<postVars, subject>>
  \/ subject = "postprocessing" /\ Post!Next /\ UNCHANGED <<vars, subject>>

SessionsSpec ==
  /\ SessionsInit /\ [][SessionsNext]_<<vars, postVars, subject>>
  /\ WF_vars(subject = "session" /\ TimelineStep)
  /\ WF_postVars(subject = "postprocessing" /\ Post!Next)
-----------------------------------------------------------------------------
(* The settings of the post-processing                                     *)
ASSUME PostAssumption ==
  /\ RawBits \in Nat /\ MaxFinalKey \in Nat
  /\ \A n, size, errors \in 0..RawBits :
       /\ PhaseErrorCost(errors, size, n) \in Nat
       /\ SampleChoices(n, size) \subseteq Seq(Nat)

(* In both, the positions that one agent keeps are the other's: those of   *)
(* the same slots, none of them missed, less the same sample               *)
(* (assign_reports_to_slots, _on_sift_indices, _on_estimate_sample).       *)
PositionsMatch == SlotsAligned /\ Post!PositionsMatch

(* In both, each block of the first pass has Alice's parity when Cascade   *)
(* completes (BinaryCascade.next_request, apply_parity_response).          *)
FirstPassesMatch == FirstPassMatches /\ Post!FirstPassMatches

(* In both, two agents that have a final key have the same one, unless two *)
(* tags were by chance; in the second neither completes alone              *)
(* (_on_verify_tag, _on_privacy_seed).                                     *)
FinalKeysAgree == KeysAgree /\ Post!KeysAgree

(* In both, the final key is shorter by everything that was disclosed      *)
(* (available_entropy, demo_entropy_budget).                               *)
DisclosuresSubtracted == DisclosureSubtracted /\ Post!DisclosureSubtracted

(* A handler of BB84 raises only when a message was lost or a click has no *)
(* outcome; one of the post-processing never does, since its agents drop   *)
(* what comes after the end.                                               *)
RaisesUnderstood == RaisesOnlyAfterLoss /\ Post!NeverRaises

(* A session whose messages arrive ends in one of the ways it means to.    *)
SessionsEnd ==
  /\ subject = "session" => SessionEnds
  /\ subject = "postprocessing" => Post!SessionEnds
=============================================================================

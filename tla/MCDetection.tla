----------------------------- MODULE MCDetection -----------------------------
(***************************************************************************)
(* The two halves of a detection: the Bell analyzer that pairs signals     *)
(* (module BellAnalyzer), with windows of no, one and two ticks and every  *)
(* way of pairing, and the devices that turn a state into a report (module *)
(* Readout).  A behaviour is about one of them; the other never moves.     *)
(***************************************************************************)
EXTENDS BellAnalyzer, Readout, TLC

VARIABLE subject   \* the module this behaviour is about

detectionVars == <<subject, vars, readoutVars>>

MCConfigs ==
  {[window |-> 0, fifo |-> TRUE, consumeMatched |-> TRUE, consumeUnmatched |-> FALSE],
   [window |-> 1, fifo |-> TRUE, consumeMatched |-> FALSE, consumeUnmatched |-> TRUE],
   [window |-> 1, fifo |-> FALSE, consumeMatched |-> TRUE, consumeUnmatched |-> TRUE],
   [window |-> 2, fifo |-> TRUE, consumeMatched |-> TRUE, consumeUnmatched |-> TRUE]}

(* An array with each resolver, both Bell models and a qubit readout.      *)
Device(kind, consume, resolver) == [kind |-> kind, consume |-> consume, resolver |-> resolver]
MCSettings ==
  {Device("array", TRUE, r) : r \in {"first", "random", "povm"}} \cup
  {Device("array", FALSE, r) : r \in {"fail", "povm unclicked"}} \cup
  {Device("station", TRUE, "patterns"), Device("ideal station", FALSE, "patterns"),
   Device("qubit readout", FALSE, "confusion")}

(* The bases Z and X over three detectors, where X shares one with Z and   *)
(* never lights another; a POVM with an outcome that is not in the map;    *)
(* and a call that measures nothing.                                       *)
Call(method, label, named, discard) ==
  [method |-> method, label |-> label, whole |-> named = {}, named |-> named, discard |-> discard]
MCMeasurements ==
  {Call("projective", "Z", {}, FALSE), Call("projective", "X", {1}, FALSE),
   Call("povm", "three", {}, FALSE), Call("none", "none", {2}, TRUE)}
MCOutcomes == "Z" :> {"0", "1"} @@ "X" :> {"+", "-"} @@ "three" :> {"a", "b"}
MCWiring   == "Z" :> ("0" :> 1 @@ "1" :> 2) @@ "X" :> ("+" :> 3 @@ "-" :> 1)
                @@ "three" :> ("a" :> 2)

MCPatterns  == {[outcome |-> "psi+", detectors |-> {1, 2}],
                [outcome |-> "psi-", detectors |-> {1, 3}]}
MCConfusion == "0" :> {"0", "1"}
-----------------------------------------------------------------------------
DetectionInit ==
  /\ subject \in {"pairing", "reading"}
  /\ Init /\ (subject = "reading" => config = CHOOSE c \in Configs : TRUE)
  /\ ReadoutInit /\ (subject = "pairing" => device = CHOOSE d \in Settings : TRUE)

Pairing == subject = "pairing" /\ UNCHANGED <<subject, readoutVars>>
Reading == subject = "reading" /\ ReadoutNext /\ UNCHANGED <<subject, vars>>

DetectionNext == (Pairing /\ Next) \/ Reading

(* The fairness of BellAnalyzer!FairSpec.                                  *)
DetectionSpec ==
  /\ DetectionInit /\ [][DetectionNext]_detectionVars
  /\ WF_detectionVars(Pairing /\ Tick) /\ WF_detectionVars(Pairing /\ Timeout)
=============================================================================

--------------------------- MODULE MCPhotonicLink ---------------------------
(* Two pairs at most; two threshold detectors that are always open on the  *)
(* left, one that resolves photon numbers behind a gate on the right.      *)
EXTENDS PhotonicLink

MCDetectors == [s \in Sides |-> IF s = "left" THEN {"plus", "minus"} ELSE {"plus"}]
MCGate      == [s \in Sides |-> IF s = "left" THEN AlwaysOpenGate ELSE PeriodicGate(3, 2, 2)]
MCSides     == {"left", "right"}
MCOffset    == [s \in Sides |-> IF s = "left" THEN 0 ELSE 1]
MCResolving == {"right"}
=============================================================================

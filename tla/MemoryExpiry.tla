---------------------------- MODULE MemoryExpiry ----------------------------
(***************************************************************************)
(* What the documentation of the quantum memory says of expiry and of      *)
(* storage noise, against what the memory does when an operation with a    *)
(* delay is in progress: of one tick, with a lifetime of one tick or none. *)
(***************************************************************************)
EXTENDS QuantumMemory

VARIABLE latency    \* position -> ticks its occupant has spent in operations

ExpiryVars == <<vars, latency>>

ExpiryConfigs ==
  {[delay |-> [o \in Operations |-> IF o = "operator" THEN 1 ELSE 0],
    recovery |-> 0, lifetime |-> l, notices |-> FALSE] : l \in {1, None}}

ExpiryInit == Init /\ latency = [p \in Positions |-> 0]

InOperation(r) == r.status \in {"applying_operator", "measuring"}

(* The delay of an operator or measurement that leaves the qubit in place. *)
OperationDelay(r) ==
  config.delay[IF r.status = "measuring" THEN "measure" ELSE "operator"]

ExpiryNext ==
  /\ Next
  /\ latency' = [p \in Positions |->
       IF InOperation(pos[p]) /\ pos'[p].status = "occupied"
         THEN latency[p] + OperationDelay(pos[p])
       ELSE IF pos'[p].status \in Holding THEN latency[p] ELSE 0]

ExpirySpec == ExpiryInit /\ [][ExpiryNext]_ExpiryVars

(* docs/source/components/memories/quantum_memory.rst:226: a current       *)
(* expiry discards the memory subsystem.  As long as nothing has failed,   *)
(* no idle occupant outlives the expiry time in its record.                *)
NothingOutlivesExpiry ==
  ~aborted => \A p \in Positions :
    (pos[p].status = "occupied" /\ pos[p].expires # None) => now <= pos[p].expires

(* docs/source/components/memories/quantum_memory.rst:305: no additional   *)
(* passive storage noise is accrued during the latency of an operation.    *)
(* The time that noise was applied for and the time spent in operations    *)
(* are parts of the time of storage that do not overlap.                   *)
NoNoiseInOperations ==
  \A p \in Positions : pos[p].status = "occupied" =>
    (pos[p].lastNoise - pos[p].stored) + latency[p] <= now - pos[p].stored
=============================================================================

--------------------------- MODULE MCQuantumMemory --------------------------
(* Two positions. With requests of any kind: a memory without delays, one with a delay of every kind  *)
(* and an expiry that may come while an operation is in progress, and one  *)
(* that recovers slowly and never expires.  With an agent: no delay or     *)
(* every delay, no expiry or one in the next tick.                         *)
EXTENDS MemoryClient

MCPositions == {0, 1}

AllDelays(d) == [o \in Operations |-> d]

Anybody ==
  {[delay |-> AllDelays(0), recovery |-> 0, lifetime |-> 0, notices |-> FALSE],
   [delay |-> [AllDelays(2) EXCEPT !["absorb"] = 0], recovery |-> 0, lifetime |-> 1, notices |-> FALSE],
   [delay |-> AllDelays(1), recovery |-> 0, lifetime |-> 2, notices |-> FALSE],
   [delay |-> AllDelays(1), recovery |-> 1, lifetime |-> None, notices |-> FALSE]}

Agent ==
  {[delay |-> AllDelays(d), recovery |-> 0, lifetime |-> l, notices |-> TRUE] :
     d \in {0, 1}, l \in {1, None}}

MCConfigs == Anybody \cup Agent
=============================================================================

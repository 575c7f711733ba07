# A verification project for SimYuj

SimYuj (`src/src/simyuj`) is a discrete-event simulator of quantum networks:
protocol agents on nodes exchange classical messages and quantum signals, store
qubits in memories, reserve memory slots and register entangled pairs, all
driven by one deterministic timeline. This directory holds TLA+ modules that
model it and the protocol sessions of its examples and tutorials, TLC
configurations that check them on small instances, and proofs that hold for
every instance. Paths below are relative to `src/src/simyuj` unless they start
with `docs/`, `tests/`, `examples/` or `tutorials/` (under `src/`).

## 1. The system

Everything runs in one thread. Concurrency is that of a simulator: many
components have events on one queue, an event's handler runs to its end, and
what it reads may have been changed by any handler that ran between the
scheduling of an event and its delivery. The hard behaviours are therefore
orders of events within one tick, state that an event in flight was scheduled
from and that has changed since, messages that are lost or late, cancellation
after an event has left the queue, and exceptions that leave a handler half way.

| Part | State it keeps | What makes it correct | Modules |
|---|---|---|---|
| Timeline and event queue (`engine/timeline.py`, `event_queue.py`, `event.py`, `event_ordering.py`) | clock, heap with lazily cancelled entries, next event id, re-entrancy flag | order by time, priority, id; nothing lost, run twice or run in the past; cancellation honoured; loops return | `Timeline` |
| Random streams (`engine/rng_manager.py`) | named generators, frozen flag | none is created after the first step | `SessionRuntime` (paths, not values) |
| Timers (`control/timers.py`) | timer id -> last event | the remembered event is the one that will fire | `TimerService` |
| Agents and session runtime (`control/agent.py`, `runtime.py`, `binding`) | bound and started flags, contexts | bound and started once, devices before agents | `SessionRuntime` |
| Service facades (`control/memory.py`, `resources.py`, `pairs.py`, `classical.py`) | none | requests are events; the ledgers are called at once | `MemoryClient`, `PairService`, the sessions |
| Resource ledger (`resources/`) | slot views, reservations, holders | a slot has one holder; holders, reservations and slot states agree; physical reports survive | `ResourceManager` |
| Pair registry (`entanglement/registry.py`, `pair.py`) | pair records | a slot is in one active pair; terminal states are final | `PairRegistry` |
| Pair queries and builders (`entanglement/queries.py`, `build.py`) | none | one usable pair for each hop; the record agrees with the reports | `PairService` |
| Quantum memory (`components/memories/`) | one record per position with an occupancy token; completions and expiries on the timeline | events in flight agree with the positions they come back to; qubits owned exactly while stored; reports suffice to use it | `QuantumMemory`, `MemoryClient` |
| Channels, ports, connections (`components/channels/`, `connections.py`, `ports.py`) | counters, connections | what was sent arrives once, at its time, or is lost | `PhotonicLink`, the sessions |
| Sources (`components/sources/`) | trial counters | the k-th attempt lies in the k-th slot | `PhotonicLink` |
| Detectors, arrays, readout (`components/detectors/`) | gates, dead times, last clicks | a dead detector does not click; a report tells what was found | `DetectorChannel`, `PhotonicLink`, `Readout` |
| Bell analyzer (`components/detectors/bell_analyzer.py`) | two buffers of signals | each signal is matched once or times out once, within the window | `BellAnalyzer`, `Readout` |
| Routing, planning (`network/`) | nodes, links | equals the definition of a best route | `NetworkRoutes` |
| Quantum states (`qstate/`) | state store, index subsystem -> owner, states in four representations | one owner for each subsystem; axes name the right qubits; every route of an operation gives the same state | `SubsystemOwnership`, `StateStore`, `PauliLabels`, `BellDiagonal`, `PairRepresentations`, `DenseStates` |
| Key sessions (`examples/bb84`, `examples/postprocessing/bb84_event`, `tutorials/four_node_qkd`) | bits, samples, Cascade, messages in flight | both end with the same key or without one; nothing kept was disclosed | `KeyProcessing`, `BB84Session`, `PostprocessingSession`, `E91Session` |
| Pair protocols (`tutorials/protocols`, `tutorials/11_capstone`) | agents' notes of a round | the halves used belong together; what arrives is what was sent | `Distillation`, `Teleportation`, `PairPreparation` |
| Tracing, metrics, signals, primitives | none that others read | | not modelled |

How they interact. An agent hook is a timeline handler; it calls its services,
which schedule request events for a memory (`control/memory.py`), call the
ledger and the registry directly, set timers on the same timeline or put
messages on channels. Memories, detectors and sources schedule events for
themselves and reports for the agents. The ledger and the registry are never
told anything by the memories: agents report what they learn, or do not. All
quantum contents live in one state manager, addressed by labels that the
memories take over and give up.

The hazards that follow from this are listed, with their lines and the
properties that would catch them, under `hazards` in `PROJECT.json`.

## 2. The modules

| Layer | Promise | Model | Instance | Proofs |
|---|---|---|---|---|
| Engine | `EventSchedule` | `Timeline`, `TimerService` (extends it), `TimerCancel` | `MCTimeline` | `TimelineProofs` |
| Ledgers | `SlotLease` | `ResourceManager`, `PairRegistry` | `MCLedgers` | `ResourceProofs` |
| Memories | | `QuantumMemory`, `MemoryClient` (extends it), `MemoryExpiry` | `MCQuantumMemory` | `MemoryProofs` |
| Light | | `DetectorChannel`, `PhotonicLink`, `Readout`, `BellAnalyzer` | `MCPhotonicLink`, `MCDetection` | `LinkProofs`, `DetectionProofs` |
| States | `SubsystemOwnership` | `StateStore`, `PauliLabels`, `BellDiagonal`, `PairRepresentations`, `DenseStates` | `MCQuantumStates` | `LinkProofs` |
| Key sessions | | `KeyProcessing`, `BB84Session`, `PostprocessingSession` | `MCBB84Session` | `KeyProofs`, `SessionProofs` |
| Networks | | `E91Session`, `Distillation`, `Teleportation`, `PairService`, `PairPreparation`, `NetworkRoutes`, `SessionRuntime` | `MCProtocols` | `ProtocolProofs` |

Modules of a higher layer are written against the promise of a lower one:
memories, the analyzer and the sessions use events as `EventSchedule` promises
them, `PhotonicLink` uses subsystem names as `SubsystemOwnership` does, and
`PairService` extends `PairRegistry` and instantiates `ResourceManager`.

Operators whose comment begins "A mistake" belong to no specification. Each is
a plausible bug in the definition that follows it; `mutants` in `PROJECT.json`
says which property it breaks.

### Timeline

An event is its id; ids are never reused, so an id also stands for the Event
object and its cancelled flag. `heap` is the set of ids in the heap, cancelled
entries included; `Purged` is `_discard_cancelled`, and `NextBatch` is what
`pop_batch` collects. `batch` is the local variable of `run_one_step`, `running`
the handler on the stack, `call` the run method on the stack, `executing` the
re-entrancy flag. One iteration of the dispatch loop is `SkipCancelled`,
`CallHandler`, `TargetRejected`; a handler ends with `HandlerReturns` or
`HandlerRaises`, and in between any number of `Schedule`, `Cancel` and
`Reschedule` happen, on any event, also one in the popped batch. `Abandon` is
the way of an exception through the `finally` block and the loops: the rest of
the batch is dropped, as the docstring of `run_one_step` says. `CallRun`,
`LoopStep` and `LoopReturn` are `run_until` and `run_until_empty`.
`CallRunOneStepInVain` is the corner where the heap holds cancelled entries
only: the registry is frozen, the heap is emptied and `IndexError` leaves. A
call of a run method from a handler is refused before it changes anything, and
is one of the exceptions of `HandlerRaises`. `handled`, `dropped` and `horizon`
are history for the properties.

`ImplementsSchedule` maps `pending` to the live events of heap and batch. It is
what allows other modules to be written against `EventSchedule` alone.

### TimerService, MCTimeline

`active` is `_active`; `timerOf` and `modeOf` are history, the timer id in an
event's payload and the call it came from. `set` is `at` with `now + delay`.
`AtPast` keeps the order of the code: `replace` cancels the old timer before the
payload's own check refuses a time in the past. `CancelEvent` is `cancel` given
an Event, which leaves the entry in the map. Other events of the session are
`ScheduleOther`. The timers of several agents share nothing but the engine, so
one agent is modelled. In `MCTimeline` a behaviour has one `user` of the engine:
anyone, who makes every call there is, or the agent with its timers.

### ResourceManager

`slot` is `_slots[ref].state`, `readyAt` is fixed at registration, `holder` is
`_memory_holders`. Devices are registered whole, by `from_network` (`Init`) or
`register_memory`. `ReserveRefs`, and `ReserveMemories` by node or by device,
are all or nothing; ids are the caller's or generated (`FreshId`), and
a generated id is used up even when the record's own validation then refuses
the reservation (`ReserveRejected`). `CloseAll` is `_close_reservation`, its
checks being what `LedgerConsistent` shows cannot fail. The `mark_*` methods ask
for no owner, and come in any order.

### PairRegistry, MCLedgers

`Register` takes records in every state. `Replace` is `_replace`, with the
conflict check it repeats; the five lifecycle methods are instances of it.
`expire_before` is one action, as in the code no other call comes between.
`MCLedgers` puts both ledgers over one clock; as neither reads
the other, each is explored while the other is as it was made.

### QuantumMemory, MemoryClient, MemoryExpiry

`pos` is the tuple of position records without their payloads. `pending` is the
part of the timeline that the memory has scheduled for itself, each event with
the tokens its payload carries; `owned` says which position labels the state
manager owns; `told` is the last occupant that reports have told of, and `mail` the reports
on their way through a connected notice port. A request either finishes at
once or marks its positions busy and schedules a completion (`Delayed`).
`Current` is `_completion_is_current` and the two checks of `_handle_expire`.
The clock moves one tick at a time, as other components' requests may come at
any tick, and stops neither before nor after an event of the memory's own
(`Tick`).

- Of one tick, events of different positions are taken in any order, since
  their order follows from which was scheduled first. An expiry comes before
  the completion of an operation on the same occupancy: both have the memory's
  delivery priority and the expiry was scheduled first (`Precedes`).
- `FinishAbsorb` fails for a dead photon or by chance; which, is a choice.
- An exception leaves the run method and takes any part of the tick's events
  with it: `CompletionRaises` for the memory's own completions, `OtherRaises`
  for a refused request or another component.
- Of the metadata of an occupant one entry is kept: the occupant that its
  writer meant (`tag`).
- Left out: the contents of states and the counters of emitted photons.

`MemoryClient` adds an agent that asks through `control/memory.py`, whose
requests are events of the current tick (`asked`), and learns what became of
them from the reports (`view`). It goes by its reports: it asks for what they
make possible, and names the occupant that it means when it writes metadata.
Photons that nobody asked for arrive as well. `MemoryExpiry` adds the ticks an
occupant spent in operations, for two statements of the documentation.

### BellAnalyzer

A signal is its input number, given in the order of arrival. Both lists of
`_buffers` are one set `waiting`: a list is only appended to and popped from, so
it is always in the order of arrival, and its first match is the least
number (`Chosen`). `timeouts` is what the analyzer has on the timeline, stale
timeouts included, since the code never cancels one. `_handle_arrival` is
`ArriveAlone`, `ArriveAndMatch` or, if the measurement raises,
`ArriveAndFail`; `_handle_timeout` is `TimeoutStale`, `TimeoutFires` or
`TimeoutFails`. Arrivals come before or after the timeouts of their tick: both
priorities are parameters. A report is the pair of inputs it is about. `owned`
says whose target the store owns, `lost` is history for what exceptions have
taken.

### DetectorChannel, Readout, MCDetection

`DetectorChannel` is one single photon detector: its gate, the candidates of a
window (a signal click, a dark count, an afterpulse, each with jitter) and which
of them click. The code walks through the candidates in time order; `Accepted`
states the result: every click is open, alive and after the last one by the dead
time, and every candidate that is not a click had a reason.

`Readout` goes from a state to a report, for three devices: the detector array
(targets of the measurement call, outcome, readout map or POVM, exposure of the
detectors, every click resolver), the Bell station (click patterns, ideal or
linear optical) and the readout of stored qubits. What a measurement finds is a
choice; `stored` is what the state store owns then. `MCDetection` has one
behaviour about pairing (`BellAnalyzer`) or about reading (`Readout`).

### PhotonicLink

A source of pairs or of single photons, a quantum channel and a detector array
per side, over the timeline: a signal is an event that waits at a component
(`stage`). `source` is the one event a source has pending: start, slot, delayed
emission. The array consumes its signals. `groups` is the store of
`SubsystemOwnership`: every step that touches names is one of its actions.

### SubsystemOwnership, StateStore

`SubsystemOwnership` is the promise: names in disjoint joint states, merged by
joint operations, dropped by measurements. `StateStore` is `qstate/store.py` and
the manager's bookkeeping, one step per call of the store: `records` and `where`
are its two dictionaries, `holds` is history, the qubit that a name means. The
property `StorePromises` is the refinement.

### PauliLabels, BellDiagonal, PairRepresentations

Bell labels are pairs of bits (`PauliLabels`), and an operator is a symplectic
vector. A chain of pairs with known labels or weights is swapped, acted on and
corrected in each representation that `qstate` has (label, weights, ket,
density matrix); kets and matrices over Gaussian integers, up to a positive
factor, so that no root of two appears. `RepresentationsAgree` says that every
route gives the same pair, `FramesRestore` that the corrections undo what was
done.

### DenseStates, MCQuantumStates

`DenseStates` begins with the array arithmetic of `qstate` on kets and density
matrices: gates on axes in any order, projective and POVM measurements, Kraus
channels, partial traces, resets, reordering. It then applies sequences of
them to one register both as a ket ensemble and as a matrix, against definitions
by basis vectors. What a partial trace means is the axes in the order of the
request; where the code gives all of them in another one, the register is
`turned`, which the run `keep_axes` is about, and is not followed further.
`MCQuantumStates` has one behaviour about pairs, about
registers or about the store.

### KeyProcessing, BB84Session, PostprocessingSession

`KeyProcessing` holds what the key sessions share: sampling, Cascade's
controller (blocks, parities, binary search, look-back), hashing up to
collisions, and the terms of the length formula. A handler of an agent is an
operator that gives the set of its outcomes: the agent's next state, messages,
local events, or an exception. `BB84Session` takes the detector reports of a
run as inputs (`frame`), and has every handler of both agents from slot
assignment to the final key. `PostprocessingSession` starts from bases and bits
as `make_demo_inputs` gives them; unlike the former agents these tell each other
of an abort. In both, messages of one channel arrive in order and may be lost;
events of different kinds come in any order.

### E91Session

C announces, B and D collect reports, D leads: pairs of the key and of the
Bell test, sample, Cascade, verification, privacy amplification. `revealed` is
history: the pairs of which an outcome or a bit went over a channel.

### Distillation, Teleportation, PairPreparation

One round of BBPSSW with memories that may delay, expire and lose
(`Distillation`); rounds kept in step by nothing but the period
(`Teleportation`); the prepared pair of the capstone, the choice of its source,
the deadline, and the cells that teleport with it (`PairPreparation`). In the
latter two the state that a half carries is the Pauli operator between it and
what it should be (`fault`).

### PairService

A controller over a route: memories reserved by requirements, pairs recorded
from absorb reports, one of each hop chosen and reserved, swapped, the new pair
recorded. `todo` is the rest of the running handler's calls, so that the state
between two calls is there when one raises. Memories may lose a qubit and tell
neither ledger.

### NetworkRoutes, SessionRuntime, MCProtocols

`NetworkRoutes` has the graph and the three searches of `RoutePlanner`, one step
an iteration or a recursive call, with the stack explicit; `RoutesFound`
compares with the set of all routes. `SessionRuntime` has two sessions over one
network: what they collect, bind, start, and where an exception leaves them.
`MCProtocols` gives each behaviour one subject among the seven of its layer.

## 3. What the runs check

| Run | Instance | States | Shows |
|---|---|---|---|
| `timeline` | 3 events; anyone: ticks 0..2, 2 priorities; agent: ticks 0..1, 1 timer id | 1 450 000 | `EventsAccounted`, `DispatchOrder`, `CancelHonoured`, `RunUntilExact`, `CallsReturn`, `OneFutureTimerPerId`, `ImplementsSchedule` |
| `ledgers` | 2 slots on 2 devices, 2 reservations; 3 pairs over 3 slots; ticks 0..1 | 880 000 | `LedgerConsistent`, `OnePairPerSlot`, `PhysicalStateKept`, `BothImplementLeases` |
| `quantum_memory` | 2 positions, 8 configurations, requests until tick 2, up to 3 occupancies, an agent with 4 requests or arrivals | 510 000 | `EventsMatchPositions`, `LabelsMatch`, `ReportsSuffice`, `ExpiresOnTime`, `BusyEnds` |
| `detection` | pairing: 3 signals, 1 key or none, arrivals at ticks 0..3, 4 settings; reading: 2 signals, 3 detectors, 8 devices | 260 000 | `EachSignalOnce`, `NoMissedPair`, `ReportsTrue`, `WaitingEnds` |
| `photonic_link` | 2 attempts, both kinds of source, two threshold detectors on one side, one gated and resolving on the other | 140 000 | `QubitsFollowSignals`, `EmissionsOnSchedule`, `DeadTimeKept`, `EverySignalEnds` |
| `qstate` | chains of 1 to 3 pairs, 3 operations; registers of 1 to 3 qubits; 3 names, 5 references | 62 000 | `FramesRestore`, `AxesMeanTheirQubits`, `RepresentationsAgree`, `StorePromises` |
| `bb84_session` | 12 slots, 11 reports; 21 raw bits; 1 lost message | 160 000 | `PositionsMatch`, `FirstPassesMatch`, `FinalKeysAgree`, `DisclosuresSubtracted`, `RaisesUnderstood`, `SessionsEnd` |
| `protocols` | one subject per behaviour, see below | 500 000 | `KeptNeverRevealed`, `KeysAgree`, `RoundsAreSound`, `RoutesFound`, `AgentsStartBound`, `ProtocolsEnd` |
| `timer_cancel`, `memory_expiry`, `memory_noise`, `keep_axes` | small instances of the above | | each one violated, see section 5 |

Why the bounds are enough.

- Timeline. Three events give a handler that is running, one in the rest of its
  batch and one in the heap, which is every place an event can be in at once;
  two priorities and equal times give every tie.
- Ledgers. Two slots of two devices let one reservation hold both, two hold one
  each, and one compete for a held slot; registering a device late, recovery and
  expiry need two ticks. Three pairs over three slots give pairs that share a
  slot, an end of life and a successor on the same slots.
- Memory. Two positions give operations on several positions and on one of them;
  three occupancies give an expiry of an earlier occupant during a later one.
  Without an agent the configurations are: no delays and a lifetime of zero;
  delays longer than the lifetime, so that expiries meet busy positions; delays
  shorter than the lifetime; no lifetime, with recovery. With one: no delay or
  all, a lifetime of one tick or none.
- Detection. Three signals give an arrival two candidates to choose from, or one
  that has been matched and one whose window has ended; arrivals until tick 3
  pass the longest window (two ticks) by one; one key and none give every match
  and mismatch of keys but that of two different keys, which is the same branch
  as a key and none. Of two signals at a device the second meets the dead times
  and afterpulses of the first; two of the bases share a detector, one leaves a
  detector dark, and the POVM has an outcome that is not in its map.
- Link. Two attempts give a slot, its successor and a stop between; the gate of
  the right side has a period of 3 ticks, 2 of them open, and starts late.
- States. The first operation on a chain makes a representation, the second
  mixes them and the third sees the mixture; the order of axes only permutes.
  Registers obey steps + qubits <= 4; gates, channels (damping by 16/25, a
  correlated Pauli channel) and a POVM with rational square roots keep
  all numbers in the Gaussian integers; six sequences of axes include reversed,
  skipped and rotated ones, of two and of three axes. Three names are enough for a joint state, one that
  joins it, and a relabelling.
- BB84. Two sampled bits leave a key of nine, which Cascade cuts into blocks of
  2, 4 and 8, one of them short; up to four wrong bits give pairs of errors that
  hide in a block of every pass. Irregular frames have a wrong basis, a failed
  report, a photon that strays into the next slot before or after that slot's
  own, one near no slot, one in an empty slot, and a click without an outcome. The security margin is negative to make up for a key
  of nine bits: a real key is some hundreds long. One lost message per run is
  enough to stop each exchange at each point. In the post-processing example 11
  of the 21 bases match; seven sets of errors and up to two missed detections
  give samples of one and two and keys that are too short.
- Protocols. E91: nine pairs in ten frames, keys of three bits. Distillation:
  one half lost, memories with or without delay and expiry. Teleportation: three
  rounds at 0.5, 1, 1.5 and 4 metres, where signals overlap differently. Pairs:
  four slots at three nodes, three records (one stored the other way round), a
  record's lifetime of one tick, one qubit lost. Preparation: the two stations
  of the notebook, one with a longer fiber, and one equal lossless station;
  deadlines as in the notebook, at the last arrival, and too short. Routes: four
  nodes and ten links with parallels, loops and two kinds, two tables of costs
  where the way with fewest hops is not the cheapest, five questions. Runtime:
  two sessions that share agents and devices, with components of the same id.

`CHECK_DEADLOCK FALSE` stands in the configurations whose systems end: a run
has delivered its last event (`detection`, `quantum_memory`, `photonic_link`,
`bb84_session`, `protocols`) or the bound of operations is reached (`qstate`).
That they end properly is a liveness property of the same run. The engine and
the ledgers can always be called, and are checked for deadlock.

Fairness is always that of the engine, stated once and used above: `Timeline`
assumes weak fairness of the run methods' own steps (`RunStep`), which are
straight-line Python, and of handlers returning; callers need not call. From
it, by `CallsReturn` and `ImplementsSchedule`, a call of `run_until_empty`
delivers whatever is pending. So the models above the engine assume that events
on the timeline are delivered and that the clock moves on: `QuantumMemory` and
`MemoryClient` (`ClientTick`, `ClientOwnEvent`, `ServeRequest`, `ReadReport`),
`BellAnalyzer` (`Tick`, `Timeout`), `PhotonicLink` (its next-state relation),
`BB84Session` (`TimelineStep`), `PostprocessingSession`, and the subjects of
`MCProtocols` (`Drained`). Nobody has to ask for anything, to send a signal or
to lose a message. The ledgers have no liveness: they act when called.

Results worth knowing beyond "holds":

- A delayed completion is never stale (`EventsMatchPositions`), so the branch
  that skips stale completions (`_skip_stale_completion`) is defensive; expiries
  do become stale, and their token check is needed.
- The two `RuntimeError`s of `_close_reservation` cannot be reached, and the
  repeated conflict check in `_replace` never refuses.
- `BusyEnds` and `WaitingEnds` exempt runs in which an exception has left the
  timeline: after one, a position whose completion was in the same batch stays
  busy for ever, and an input of the Bell analyzer whose timeout was in it stays
  in its buffer.
- Where nothing expires and no other signal arrives, an agent that goes by its
  reports is never refused by its memory (`ReportsSuffice`).
- Message loss makes handlers of `examples/bb84` raise; those of the other two
  key sessions never do.

## 4. What is proved

Every theorem holds for all values of the constants that satisfy the named
assumptions of the modules, which TLC evaluates on every run. Invariants are
proved by an inductive strengthening, one lemma per action or per kind of
change; the strengthenings were checked with TLC first.

`TimelineProofs`, for any number of events, any times and any priorities:
`TypeOK`, `EventsAccounted`, `NothingStale`, `CancelHonoured`, `DispatchOrder`,
`RunUntilExact`, `OneFutureTimerPerId` and `ImplementsSchedule`. The inductive
invariant adds `BatchClosed`: while a batch is open, all of it is older than
`horizon`, and the live events of its tick that are still in the heap are newer.
Without it a step of the dispatch loop could not know that what handlers have
scheduled meanwhile does not belong before the rest of the batch.
`BeforeIsKeyBefore` connects the queue's order with the lexicographic order that
the documentation gives. For timers the strengthening is `TimersNamed`: a future
timer that its id no longer names was set by a plain `at`, and shadowed by a
later one. The refinement maps every action to a step of `EventSchedule` or a
stutter; that a batch is never empty needs the least time in the heap, which
exists by the well-foundedness of the natural numbers.

`ResourceProofs`, for any slots, devices, nodes, owners and number of
reservations: `TypeOK`, `LedgerConsistent`, from it that two open
reservations share no slot (`SpecExclusive`), `PhysicalStateKept` and the
refinement of `SlotLease`. `TypeOK` and `LedgerConsistent` are inductive
together: `HoldersExact` alone is not kept by `mark_free` and
`_close_reservation`, whose outcome depends on the slot's own state.
`LedgersOnePairPerSlot` and `LedgersImplementLeases` are about both ledgers
together, as the run has them.

The same module, for the registry and any pairs and slots: `TypeOK`, `OnePairPerSlot`, `FateIsFinal`
and the refinement of `SlotLease`. A record is only entered after the
comparison with all others; lifecycle calls are cases of one lemma. The
refinement needs `HolderNames`, which says whose lease a slot is, and that
`None` is not the id of a pair.

`DetectionProofs`, for any number of signals, any keys, windows and settings:
`TypeOK`, `EachSignalOnce`, `NoMissedPair`, `LongestWaitFirst`. `NoMissedPair`
speaks of signals that were given up, which the code no longer looks at; it is
inductive with `TimesAgree`, which says when timeouts come and that whatever was
given up is more than a window in the past.
Further `ReportsTrue` of `Readout`, for any devices, detectors, maps and
patterns. It is inductive with `ReadInv`, by which the qubits of the signals to
come are all in the store, and needs what `ReadoutAssumption` says of the maps: a
basis gives its labels different detectors, or a click of the lit detector could
be read as another outcome, and no two patterns with the same detectors differ in
their outcome. That a report may be made at all rests on `EarliestIsClick`: of
some clicks there is an earliest one, by the well-foundedness of the natural
numbers.

`MemoryProofs`, for any positions, delays and lifetimes, and for the memory
alone as well as with an agent: `EventsMatchPositions`, `LabelsMatch`,
`TagsMatch`, `ExpiresOnTime`, `ReportsSuffice`. A step of the memory is seen as
three changes that fit together: of records, of events in flight, and of labels
and reports. `TokensReached` is needed beside them: no event carries a token that
its position has not reached, or a later occupant could be taken for an earlier
one.
`ReportsSuffice` takes three invariants more. `NotesInv`: the last report about
a position that the agent has still to read tells of its occupant, and without
one the agent knows of it already. `BeliefsHold`, of an agent that is alone with
a memory that forgets nothing: a position that it thinks free is free when the
reports before that one are read, or an absorption is all that comes between
(`FreeAt`); one that it knows is full, and only reports of entries are under way
(`Full`); one that it has asked for is in an operation, or the report of its end
comes first and leaves it free or full (`Engaged`). `OneAbsorption`: there is
never more than one, asked for, in progress or reported, and while there is one
somebody waits; so a request for any position finds one. From these follows
`OperationsPossible`: nothing comes between the question for an operation and its
start. That a memory chooses the first free position at all needs that positions
are numbers, which `MemoryAssumption` says (`quantum_memory.py:329`).

`LinkProofs`, for any gates, delays, detectors and times: `EmissionsOnSchedule`,
by an invariant of the one pending event of the source (`SourceInv`);
`QubitsFollowSignals`, by one of the names that are still fresh (`SignalsInv`);
`DeadTimeKept`, by two: a detector is dead at least until the dead time of each
of its clicks is over, reports that are still to come included (`ClicksInv`),
and all clicks are apart (`ClicksApart`). `OwnershipSafe`: whatever
implements the abstract store `SubsystemOwnership` has one owner for each name;
`SpecKeepsOwnership`: the link does implement it.

`ProtocolProofs`, for any pairs, settings, bits, samples and number of lost
messages: `KeptNeverRevealed` and `KeysAgree` of the E91 session. Both agents
follow one exchange, so that at any time at most one message or event has the
turn (`OneTurn`), and what it is tells how the notes of the two agents compare
(`Holds`): while the answer to the estimate is on its way only B has dropped the
sample, from then on both keep the same pairs, and once a positive verification
is under way the keys are equal or their hashes collided. The key pairs are
ascending and hence distinct, and what remains of them is disjoint from the sample
because every bit left has a position that was not dropped (`RemoveFacts`).
Further, for any sessions, agents and devices on one timeline, `AgentsStartBound`
of `SessionRuntime`. It needs to know that a session whose starts are scheduled is
bound (`BoundInv`), where each of its starts is (handled, in the batch, in the
queue or lost with a batch, `NoneForgotten`), and that those are in order
(`OrderInv`).

The same module, for a round of distillation and any number of lost halves:
`DistillationSound`, the part of `RoundsAreSound` about it. The invariant
`RoundInv` holds until an exception ends the run. It follows each end's one job
(`OneJob`): how far the agent has come decides what is asked of the memory, in
progress there, or to be reported. `PlacesKnown` says that each half lies where
the agent has filed it, or will once it has read its reports, until its job has taken
it; `Told`, that messages say what the peer has; `Together`, that the halves of
pair 1 are in one state while both are there. An expiry makes all of this false
at its end only when the report of it is read, and the agent raises at that, which is why reports
behind it are left out (`Trusted`).

And for the preparation of a pair, on the networks and with the requests of
`MCProtocols` and any losses: `PreparationHolds`, the part of `RoundsAreSound`
about it. The invariant `PrepInv` goes by phases. While the pair is on its way the
queue tells where each half is: a half that is there and not stored has an
absorption due, one that is stored and not reported a report (`Underway`); whether the
deadline has been handled (`Closed`) and both reports are in decides what the
record, the shares and the hold of the slots say (`Noted`). What was chosen arrives in
time (`InTime`), which the selection promises in sums over a route's spans
(`OneSpan`) and the latest of the two halves (`Latest`); so nothing is left in the queue once the
deadline has been handled, and a ready pair has both its halves. For the use
of the pair the invariant keeps its Pauli frame, and that the corrections undo
what the Bell measurement found is a fact about two bits (`BitsCancel`). What a
refusal leaves is part of the property, so nothing more is said once one has
stopped the notebook (`PrepSound`).

`KeyProofs` holds what the sessions' proofs share: what ordering a finite set of
positions gives, and what removing some of them leaves (`InOrderFacts`,
`RemoveFacts`).

`SessionProofs`, for any number of slots or raw bits, any samples, shuffles,
frames of reports and losses: `PositionsMatch`, `FinalKeysAgree` and
`DisclosuresSubtracted`, each of both sessions. None is inductive: that the
slots of the agents are the same says nothing of a message that is about to
change those of one. In each session at most one event is due or a message or
two are on their way, and the invariant says for each kind what is then so of the agents
(`PostEventHolds`, `AtSender`, `AtReceiver`; `EventHolds`, `AtAlice`, `AtBob`).
BB84 has three exceptions, which the invariant names: Bob's start, which may come
at any time and does nothing; the acceptance of the sifting with the sample or
an abort right behind it; and the result of the estimate, which may still be on its
way when Bob has begun Cascade, asked for a parity, or sent the tag, so that
what Bob sends must not depend on whether Alice has cut her key already. For the
disclosures it counts the one answer that Alice has given and Bob not yet
received. Of late detector reports it needs that they never replace one
(`DetectionsDiffer`), or sifted slots would lose their bases. Nothing is assumed
of the shuffles; of the samples that they are sequences of numbers, and of the
phase-error estimate that it is not negative.

## 5. Where the code and its documentation differ

Four runs end in a counterexample.

- `timer_cancel`. `docs/source/control/index.rst:131-133` promises cancellation
  by timer id across hooks. `_get_active` (`control/timers.py:71`) takes a timer
  due at the current tick for fired. A hook that runs earlier in that tick and
  calls `cancel(id)` changes nothing, and `on_timer` follows.
- `memory_expiry`. `docs/source/components/memories/quantum_memory.rst:223-227`
  says which expiries are stale, and that a current one discards the qubit. One
  that arrives while a delayed operation keeps the position busy is dropped
  (`quantum_memory.py:1210`) and not scheduled again; the occupant stays
  beyond its `expires_at` for good. A test fixes the drop, nothing the rest.
- `memory_noise`. `quantum_memory.rst:305-306` says that no storage noise is
  accrued during the latency of an operation. The completion does not
  advance `last_noise_update_time`, so the next operation applies it.
- `keep_axes`. `qstate/state/reduce.py:33` and `:181` say that the axes come out
  in the order of the request, and `:187` that a state is returned as it is when
  all axes are kept in their existing order. `keep_axes_density` looks only at
  whether an axis is dropped (`reduce.py:209`): all axes in another order come
  back in the old one, and the next operation acts on another qubit. The tests
  ask for a part of the axes (`test_reduce.py:59`).

Smaller differences and observations met on the way, without a run.

Engine and timers: the docstring of `timers.py:3-5` says there is no separate
timer registry; `events_executed` is documented as counting dispatched events
(`timeline.py:691-694`) and is incremented after a handler has returned;
`reschedule` into the past loses the original event, and `at` in the past with
`replace=True` the old timer.

States and detectors: `components/detectors/primitives/reports.py:96-97` says
that `success` means a usable outcome, but a dark click of a detector that the
chosen basis does not map (`readout.py:391`) is reported with `success=True` and
no outcome, and Bob's handler of `examples/bb84` raises on it; `ReportsTrue`
holds because no light is needed for such a click. `Measure.none(discard=True)` on some targets leaves the others of a consumed
signal in the store. An outcome that is not in a readout map raises after the
measurement.

Memories: measurement reports carry no `ready_at`; reports of operators exist
only with a connected notice port.

Sessions: all starts of a session are one batch, so that an `on_start` that
raises loses the starts of the agents behind it for good; of two sessions over
one network the agents keep the context that was made last; a device that is
bound for the first time after the registry is frozen raises on every attempt;
components of the same id share a random stream.

Ledgers: pair reservations have no owner; a pair may be swept by `expire_before`
while its swap is under way, and `consume` then raises after the qubits were
measured; when the second of two `reserve` calls is refused, the first pair
stays reserved.

Protocols: Alice of `examples/bb84` is not told when Bob aborts for a short key;
distillation's agents do not handle `MemoryExpireReport`; at a metre or less the
next half of the teleportation notebook arrives too early and the memory raises;
in the capstone a deadline at the tick of the arrival releases the reservation
first and the pair still becomes ready, a lost half leaves the ledger's slots
free while a memory holds the other half, Alice's device still says occupied
after the discarding cell, and the reservation is not released after success.

## 6. What is not modelled, and what is left to prove

Not modelled: the rest of the numerical content of quantum states (rotations by
an angle, eigenvalues, entropies, concurrence, tolerances), noise and click
probabilities, which would need real numbers; universal hashing and the
statistics of key lengths; tracing, metrics, value classes, and selections that
only filter records, which keep no state; trials, demos and notebooks that build
a network and plot what it did. `bb84_teaching_trace.ipynb` holds a copy of the
agents of `examples/bb84`, and `e91.ipynb` collects reports only. Random numbers
are choices everywhere; that a seed repeats a run is not stated.

Only model-checked. Liveness and all that rests on `ENABLED`, which the proof
system does not reach: `CallsReturn`, `BusyEnds`, `WaitingEnds`,
`EverySignalEnds`, `SessionsEnd`, `ProtocolsEnd`. What a recursion over data
computes, since induction is out of the provers' reach: `RepresentationsAgree`,
`FramesRestore`, `AxesMeanTheirQubits`, `RoutesFound`, and what Cascade's blocks
look like (`FirstPassesMatch`). `StorePromises` is a refinement whose mapping
reads states of sequences of axes.

Still to be proved: the parts of `RoundsAreSound` about teleportation and pairs
over a route. `RaisesUnderstood` would need that every position Cascade asks
about is one of the key; the blocks are built by recursive operators of the
library, so it stays with TLC.

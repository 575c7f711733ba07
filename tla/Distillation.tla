---------------------------- MODULE Distillation ----------------------------
(***************************************************************************)
(* One round of BBPSSW distillation (tutorials/protocols/distillation): a  *)
(* source sends the halves of two pairs to Alice and to Bob, whose agents  *)
(* wait until both are stored, apply a CNOT from the half of pair 1 to the *)
(* half of pair 2, measure the latter, exchange the outcomes and keep pair *)
(* 1 if these agree.  Channels may lose a half or, with jitter, let pair 2 *)
(* overtake pair 1; memories may work with delays and let qubits expire.   *)
(* Events of different queues come in any order, which the delays of       *)
(* channels and memories leave open.  An exception ends the run.           *)
(***************************************************************************)
EXTENDS Sequences, SequencesExt

CONSTANT MaxLost   \* bound: halves the channels lose

VARIABLES emitted,    \* pairs the source has sent
          flight,     \* end -> pairs whose half is in the channel
          memory,     \* end -> what its two positions hold, and which are busy
          delayed,    \* TRUE if operations of the memories take time
          expires,    \* TRUE if the memories have a storage lifetime
          requests,   \* end -> requests its agent has scheduled at its memory
          running,    \* end -> the operation in progress
          reports,    \* end -> reports on their way to its agent
          mail,       \* end -> messages on their way to its agent
          agent,      \* end -> the fields of its agent
          joint,      \* the quantum states: sets of halves <<end, pair>>
          lost, expired, raised

vars == <<emitted, flight, memory, delayed, expires, requests, running, reports,
          mail, agent, joint, lost, expired, raised>>

Ends    == {"alice", "bob"}
Peer(e) == IF e = "alice" THEN "bob" ELSE "alice"
Coordinator == "alice"
Positions   == 1..2
SourcePair  == 1
TargetPair  == 2

Nothing    == 0     \* no pair, no position
NoBit      == 2
NoOperation == [op |-> "none", positions |-> <<>>]

Agent == [source |-> Nothing, target |-> Nothing,
          peerReady |-> FALSE, peerSource |-> Nothing,
          readySent |-> FALSE, cnotRequested |-> FALSE, measureRequested |-> FALSE,
          bit |-> NoBit, peerBit |-> NoBit, keep |-> "open", finalLayout |-> {}]

Init ==
  /\ emitted = 0 /\ flight = [e \in Ends |-> {}]
  /\ memory = [e \in Ends |-> [at |-> [p \in Positions |-> Nothing], busy |-> {}]]
  /\ delayed \in BOOLEAN /\ expires \in BOOLEAN
  /\ requests = [e \in Ends |-> <<>>] /\ running = [e \in Ends |-> NoOperation]
  /\ reports = [e \in Ends |-> <<>>] /\ mail = [e \in Ends |-> <<>>]
  /\ agent = [e \in Ends |-> Agent] /\ joint = {}
  /\ lost = 0 /\ expired = FALSE /\ raised = FALSE
-----------------------------------------------------------------------------
(* Source, channels and quantum states *)

Without(halves) == {state \ halves : state \in joint} \ {{}}

Emit ==
  /\ emitted < 2
  /\ emitted' = emitted + 1
  /\ flight' = [e \in Ends |-> flight[e] \cup {emitted'}]
  /\ joint' = joint \cup {{<<e, emitted'>> : e \in Ends}}
  /\ UNCHANGED <<memory, delayed, expires, requests, running, reports, mail, agent,
                 lost, expired, raised>>

Lose(e) ==
  /\ lost < MaxLost
  /\ lost' = lost + 1
  /\ \E pair \in flight[e] : /\ flight' = [flight EXCEPT ![e] = @ \ {pair}]
                             /\ joint' = Without({<<e, pair>>})
  /\ UNCHANGED <<emitted, memory, delayed, expires, requests, running, reports, mail,
                 agent, expired, raised>>
-----------------------------------------------------------------------------
(* The memory of one end *)

Free(e)     == {p \in Positions : memory[e].at[p] = Nothing}
Occupied(e) == Positions \ (Free(e) \cup memory[e].busy)
Report(e, r) == reports' = [reports EXCEPT ![e] = Append(@, r)]

(* There is room for both halves, and none is absorbed in vain.            *)
Absorb(e) ==
  \E pair \in flight[e], p \in Free(e) :
    /\ \A q \in Free(e) : p <= q
    /\ flight' = [flight EXCEPT ![e] = @ \ {pair}]
    /\ memory' = [memory EXCEPT ![e].at[p] = pair]
    /\ Report(e, [kind |-> "absorb", position |-> p, pair |-> pair])
    /\ UNCHANGED <<emitted, delayed, expires, requests, running, mail, agent, joint,
                   lost, expired, raised>>

Half(e, p) == <<e, memory[e].at[p]>>
Merged(halves) == {state \in joint : state \cap halves = {}} \cup
                  {UNION {state \in joint : state \cap halves # {}}}

(* The operation takes effect, and its positions are idle again.           *)
Perform(e, job) ==
  LET halves  == {Half(e, p) : p \in ToSet(job.positions)}
      removed == IF job.op = "apply" THEN {} ELSE ToSet(job.positions)
  IN  /\ joint' = IF job.op = "apply" THEN Merged(halves) ELSE Without(halves)
      /\ memory' = [memory EXCEPT ![e] =
           [at |-> [p \in Positions |-> IF p \in removed THEN Nothing ELSE memory[e].at[p]],
            busy |-> @.busy \ ToSet(job.positions)]]
      /\ \E bit \in IF job.op = "measure" THEN 0..1 ELSE {NoBit} :
           Report(e, [kind |-> job.op, bit |-> bit])

(* A request for a position that is empty or busy raises; a discard is     *)
(* done at once.                                                           *)
HandleRequest(e) ==
  LET job == Head(requests[e])
      refused == ~(ToSet(job.positions) \subseteq Occupied(e))
  IN  /\ requests[e] # <<>>
      /\ requests' = [requests EXCEPT ![e] = Tail(@)]
      /\ raised' = refused
      /\ \/ refused /\ UNCHANGED <<memory, running, reports, joint>>
         \/ /\ ~refused /\ delayed /\ job.op # "discard"
            /\ running' = [running EXCEPT ![e] = job]
            /\ memory' = [memory EXCEPT ![e].busy = @ \cup ToSet(job.positions)]
            /\ UNCHANGED <<reports, joint>>
         \/ /\ ~refused /\ (~delayed \/ job.op = "discard")
            /\ Perform(e, job) /\ UNCHANGED running
      /\ UNCHANGED <<emitted, flight, delayed, expires, mail, agent, lost, expired>>

Complete(e) ==
  /\ running[e] # NoOperation
  /\ running' = [running EXCEPT ![e] = NoOperation]
  /\ Perform(e, running[e])
  /\ UNCHANGED <<emitted, flight, delayed, expires, requests, mail, agent, lost, expired, raised>>

(* An expiry that finds its position busy is dropped: the qubit stays.     *)
Expire(e) ==
  /\ expires
  /\ \E p \in Occupied(e) :
       /\ memory' = [memory EXCEPT ![e].at[p] = Nothing]
       /\ joint' = Without({Half(e, p)})
       /\ Report(e, [kind |-> "expire", position |-> p])
  /\ expired' = TRUE
  /\ UNCHANGED <<emitted, flight, delayed, expires, requests, running, mail, agent, lost, raised>>
-----------------------------------------------------------------------------
(* The agent of one end.  A handler gives what the agent has become, the   *)
(* messages it sends and the requests it makes of its memory.              *)

Outcome(a, sent, asked) == [agent |-> a, sent |-> sent, asked |-> asked, raised |-> FALSE]
Raise(a) == [agent |-> a, sent |-> <<>>, asked |-> <<>>, raised |-> TRUE]

LocallyReady(a) == a.source # Nothing /\ a.target # Nothing

(* The CNOT is asked for once, when both ends hold both halves.            *)
StartsCnot(a) == LocallyReady(a) /\ a.peerReady /\ ~a.cnotRequested

TryStartCnot(a, sent) ==
  IF StartsCnot(a)
  THEN Outcome([a EXCEPT !.cnotRequested = TRUE], sent,
               <<[op |-> "apply", positions |-> <<a.source, a.target>>]>>)
  ELSE Outcome(a, sent, <<>>)

(* A mistake: the first half to arrive is taken for that of pair 1.        *)
StoredByArrival(a, r) ==
  IF a.source = Nothing THEN [a EXCEPT !.source = r.position]
                        ELSE [a EXCEPT !.target = r.position]

(* The position is filed by the pair that the signal's identifier names.   *)
Stored(a, r) ==
  IF r.pair = SourcePair THEN [a EXCEPT !.source = r.position]
                         ELSE [a EXCEPT !.target = r.position]

OnAbsorbReport(e, r) ==
  LET a == Stored(agent[e], r)
  IN  IF LocallyReady(a) /\ ~a.readySent
      THEN TryStartCnot([a EXCEPT !.readySent = TRUE],
                        <<[type |-> "ready", source |-> a.source]>>)
      ELSE TryStartCnot(a, <<>>)

Measurement(a) == [op |-> "measure", positions |-> <<a.target>>]

(* A mistake: the measurement does not wait for the report of the CNOT.    *)
OnReadyHasty(e, m) ==
  LET a == [agent[e] EXCEPT !.peerReady = TRUE, !.peerSource = m.source]
      o == TryStartCnot(a, <<>>)
  IN  IF StartsCnot(a) THEN [o EXCEPT !.agent.measureRequested = TRUE,
                                      !.asked = Append(@, Measurement(a))]
      ELSE o

OnReady(e, m) ==
  TryStartCnot([agent[e] EXCEPT !.peerReady = TRUE, !.peerSource = m.source], <<>>)

OnOperatorReport(e) ==
  Outcome([agent[e] EXCEPT !.measureRequested = TRUE], <<>>,
          IF agent[e].measureRequested THEN <<>> ELSE <<Measurement(agent[e])>>)

StateOf(half) == {state \in joint : half \in state}

(* The coordinator reads the state of what it and its peer keep, by the    *)
(* names of the two positions, and raises unless both are in one state.    *)
RecordFinalFidelity(e, a, sent) ==
  LET mine   == Half(e, a.source)
      theirs == Half(Peer(e), a.peerSource)
  IN  IF a.peerSource # Nothing /\ StateOf(mine) # {} /\ StateOf(mine) = StateOf(theirs)
      THEN Outcome([a EXCEPT !.finalLayout = UNION StateOf(mine)], sent, <<>>)
      ELSE Raise(a)

TryDecide(e, a, sent) ==
  IF a.keep # "open" \/ NoBit \in {a.bit, a.peerBit} THEN Outcome(a, sent, <<>>)
  ELSE IF a.bit # a.peerBit
  THEN Outcome([a EXCEPT !.keep = "reject"], sent,
               <<[op |-> "discard", positions |-> <<a.source>>]>>)
  ELSE IF e = Coordinator THEN RecordFinalFidelity(e, [a EXCEPT !.keep = "keep"], sent)
  ELSE Outcome([a EXCEPT !.keep = "keep"], sent, <<>>)

TargetResult(r) == <<[type |-> "target_result", bit |-> r.bit]>>

(* A mistake: only the peer's result leads to the decision.                *)
OnMeasurementReportOnly(e, r) == Outcome([agent[e] EXCEPT !.bit = r.bit], TargetResult(r), <<>>)

OnMeasurementReport(e, r) == TryDecide(e, [agent[e] EXCEPT !.bit = r.bit], TargetResult(r))

OnTargetResult(e, m) == TryDecide(e, [agent[e] EXCEPT !.peerBit = m.bit], <<>>)

(* The agent has no case for the report of an expiry, and raises.          *)
OnReport(e, r) ==
  CASE r.kind = "absorb"  -> OnAbsorbReport(e, r)
    [] r.kind = "apply"   -> OnOperatorReport(e)
    [] r.kind = "measure" -> OnMeasurementReport(e, r)
    [] r.kind = "discard" -> Outcome(agent[e], <<>>, <<>>)
    [] r.kind = "expire"  -> Raise(agent[e])

OnMessage(e, m) ==
  CASE m.type = "ready"         -> OnReady(e, m)
    [] m.type = "target_result" -> OnTargetResult(e, m)

Act(e, outcome) ==
  /\ agent' = [agent EXCEPT ![e] = outcome.agent]
  /\ requests' = [requests EXCEPT ![e] = @ \o outcome.asked]
  /\ raised' = outcome.raised
  /\ UNCHANGED <<emitted, flight, memory, delayed, expires, running, joint, lost, expired>>

DeliverReport(e) ==
  /\ reports[e] # <<>>
  /\ LET outcome == OnReport(e, Head(reports[e]))
     IN  Act(e, outcome) /\ mail' = [mail EXCEPT ![Peer(e)] = @ \o outcome.sent]
  /\ reports' = [reports EXCEPT ![e] = Tail(@)]

DeliverMessage(e) ==
  /\ mail[e] # <<>>
  /\ LET outcome == OnMessage(e, Head(mail[e]))
     IN  Act(e, outcome) /\ mail' = [mail EXCEPT ![e] = Tail(@), ![Peer(e)] = @ \o outcome.sent]
  /\ UNCHANGED reports
-----------------------------------------------------------------------------
Next ==
  /\ ~raised
  /\ \/ Emit
     \/ \E e \in Ends : \/ Lose(e) \/ Absorb(e) \/ HandleRequest(e) \/ Complete(e)
                        \/ Expire(e) \/ DeliverReport(e) \/ DeliverMessage(e)

(* run_until_empty runs the timeline until no event is left.               *)
Spec == Init /\ [][Next]_vars /\ WF_vars(Next)
-----------------------------------------------------------------------------
(* The state whose fidelity is recorded as that of the kept pair is that   *)
(* of the two halves of pair 1, whatever the order in which halves, ready  *)
(* messages and results came in (_record_final_fidelity).                  *)
KeptIsTheSourcePair ==
  agent[Coordinator].finalLayout \in {{}, {<<e, SourcePair>> : e \in Ends}}

(* No handler and no memory raises, except after a qubit has expired: the  *)
(* agents never ask for a position that is empty or busy, and never decide *)
(* before they know what they need (_handle_request errors of the memory,  *)
(* the RuntimeErrors of the agents).                                       *)
RaisesOnlyAfterExpiry == raised => expired

Quiet == /\ emitted = 2
         /\ \A e \in Ends : /\ flight[e] = {} /\ requests[e] = <<>> /\ reports[e] = <<>>
                            /\ mail[e] = <<>> /\ running[e] = NoOperation

(* A round that loses no qubit is decided alike at both ends, and leaves   *)
(* the memories with both halves of pair 1 or with nothing (_try_decide).  *)
RoundSettled ==
  \/ lost > 0 \/ expired
  \/ /\ Quiet /\ agent["alice"].keep = agent["bob"].keep
     /\ \/ agent["alice"].keep = "keep"   /\ joint = {{<<e, SourcePair>> : e \in Ends}}
        \/ agent["alice"].keep = "reject" /\ joint = {}
=============================================================================

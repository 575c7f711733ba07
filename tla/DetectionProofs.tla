-------------------------- MODULE DetectionProofs --------------------------
(***************************************************************************)
(* Proofs about modules BellAnalyzer, for any number of inputs, any keys,  *)
(* windows and settings, and Readout, for any devices, maps and patterns.  *)
(* That no pair is missed is inductive once it is known when timeouts      *)
(* come: an input that was given up is out of reach of every later         *)
(* arrival, so that only the buffers need to be searched.                  *)
(***************************************************************************)
EXTENDS BellAnalyzer, Readout, WellFoundedInduction, TLAPS

(* A timeout comes one tick after the window of its input, and an input    *)
(* that was given up is further in the past than the window.               *)
TimesAgree ==
  /\ \A s \in Arrived : input[s].time <= now
  /\ \A t \in timeouts : /\ t.signal \in Arrived
                         /\ t.time = input[t.signal].time + config.window + 1
  /\ \A s \in TimedOut : input[s].time + config.window < now

IInv == TypeOK /\ EachSignalOnce /\ NoMissedPair /\ TimesAgree

-----------------------------------------------------------------------------

LEMMA InitIInv == Init => IInv
<1>. SUFFICES ASSUME Init PROVE IInv
  OBVIOUS
<1>1. Arrived = {} /\ Reported = {} /\ TimedOut = {}
  BY DEF Init, Arrived, Reported, TimedOut
<1>2. TypeOK
  BY DEF Init, TypeOK
<1>. QED
  BY <1>1, <1>2 DEF Init, IInv, EachSignalOnce, NoMissedPair, TimesAgree

LEMMA KeysMatchSymmetric == ASSUME NEW k, NEW l PROVE KeysMatch(k, l) <=> KeysMatch(l, k)
  BY DEF KeysMatch

(* What is known of inputs and settings in every state. *)
LEMMA Known ==
  ASSUME IInv
  PROVE  /\ config.window \in Nat /\ now \in Nat
         /\ \A s \in Arrived : s \in Input /\ input[s] \in Arrivals
         /\ \A s \in Arrived : input[s].time \in Nat
         /\ waiting \subseteq Arrived /\ Reported \subseteq Arrived /\ lost \subseteq Arrived
         /\ TimedOut \subseteq Reported /\ Nothing \notin Arrived
         /\ \A r \in reports : {r.left, r.right} \subseteq Reported \cup {Nothing}
<1>1. config.window \in Nat /\ now \in Nat
  BY BellAssumption DEF IInv, TypeOK
<1>2. \A s \in Arrived : s \in Input /\ input[s] \in Arrivals
  BY DEF IInv, TypeOK, Arrived
<1>3. \A s \in Arrived : input[s].time \in Nat
  BY <1>2, BellAssumption DEF Arrivals
<1>4. waiting \subseteq Arrived /\ Reported \subseteq Arrived /\ lost \subseteq Arrived
  BY DEF IInv, EachSignalOnce
<1>5. Nothing \notin Arrived
  BY NothingAssumption DEF Arrived
<1>6. \A r \in reports : {r.left, r.right} \subseteq Reported \cup {Nothing}
  BY DEF Reported
<1>7. TimedOut \subseteq Reported
  BY <1>6, NothingAssumption DEF TimedOut
<1>. QED
  BY <1>1, <1>2, <1>3, <1>4, <1>5, <1>6, <1>7

(* Reports never change; one that is added concerns its own signals.       *)
LEMMA ReportAdded ==
  ASSUME NEW x, reports' = reports \cup {x}
  PROVE  /\ Reported' = Reported \cup ({x.left, x.right} \ {Nothing})
         /\ Paired(x) => TimedOut' = TimedOut
         /\ ~Paired(x) => TimedOut' = TimedOut \cup ({x.left, x.right} \cap Input)
<1>1. Reported' = Reported \cup ({x.left, x.right} \ {Nothing})
  BY DEF Reported
<1>2. Paired(x)' <=> Paired(x)
  BY DEF Paired
<1>3. \A r \in reports : Paired(r)' <=> Paired(r)
  BY DEF Paired
<1>. QED
  BY <1>1, <1>2, <1>3 DEF TimedOut, Paired

(* A signal that arrives was not known before, and changes no other.       *)
LEMMA RecordedInput ==
  ASSUME IInv, NEW s \in Input, NEW side \in Sides, NEW key \in Keys \cup {NoKey},
         Recorded(s, side, key)
  PROVE  /\ s \notin Arrived /\ Arrived' = Arrived \cup {s}
         /\ s \notin waiting \cup Reported \cup lost
         /\ \A d \in Arrived : input'[d] = input[d]
         /\ input'[s] = [side |-> side, time |-> now, key |-> key]
         /\ input' \in [Input -> Arrivals \cup {Nothing}]
         /\ \A a, b \in Arrived : Partners(a, b)' <=> Partners(a, b)
         /\ Reports \subseteq Reports'
         /\ s \in Side(side)' /\ \A d \in Arrived : d \in Side(input[d].side)'
         /\ now' = now /\ config' = config
<1>. DEFINE rec == [side |-> side, time |-> now, key |-> key]
<1>1. now \in 0..LastArrival /\ now' = now /\ config' = config
  BY BellAssumption DEF Recorded, IInv, TypeOK
<1>2. rec \in Arrivals /\ rec # Nothing
  BY <1>1, NothingAssumption DEF Arrivals
<1>3. input' = [input EXCEPT ![s] = rec] /\ input[s] = Nothing
  BY DEF Recorded
<1>4. input' \in [Input -> Arrivals \cup {Nothing}] /\ input'[s] = rec
  BY <1>2, <1>3 DEF IInv, TypeOK
<1>5. s \notin Arrived
  BY <1>3 DEF Arrived
<1>6. \A d \in Input \ {s} : input'[d] = input[d]
  BY <1>3 DEF IInv, TypeOK
<1>7. Arrived' = Arrived \cup {s} /\ \A d \in Arrived : input'[d] = input[d]
  BY <1>2, <1>4, <1>5, <1>6 DEF Arrived
<1>8. s \notin waiting \cup Reported \cup lost
  BY <1>5, Known
<1>9. \A a, b \in Arrived : Partners(a, b)' <=> Partners(a, b)
  BY <1>1, <1>7 DEF Partners, KeysMatch
<1>10. \A d \in Arrived : d \in Side(input[d].side)'
  BY <1>7 DEF Side
<1>11. s \in Side(side)'
  BY <1>4, <1>7 DEF Side
<1>12. Reports \subseteq Reports'
  <2>1. Side("left") \subseteq Side("left")' /\ Side("right") \subseteq Side("right")'
    BY <1>7 DEF Side
  <2>. QED
    BY <2>1 DEF Reports
<1>. QED
  BY <1>1, <1>4, <1>5, <1>7, <1>8, <1>9, <1>10, <1>11, <1>12

(* Every candidate could be analysed with the signal that has arrived.     *)
LEMMA CandidatesArePartners ==
  ASSUME IInv, NEW s \in Input, NEW side \in Sides, NEW key \in Keys \cup {NoKey},
         Recorded(s, side, key), NEW c \in waiting
  PROVE  /\ c \in Candidates(side, key) <=> Partners(s, c)'
         /\ c \in Candidates(side, key) <=> Partners(c, s)'
<1>. DEFINE k == input[c].key
<1>1. /\ input'[s] = [side |-> side, time |-> now, key |-> key]
      /\ input'[c] = input[c] /\ c \in Arrived
      /\ now' = now /\ config' = config
  BY RecordedInput, Known
<1>2. /\ input[c].time \in Nat /\ now \in Nat /\ config.window \in Nat
      /\ input[c].time <= now
  BY <1>1, Known DEF IInv, TimesAgree
<1>3. KeysMatch(key, k)' <=> KeysMatch(key, k)
  BY <1>1 DEF KeysMatch
<1>4. KeysMatch(k, key)' <=> KeysMatch(key, k)
  BY <1>1 DEF KeysMatch
<1>5. input[c].time - now <= config.window
  BY <1>2
<1>. QED
  BY <1>1, <1>3, <1>4, <1>5 DEF Candidates, Partners, KeysMatch

-----------------------------------------------------------------------------
(* Arrivals *)

LEMMA ArriveAloneIInv ==
  ASSUME IInv, NEW s \in Input, NEW side \in Sides, NEW key \in Keys \cup {NoKey},
         ArriveAlone(s, side, key)
  PROVE  IInv'
<1>1. Recorded(s, side, key) /\ Candidates(side, key) = {}
  BY DEF ArriveAlone
<1>2. /\ waiting' = waiting \cup {s} /\ timeouts' = timeouts \cup {TimeoutOf(s)}
      /\ owned' = owned \cup {s} /\ UNCHANGED <<reports, lost, aborted>>
  BY DEF ArriveAlone
<1>f. /\ s \notin Arrived /\ Arrived' = Arrived \cup {s}
      /\ s \notin waiting \cup Reported \cup lost
      /\ \A d \in Arrived : input'[d] = input[d]
      /\ input'[s] = [side |-> side, time |-> now, key |-> key]
      /\ now' = now /\ config' = config
  BY <1>1, RecordedInput
<1>k. /\ config.window \in Nat /\ now \in Nat /\ s # Nothing
      /\ \A d \in Arrived : input[d].time \in Nat
      /\ waiting \subseteq Arrived /\ Reported \subseteq Arrived
      /\ TimedOut \subseteq Arrived
      /\ \A r \in reports : {r.left, r.right} \subseteq Reported \cup {Nothing}
  BY Known, NothingAssumption
<1>3. Reported' = Reported /\ TimedOut' = TimedOut /\ \A r : Paired(r)' <=> Paired(r)
  BY <1>2 DEF Reported, TimedOut, Paired
<1>4. TypeOK'
  <2>1. TimeoutOf(s) \in [signal : Input, time : Nat]
    BY Known DEF TimeoutOf
  <2>. QED
    BY <1>1, <1>2, <2>1, RecordedInput DEF IInv, TypeOK
<1>5. EachSignalOnce'
  BY <1>1, <1>2, <1>3, RecordedInput DEF IInv, EachSignalOnce
<1>6. \A b \in waiting \cup TimedOut : ~Partners(s, b)' /\ ~Partners(b, s)'
  <2>. SUFFICES ASSUME NEW b \in waiting \cup TimedOut
                PROVE  ~Partners(s, b)' /\ ~Partners(b, s)'
    OBVIOUS
  <2>1. CASE b \in waiting
    BY <1>1, <2>1, CandidatesArePartners
  <2>2. CASE b \in TimedOut
    <3>1. /\ b \in Arrived /\ input'[b] = input[b] /\ config' = config
          /\ input'[s].time = now
      BY <1>f, <1>k, <2>2
    <3>2. ~(now - input[b].time <= config.window)
      BY <1>k, <2>2, <3>1 DEF IInv, TimesAgree
    <3>. QED
      BY <1>k, <3>1, <3>2 DEF Partners
  <2>. QED
    BY <2>1, <2>2
<1>7. NoMissedPair'
  <2>1. ~Partners(s, s)'
    BY DEF Partners
  <2>2. \A a, b \in waiting \cup TimedOut : ~Partners(a, b)'
    BY <1>1, Known, RecordedInput DEF IInv, NoMissedPair
  <2>3. \A r \in reports : Paired(r) => Partners(r.left, r.right)'
    BY <1>1, Known, RecordedInput DEF IInv, NoMissedPair, Paired
  <2>. QED
    BY <1>2, <1>3, <1>6, <2>1, <2>2, <2>3 DEF NoMissedPair
<1>8. TimesAgree'
  <2>1. /\ \A d \in Arrived' : input'[d].time <= now
        /\ \A d \in TimedOut : input'[d].time + config.window < now
    BY <1>f, <1>k DEF IInv, TimesAgree
  <2>2. \A t \in timeouts : /\ t.signal \in Arrived
                            /\ t.time = input'[t.signal].time + config.window + 1
    BY <1>f DEF IInv, TimesAgree
  <2>3. \A t \in timeouts' : /\ t.signal \in Arrived'
                             /\ t.time = input'[t.signal].time + config.window + 1
    BY <1>2, <1>f, <2>2 DEF TimeoutOf
  <2>. QED
    BY <1>3, <1>f, <2>1, <2>3 DEF TimesAgree
<1>. QED
  BY <1>4, <1>5, <1>7, <1>8 DEF IInv

LEMMA ArriveAndMatchIInv ==
  ASSUME IInv, NEW s \in Input, NEW side \in Sides, NEW key \in Keys \cup {NoKey},
         ArriveAndMatch(s, side, key)
  PROVE  IInv'
<1>1. PICK c \in waiting :
        /\ Chosen(c, Candidates(side, key))
        /\ Recorded(s, side, key)
        /\ waiting' = waiting \ {c}
        /\ reports' = reports \cup {PairReport(s, c, side)}
        /\ owned' = IF config.consumeMatched THEN owned \ {c} ELSE owned \cup {s}
        /\ UNCHANGED <<timeouts, lost, aborted>>
  BY DEF ArriveAndMatch
<1>. DEFINE x == PairReport(s, c, side)
<1>f. /\ s \notin Arrived /\ Arrived' = Arrived \cup {s}
      /\ s \notin waiting \cup Reported \cup lost
      /\ \A d \in Arrived : input'[d] = input[d]
      /\ input'[s] = [side |-> side, time |-> now, key |-> key]
      /\ now' = now /\ config' = config
  BY <1>1, RecordedInput
<1>k. /\ config.window \in Nat /\ now \in Nat /\ s # Nothing
      /\ \A d \in Arrived : input[d].time \in Nat
      /\ waiting \subseteq Arrived /\ Reported \subseteq Arrived
      /\ TimedOut \subseteq Arrived
      /\ \A r \in reports : {r.left, r.right} \subseteq Reported \cup {Nothing}
  BY Known, NothingAssumption
<1>2. c \in Arrived /\ c # s /\ s # Nothing /\ c # Nothing /\ c \in Candidates(side, key)
  BY <1>1, <1>f, <1>k, NothingAssumption DEF Chosen, Arrived
<1>3. Partners(s, c)' /\ Partners(c, s)'
  BY <1>1, <1>2, CandidatesArePartners
<1>4. /\ {x.left, x.right} = {s, c} /\ Paired(x) /\ Partners(x.left, x.right)'
      /\ x \in [left : {s, c}, right : {s, c}]
  BY <1>2, <1>3 DEF PairReport, Paired
<1>5. Reported' = Reported \cup {s, c} /\ TimedOut' = TimedOut
  BY <1>1, <1>2, <1>4, ReportAdded
<1>6. TypeOK'
  <2>1. input[c].side # side /\ input[c].side \in Sides
    <3>1. input[c] \in Arrivals
      BY <1>2, Known
    <3>. QED
      BY <1>2, <3>1 DEF Candidates, Arrivals
  <2>2. x \in Reports'
    <3>1. /\ s \in Arrived' /\ c \in Arrived'
          /\ input'[s].side = side /\ input'[c].side = input[c].side
      BY <1>2, <1>f
    <3>2. CASE side = "left"
      <4>1. s \in Side("left")' /\ c \in Side("right")'
        BY <2>1, <3>1, <3>2 DEF Side, Sides
      <4>. QED
        BY <3>2, <4>1 DEF PairReport, Reports
    <3>3. CASE side = "right"
      <4>1. s \in Side("right")' /\ c \in Side("left")'
        BY <2>1, <3>1, <3>3 DEF Side, Sides
      <4>. QED
        BY <3>3, <4>1 DEF PairReport, Reports
    <3>. QED
      BY <3>2, <3>3 DEF Sides
  <2>3. reports' \subseteq Reports'
    BY <1>1, <2>2, RecordedInput DEF IInv, TypeOK
  <2>4. waiting' \subseteq Input /\ owned' \subseteq Input
    BY <1>1 DEF IInv, TypeOK
  <2>. QED
    BY <1>1, <2>3, <2>4, RecordedInput DEF IInv, TypeOK
<1>7. EachSignalOnce'
  <2>1. \A r \in reports : {r.left, r.right} \cap {s, c} = {}
    BY <1>1, <1>2, Known, RecordedInput DEF IInv, EachSignalOnce
  <2>2. \A r, q \in reports' : r # q =>
          {r.left, r.right} \cap {q.left, q.right} \subseteq {Nothing}
    BY <1>1, <1>4, <2>1 DEF IInv, EachSignalOnce
  <2>. QED
    BY <1>1, <1>2, <1>5, <1>f, <2>2 DEF IInv, EachSignalOnce
<1>8. NoMissedPair'
  <2>1. \A a, b \in waiting' \cup TimedOut' : ~Partners(a, b)'
    BY <1>1, <1>5, Known, RecordedInput DEF IInv, NoMissedPair
  <2>2. \A r \in reports : Paired(r) => Partners(r.left, r.right)'
    BY <1>1, Known, RecordedInput DEF IInv, NoMissedPair, Paired
  <2>3. \A r \in reports' : Paired(r) => Partners(r.left, r.right)'
    BY <1>1, <1>4, <2>2
  <2>. QED
    BY <2>1, <2>3 DEF NoMissedPair, Paired
<1>9. TimesAgree'
  <2>1. /\ \A d \in Arrived' : input'[d].time <= now
        /\ \A d \in TimedOut : input'[d].time + config.window < now
    BY <1>f, <1>k DEF IInv, TimesAgree
  <2>2. \A t \in timeouts : /\ t.signal \in Arrived
                            /\ t.time = input'[t.signal].time + config.window + 1
    BY <1>f DEF IInv, TimesAgree
  <2>. QED
    BY <1>1, <1>5, <1>f, <2>1, <2>2 DEF TimesAgree
<1>. QED
  BY <1>6, <1>7, <1>8, <1>9 DEF IInv

LEMMA ArriveAndFailIInv ==
  ASSUME IInv, NEW s \in Input, NEW side \in Sides, NEW key \in Keys \cup {NoKey},
         ArriveAndFail(s, side, key)
  PROVE  IInv'
<1>1. PICK c \in waiting :
        /\ Recorded(s, side, key)
        /\ waiting' = waiting \ {c}
        /\ lost' = lost \cup {s, c}
        /\ owned' = owned \cup {s}
        /\ Aborting(timeouts)
        /\ UNCHANGED reports
  BY DEF ArriveAndFail
<1>f. /\ s \notin Arrived /\ Arrived' = Arrived \cup {s}
      /\ s \notin waiting \cup Reported \cup lost
      /\ \A d \in Arrived : input'[d] = input[d]
      /\ input'[s] = [side |-> side, time |-> now, key |-> key]
      /\ now' = now /\ config' = config
  BY <1>1, RecordedInput
<1>k. /\ config.window \in Nat /\ now \in Nat /\ s # Nothing
      /\ \A d \in Arrived : input[d].time \in Nat
      /\ waiting \subseteq Arrived /\ Reported \subseteq Arrived
      /\ TimedOut \subseteq Arrived
      /\ \A r \in reports : {r.left, r.right} \subseteq Reported \cup {Nothing}
  BY Known, NothingAssumption
<1>2. timeouts' \subseteq timeouts /\ aborted' = TRUE
  BY <1>1 DEF Aborting
<1>3. Reported' = Reported /\ TimedOut' = TimedOut /\ \A r : Paired(r)' <=> Paired(r)
  BY <1>1 DEF Reported, TimedOut, Paired
<1>4. TypeOK'
  BY <1>1, <1>2, RecordedInput DEF IInv, TypeOK
<1>5. EachSignalOnce'
  BY <1>1, <1>3, <1>f, <1>k DEF IInv, EachSignalOnce
<1>6. NoMissedPair'
  <2>1. \A a, b \in waiting' \cup TimedOut' : ~Partners(a, b)'
    BY <1>1, <1>3, Known, RecordedInput DEF IInv, NoMissedPair
  <2>2. \A r \in reports : Paired(r) => Partners(r.left, r.right)'
    BY <1>1, Known, RecordedInput DEF IInv, NoMissedPair, Paired
  <2>. QED
    BY <1>1, <1>3, <2>1, <2>2 DEF NoMissedPair
<1>7. TimesAgree'
  <2>1. /\ \A d \in Arrived' : input'[d].time <= now
        /\ \A d \in TimedOut : input'[d].time + config.window < now
    BY <1>f, <1>k DEF IInv, TimesAgree
  <2>2. \A t \in timeouts : /\ t.signal \in Arrived
                            /\ t.time = input'[t.signal].time + config.window + 1
    BY <1>f DEF IInv, TimesAgree
  <2>. QED
    BY <1>2, <1>3, <1>f, <2>1, <2>2 DEF TimesAgree
<1>. QED
  BY <1>4, <1>5, <1>6, <1>7 DEF IInv

-----------------------------------------------------------------------------
(* Timeouts and the clock *)

LEMMA TimeoutFiresIInv ==
  ASSUME IInv, NEW t \in timeouts, TimeoutFires(t)
  PROVE  IInv'
<1>. DEFINE s == t.signal
            x == TimeoutReport(s)
<1>1. /\ t.time = now /\ s \in waiting /\ waiting' = waiting \ {s}
      /\ timeouts' = timeouts \ {t} /\ reports' = reports \cup {x}
      /\ owned' = IF config.consumeUnmatched THEN owned \ {s} ELSE owned
      /\ UNCHANGED <<config, now, input, lost, aborted>>
  BY DEF TimeoutFires
<1>2. s \in Arrived /\ s \in Input /\ s # Nothing /\ input[s].side \in Sides
  BY <1>1, Known DEF Arrivals
<1>3. {x.left, x.right} = {s, Nothing} /\ ~Paired(x)
  BY <1>2 DEF TimeoutReport, Paired
<1>4. Reported' = Reported \cup {s} /\ TimedOut' = TimedOut \cup {s}
  BY <1>1, <1>2, <1>3, ReportAdded, NothingAssumption
<1>5. Arrived' = Arrived /\ Reports' = Reports
  BY <1>1 DEF Arrived, Reports, Side
<1>6. \A a, b : Partners(a, b)' <=> Partners(a, b)
  BY <1>1 DEF Partners, KeysMatch
<1>7. TypeOK'
  <2>1. x \in Reports
    BY <1>2 DEF TimeoutReport, Reports, Side, Sides
  <2>. QED
    BY <1>1, <1>5, <2>1 DEF IInv, TypeOK
<1>8. EachSignalOnce'
  <2>1. \A r \in reports : {r.left, r.right} \cap {s, Nothing} \subseteq {Nothing}
    BY <1>1, Known DEF IInv, EachSignalOnce
  <2>2. \A r, q \in reports' : r # q =>
          {r.left, r.right} \cap {q.left, q.right} \subseteq {Nothing}
    BY <1>1, <1>3, <2>1 DEF IInv, EachSignalOnce
  <2>. QED
    BY <1>1, <1>2, <1>4, <1>5, <2>2 DEF IInv, EachSignalOnce
<1>9. NoMissedPair'
  BY <1>1, <1>3, <1>4, <1>6 DEF IInv, NoMissedPair, Paired
<1>10. TimesAgree'
  <2>1. input[s].time + config.window < now
    BY <1>1, <1>2, Known DEF IInv, TimesAgree
  <2>. QED
    BY <1>1, <1>4, <1>5, <2>1 DEF IInv, TimesAgree
<1>. QED
  BY <1>7, <1>8, <1>9, <1>10 DEF IInv

LEMMA TimeoutFailsIInv ==
  ASSUME IInv, NEW t \in timeouts, TimeoutFails(t)
  PROVE  IInv'
<1>1. /\ t.signal \in waiting /\ waiting' = waiting \ {t.signal}
      /\ lost' = lost \cup {t.signal} /\ owned' = owned \ {t.signal}
      /\ timeouts' \subseteq timeouts /\ aborted' = TRUE
      /\ UNCHANGED <<config, now, input, reports>>
  BY DEF TimeoutFails, Aborting
<1>2. /\ Reported' = Reported /\ TimedOut' = TimedOut /\ Arrived' = Arrived
      /\ Reports' = Reports /\ \A r : Paired(r)' <=> Paired(r)
  BY <1>1 DEF Reported, TimedOut, Arrived, Reports, Side, Paired
<1>3. \A a, b : Partners(a, b)' <=> Partners(a, b)
  BY <1>1 DEF Partners, KeysMatch
<1>4. TypeOK'
  BY <1>1, <1>2 DEF IInv, TypeOK
<1>5. EachSignalOnce'
  BY <1>1, <1>2 DEF IInv, EachSignalOnce
<1>6. NoMissedPair'
  BY <1>1, <1>2, <1>3 DEF IInv, NoMissedPair
<1>7. TimesAgree'
  BY <1>1, <1>2 DEF IInv, TimesAgree
<1>. QED
  BY <1>4, <1>5, <1>6, <1>7 DEF IInv

(* The steps that move the clock or take timeouts away, and nothing else.  *)
LEMMA QuietIInv ==
  ASSUME IInv, timeouts' \subseteq timeouts, now' \in Nat, now' >= now,
         aborted' \in BOOLEAN, UNCHANGED <<config, input, waiting, reports, owned, lost>>
  PROVE  IInv'
<1>1. /\ Reported' = Reported /\ TimedOut' = TimedOut /\ Arrived' = Arrived
      /\ Reports' = Reports /\ \A r : Paired(r)' <=> Paired(r)
  BY DEF Reported, TimedOut, Arrived, Reports, Side, Paired
<1>2. \A a, b : Partners(a, b)' <=> Partners(a, b)
  BY DEF Partners, KeysMatch
<1>3. TypeOK'
  BY <1>1 DEF IInv, TypeOK
<1>4. EachSignalOnce' /\ NoMissedPair'
  BY <1>1, <1>2 DEF IInv, EachSignalOnce, NoMissedPair
<1>5. TimesAgree'
  <2>1. \A s \in Arrived : input[s].time <= now'
    BY Known DEF IInv, TimesAgree
  <2>2. \A s \in TimedOut : input[s].time + config.window < now'
    BY Known DEF IInv, TimesAgree
  <2>. QED
    BY <1>1, <2>1, <2>2 DEF IInv, TimesAgree
<1>. QED
  BY <1>3, <1>4, <1>5 DEF IInv

LEMMA NextIInv == IInv /\ [Next]_vars => IInv'
<1>. SUFFICES ASSUME IInv, [Next]_vars PROVE IInv'
  OBVIOUS
<1>1. CASE Tick
  BY <1>1, Known, QuietIInv DEF Tick, IInv, TypeOK
<1>2. ASSUME NEW s \in Input, NEW side \in Sides, NEW key \in Keys \cup {NoKey},
             \/ ArriveAlone(s, side, key)
             \/ ArriveAndMatch(s, side, key)
             \/ ArriveAndFail(s, side, key)
      PROVE  IInv'
  BY <1>2, ArriveAloneIInv, ArriveAndMatchIInv, ArriveAndFailIInv
<1>3. ASSUME NEW t \in timeouts, TimeoutStale(t)
      PROVE  IInv'
  <2>1. timeouts' \subseteq timeouts
    BY <1>3 DEF TimeoutStale
  <2>. QED
    BY <1>3, <2>1, Known, QuietIInv DEF TimeoutStale, IInv, TypeOK
<1>4. ASSUME NEW t \in timeouts, TimeoutFires(t)
      PROVE  IInv'
  BY <1>4, TimeoutFiresIInv
<1>5. ASSUME NEW t \in timeouts, TimeoutFails(t)
      PROVE  IInv'
  BY <1>5, TimeoutFailsIInv
<1>6. CASE OtherRaises
  <2>1. timeouts' \subseteq timeouts
    BY <1>6 DEF OtherRaises, Aborting
  <2>. QED
    BY <1>6, <2>1, Known, QuietIInv DEF OtherRaises, Aborting, IInv, TypeOK
<1>7. CASE UNCHANGED vars
  BY <1>7, Known, QuietIInv DEF vars, IInv, TypeOK
<1>. QED
  BY <1>1, <1>2, <1>3, <1>4, <1>5, <1>6, <1>7 DEF Next, Timeout

LEMMA SpecIInv == Spec => []IInv
BY InitIInv, NextIInv, PTL DEF Spec

-----------------------------------------------------------------------------

(* Buffers, timeouts and reports are always well formed; a report names a  *)
(* left input on its left and a right one on its right.                    *)
THEOREM SpecTypeOK == Spec => []TypeOK
<1>1. IInv => TypeOK
  BY DEF IInv
<1>. QED
  BY <1>1, SpecIInv, PTL

(* No signal is reported twice, or reported while it waits: the timeout of *)
(* a signal that was analysed is harmless.                                 *)
THEOREM SpecEachSignalOnce == Spec => []EachSignalOnce
<1>1. IInv => EachSignalOnce
  BY DEF IInv
<1>. QED
  BY <1>1, SpecIInv, PTL

(* The analyzer never gives up two signals that it could have analysed     *)
(* together, and analyses none that it should not have.                    *)
THEOREM SpecNoMissedPair == Spec => []NoMissedPair
<1>1. IInv => NoMissedPair
  BY DEF IInv
<1>. QED
  BY <1>1, SpecIInv, PTL

(* Of the signals that would do, the one that has waited longest is taken. *)
THEOREM SpecLongestWaitFirst == Spec => LongestWaitFirst
<1>. DEFINE Longest == \A r \in reports' \ reports, c \in waiting :
                         (Paired(r) /\ c \in {r.left, r.right}) =>
                           \A s \in {r.left, r.right} \ {c}, d \in waiting :
                             Partners(s, d)' => c <= d
<1>1. ASSUME IInv, [Next]_vars PROVE Longest
  <2>1. ASSUME NEW s \in Input, NEW side \in Sides, NEW key \in Keys \cup {NoKey},
               ArriveAndMatch(s, side, key)
        PROVE  Longest
    <3>1. PICK c \in waiting : /\ Chosen(c, Candidates(side, key))
                               /\ Recorded(s, side, key)
                               /\ reports' = reports \cup {PairReport(s, c, side)}
      BY <2>1 DEF ArriveAndMatch
    <3>2. s \notin waiting
      BY <1>1, <3>1, RecordedInput
    <3>3. \A d \in waiting : Partners(s, d)' => c <= d
      BY <1>1, <3>1, CandidatesArePartners DEF Chosen
    <3>4. LET x == PairReport(s, c, side) IN {x.left, x.right} = {s, c}
      BY DEF PairReport
    <3>. QED
      BY <3>1, <3>2, <3>3, <3>4
  <2>2. ASSUME NEW t \in timeouts, TimeoutFires(t)
        PROVE  Longest
    <3>1. /\ reports' = reports \cup {TimeoutReport(t.signal)}
          /\ ~Paired(TimeoutReport(t.signal))
      BY <2>2 DEF TimeoutFires, TimeoutReport, Paired
    <3>. QED
      BY <3>1
  <2>3. ASSUME reports' = reports PROVE Longest
    BY <2>3
  <2>. QED
    BY <1>1, <2>1, <2>2, <2>3
       DEF Next, vars, Tick, Timeout, TimeoutStale, TimeoutFails, OtherRaises,
           ArriveAlone, ArriveAndFail
<1>. QED
  BY <1>1, SpecIInv, PTL DEF Spec, LongestWaitFirst

-----------------------------------------------------------------------------
(* From a state to a report *)

LEMMA TogetherParts ==
  ASSUME NEW signal, NEW dark, NEW pulse, NEW times \in Together(signal, dark, pulse)
  PROVE  \E a \in signal, b \in dark, c \in pulse : times = a \cup b \cup c
BY DEF Together

(* The candidates of a window are ticks.                                   *)
LEMMA CandidatesAreTimes ==
  ASSUME NEW before, NEW start \in Int, NEW end \in Int, NEW present,
         NEW times \in ClickCandidates(before, start, end, present)
  PROVE  times \subseteq Int
<1>1. ASSUME NEW bases \in SUBSET Int, NEW p \in Perhaps(bases)
      PROVE  p \subseteq Int
  <2>1. CASE p = {}
    BY <2>1
  <2>2. CASE p # {}
    <3>1. PICK b \in bases, j \in 0..MaxClickJitter : p = {b + j}
      BY <1>1, <2>2 DEF Perhaps
    <3>2. b + j \in Int
      BY <1>1, DetectorAssumption
    <3>. QED
      BY <3>1, <3>2
  <2>. QED
    BY <2>1, <2>2
<1>. DEFINE signal == IF present THEN {start} ELSE {}
            pulse  == IF before.last # NoClick /\ before.last <= start
                      THEN start..(end - 1) ELSE {}
<1>2. times \in Together(Perhaps(signal), Perhaps({start}), Perhaps(pulse))
  BY Zenon DEF ClickCandidates
<1>3. signal \in SUBSET Int /\ {start} \in SUBSET Int /\ pulse \in SUBSET Int
  OBVIOUS
<1>. HIDE DEF signal, pulse
<1>4. PICK a \in Perhaps(signal), b \in Perhaps({start}), c \in Perhaps(pulse) :
        times = a \cup b \cup c
  BY <1>2, TogetherParts
<1>5. a \subseteq Int /\ b \subseteq Int /\ c \subseteq Int
  BY <1>1, <1>3
<1>. QED
  BY <1>4, <1>5

LEMMA WindowTicks ==
  ASSUME NEW before, NEW start \in Nat, NEW present,
         NEW after \in EvaluateWindow(before, start, Window, present, DeadTime, Resolving)
  PROVE  after.clicks \subseteq Nat
<1>. DEFINE end == start + Window
            chosen(c) == Accepted(before, InWindow(c, start, end), start, DeadTime, Resolving)
<1>0. end \in Int
  <2>1. Window \in Nat
    BY ReadoutAssumption, Zenon
  <2>. QED
    BY <2>1
<1>1. CASE after = Clicked(before, {}, start, DeadTime)
  BY <1>1 DEF Clicked
<1>2. CASE \E c \in ClickCandidates(before, start, end, present) :
             \E clicks \in chosen(c) : after = Clicked(before, clicks, start, DeadTime)
  <2>1. PICK c \in ClickCandidates(before, start, end, present) :
          \E clicks \in chosen(c) : after = Clicked(before, clicks, start, DeadTime)
    BY <1>2
  <2>2. PICK clicks \in chosen(c) : after = Clicked(before, clicks, start, DeadTime)
    BY <2>1
  <2>3. c \subseteq Int
    <3>. HIDE DEF end
    <3>. QED
      BY <1>0, CandidatesAreTimes
  <2>4. clicks \subseteq c /\ \A t \in clicks : start <= t
    BY <2>2 DEF Accepted, InWindow
  <2>5. after.clicks = clicks
    BY <2>2 DEF Clicked
  <2>. HIDE DEF chosen, end
  <2>. QED
    BY <2>3, <2>4, <2>5
<1>. QED
  BY <1>1, <1>2 DEF EvaluateWindow

LEMMA LeastTick ==
  ASSUME NEW ticks \in SUBSET Nat, ticks # {}
  PROVE  \E t \in ticks : \A u \in ticks : t <= u
<1>1. PICK t \in ticks : \A u \in ticks : <<u, t>> \notin OpToRel(<, Nat)
  BY WFMin, NatLessThanWellFounded, Zenon
<1>2. \A u \in ticks : ~(u < t)
  BY <1>1 DEF OpToRel
<1>. QED
  BY <1>2

(* Of some clicks there is an earliest one.                                *)
LEMMA EarliestIsClick ==
  ASSUME NEW seen, \A d \in Detectors : seen[d].clicks \subseteq Nat,
         NEW clicks, clicks = ClicksIn(seen), clicks # {}
  PROVE  Earliest(clicks) \in clicks
<1>0. Detectors \subseteq Nat
  BY ReadoutAssumption, Zenon
<1>1. /\ \A c \in clicks : c = [time |-> c.time, at |-> c.at] /\ c.time \in Nat /\ c.at \in Nat
      /\ \A c \in clicks : c.at \in Detectors
  BY <1>0 DEF ClicksIn
<1>. DEFINE ticks == {c.time : c \in clicks}
<1>2. ticks \in SUBSET Nat /\ ticks # {}
  BY <1>1
<1>. HIDE DEF ticks
<1>3. PICK t \in ticks : \A u \in ticks : t <= u
  BY <1>2, LeastTick
<1>. DEFINE places == {c.at : c \in {e \in clicks : e.time = t}}
<1>4. places \in SUBSET Nat /\ places # {}
  BY <1>1, <1>3 DEF ticks
<1>. HIDE DEF places
<1>5. PICK p \in places : \A q \in places : p <= q
  BY <1>4, LeastTick
<1>6. PICK c \in clicks : c.time = t /\ c.at = p
  BY <1>5 DEF places
<1>7. ASSUME NEW e \in clicks \ {c}
      PROVE  c.time < e.time \/ (c.time = e.time /\ c.at < e.at)
  <2>1. t <= e.time /\ e.time \in Nat /\ c.time \in Nat /\ e.at \in Nat /\ c.at \in Nat
    BY <1>1, <1>3 DEF ticks
  <2>2. CASE e.time = t
    <3>1. p <= e.at
      BY <1>5, <2>2 DEF places
    <3>2. e.at # c.at
      BY <1>1, <1>6, <2>2
    <3>. QED
      BY <1>6, <2>1, <2>2, <3>1, <3>2
  <2>3. CASE e.time # t
    BY <1>6, <2>1, <2>3
  <2>. QED
    BY <2>2, <2>3
<1>8. \E x \in clicks : \A e \in clicks \ {x} : x.time < e.time \/ (x.time = e.time /\ x.at < e.at)
  BY <1>7
<1>. QED
  BY <1>8 DEF Earliest

(* What a threshold or POVM resolver says is what was found, or the label  *)
(* of a detector that has clicked.                                         *)
LEMMA ResolvedByClicks ==
  ASSUME NEW call, NEW found, NEW clicks, clicks # {} => Earliest(clicks) \in clicks,
         NEW says \in Resolved(call, found, clicks), says.success, says.outcome # found
  PROVE  \E c \in clicks : says.outcome = LabelOf(call, c.at)
<1>1. /\ ~Failed.success /\ SaysIfAny(found).outcome = found
      /\ \A o : Says(o).outcome = o
  BY DEF Failed, SaysIfAny, Says
<1>2. says # Failed /\ says # SaysIfAny(found)
  BY <1>1
<1>3. /\ clicks # {}
      /\ \/ \E c \in clicks : says = Says(LabelOf(call, c.at))
         \/ says = Says(LabelOf(call, Earliest(clicks).at))
  BY <1>2 DEF Resolved
<1>. QED
  BY <1>1, <1>3

(* The detector of what was found stands for nothing else.                 *)
LEMMA LabelOfFound ==
  ASSUME NEW call, NEW found, Mapped(call, found)
  PROVE  LabelOf(call, Wiring[call.label][found]) = found
<1>1. call.label \in DOMAIN Wiring /\ found \in DOMAIN Wiring[call.label]
  BY DEF Mapped
<1>2. \A label \in DOMAIN Wiring : IsInjective(Wiring[label])
  BY ReadoutAssumption, Zenon
<1>. DEFINE map == Wiring[call.label]
            labels == {o \in DOMAIN map : map[o] = map[found]}
<1>3. \A o \in DOMAIN map : map[o] = map[found] => o = found
  BY <1>1, <1>2 DEF IsInjective
<1>4. labels = {found}
  BY <1>1, <1>3
<1>. QED
  BY <1>4 DEF LabelOf

LEMMA WatchedTicks ==
  ASSUME clock \in Nat, NEW lit, NEW seen \in Watched(lit)
  PROVE  \A d \in Detectors : seen[d].clicks \subseteq Nat
<1>. SUFFICES ASSUME NEW d \in Detectors PROVE seen[d].clicks \subseteq Nat
  OBVIOUS
<1>1. seen[d] \in EvaluateWindow(channel[d], clock, Window, d \in lit, DeadTime, Resolving)
  BY DEF Watched
<1>. QED
  BY <1>1, WindowTicks

(* What is needed for it: the qubits of the signals to come are all there. *)
ReadInv ==
  /\ device \in Settings
  /\ clock \in Nat
  /\ current \in Nat \ {0}
  /\ \A k \in Nat : current <= k /\ k <= MaxSignals =>
       \A m \in Members : <<k, m>> \in stored
  /\ ReportsTrue

(* FalseOutcomesAreDark of the answer to come.                             *)
Excused(outcome, found, lit, dark) ==
  \/ device.kind = "array" /\ dark # {}
  \/ device.kind = "station"
     /\ \E p \in Patterns :
          p.outcome = outcome /\ p.detectors # lit /\ p.detectors \ lit = dark
  \/ device.kind = "qubit readout" /\ found \in DOMAIN Confusion

(* The qubits of the other signals are still there.                        *)
OthersIn(kept) ==
  \A k \in Nat \ {current}, m \in Members : <<k, m>> \in stored => <<k, m>> \in kept

(* An answer that is true, and whose step leaves the signals to come.      *)
LEMMA DoneReadInv ==
  ASSUME ReadInv, NEW says, NEW call, NEW found, NEW lit, NEW clicks,
         Done(says, call, found, lit, clicks),
         says.success /\ says.outcome # found =>
           Excused(says.outcome, found, lit, {c.at : c \in clicks} \ lit),
         \/ says = Raised
         \/ Unmeasured(call)
         \/ {m \in Members : <<current, m>> \in stored'} = (IF device.consume THEN {} ELSE Members),
         OthersIn(stored')
  PROVE  ReadInv'
<1>. DEFINE r == [to |-> current, success |-> says.success, outcome |-> says.outcome,
                  raised |-> says = Raised, call |-> call, found |-> found,
                  lit |-> lit, dark |-> {c.at : c \in clicks} \ lit]
<1>1. current' = current + 1 /\ answer' = {r} /\ device' = device
  BY DEF Done
<1>2. PICK gap \in Gaps : clock' = clock + gap
  BY DEF Done
<1>3. /\ r.to = current /\ r.success = says.success /\ r.outcome = says.outcome
      /\ r.call = call /\ r.found = found /\ r.lit = lit
      /\ r.dark = {c.at : c \in clicks} \ lit
  OBVIOUS
<1>4. says = Raised => r.raised
  BY Zenon
<1>. HIDE DEF r
<1>5. Gaps \subseteq Nat
  BY ReadoutAssumption, Zenon
<1>6. /\ device' \in Settings /\ clock' \in Nat /\ current' \in Nat \ {0}
  BY <1>1, <1>2, <1>5 DEF ReadInv
<1>7. \A k \in Nat : current' <= k /\ k <= MaxSignals =>
        \A m \in Members : <<k, m>> \in stored'
  <2>. SUFFICES ASSUME NEW k \in Nat, current + 1 <= k, k <= MaxSignals, NEW m \in Members
                PROVE  <<k, m>> \in stored'
    BY <1>1
  <2>1. <<k, m>> \in stored /\ k # current
    BY DEF ReadInv
  <2>. QED
    BY <2>1 DEF OthersIn
<1>8. FalseOutcomesAreDark'
  <2>1. r.success /\ r.outcome # r.found => Excused(r.outcome, r.found, r.lit, r.dark)
    BY <1>3
  <2>. QED
    BY <1>1, <2>1 DEF FalseOutcomesAreDark, Excused
<1>9. SignalsFreed'
  <2>1. \/ r.raised
        \/ Unmeasured(r.call)
        \/ {m \in Members : <<r.to, m>> \in stored'} = (IF device.consume THEN {} ELSE Members)
    BY <1>3, <1>4
  <2>. QED
    BY <1>1, <2>1 DEF SignalsFreed, Unmeasured, Members
<1>. QED
  BY <1>6, <1>7, <1>8, <1>9 DEF ReadInv, ReportsTrue

(* What a call leaves of the signal it is about.                           *)
LEMMA SignalLeft ==
  ASSUME ReadInv, current <= MaxSignals
  PROVE  /\ {m \in Members : <<current, m>> \in stored} = Members
         /\ {m \in Members : <<current, m>> \in stored \ Signal} = {}
<1>1. current \in Nat /\ current <= current
  BY DEF ReadInv
<1>2. \A m \in Members : <<current, m>> \in stored
  BY <1>1 DEF ReadInv
<1>. QED
  BY <1>2 DEF Signal

LEMMA CallFrees ==
  ASSUME NEW call
  PROVE  /\ OthersIn(AfterMeasurement(call)) /\ OthersIn(AfterDetection(call))
         /\ OthersIn(stored) /\ OthersIn(stored \ Signal)
         /\ ~Unmeasured(call) =>
              /\ AfterDetection(call) = (IF device.consume THEN stored \ Signal ELSE stored)
              /\ ~device.consume => AfterMeasurement(call) = stored
<1>1. MeasuredAtOnce(call) => TargetsOf(call) = Signal
  BY DEF MeasuredAtOnce, TargetsOf
<1>2. \A k \in Nat \ {current}, m \in Members : <<k, m>> \notin TargetsOf(call) \cup Signal
  BY DEF TargetsOf, Signal
<1>3. \A kept : stored \ (TargetsOf(call) \cup Signal) \subseteq kept => OthersIn(kept)
  BY <1>2 DEF OthersIn
<1>. QED
  BY <1>1, <1>3 DEF AfterMeasurement, AfterDetection

-----------------------------------------------------------------------------
(* The handlers *)

LEMMA DetectSignalReadInv == ASSUME ReadInv, DetectSignal PROVE ReadInv'
<1>1. device.kind = "array" /\ current <= MaxSignals
  BY DEF DetectSignal
<1>2. PICK call \in Measurements : \E found \in Found(call) :
        /\ Mapped(call, found)
        /\ LET lit == {Wiring[call.label][found]}
           IN  \E seen \in Watched(lit) : \E says \in Resolved(call, found, ClicksIn(seen)) :
                 Done(says, call, found, lit, ClicksIn(seen)) /\ Seen(seen)
        /\ stored' = AfterDetection(call)
  BY DEF DetectSignal
<1>3. PICK found \in Found(call) :
        /\ Mapped(call, found)
        /\ \E seen \in Watched({Wiring[call.label][found]}) :
             \E says \in Resolved(call, found, ClicksIn(seen)) :
               Done(says, call, found, {Wiring[call.label][found]}, ClicksIn(seen))
        /\ stored' = AfterDetection(call)
  BY <1>2
<1>. DEFINE lit == {Wiring[call.label][found]}
<1>4. PICK seen \in Watched(lit) :
        \E says \in Resolved(call, found, ClicksIn(seen)) :
          Done(says, call, found, lit, ClicksIn(seen))
  BY <1>3
<1>5. PICK says \in Resolved(call, found, ClicksIn(seen)) :
        Done(says, call, found, lit, ClicksIn(seen))
  BY <1>4
<1>. DEFINE clicks == ClicksIn(seen)
<1>6. clicks # {} => Earliest(clicks) \in clicks
  <2>1. clock \in Nat
    BY DEF ReadInv
  <2>. QED
    BY <1>4, <2>1, WatchedTicks, EarliestIsClick
<1>. HIDE DEF clicks
<1>7. ASSUME says.success, says.outcome # found
      PROVE  {c.at : c \in clicks} \ lit # {}
  <2>1. says \in Resolved(call, found, clicks)
    BY <1>5 DEF clicks
  <2>2. PICK c \in clicks : says.outcome = LabelOf(call, c.at)
    BY <1>6, <1>7, <2>1, ResolvedByClicks
  <2>3. LabelOf(call, Wiring[call.label][found]) = found
    BY <1>3, LabelOfFound
  <2>4. c.at \notin lit
    BY <1>7, <2>2, <2>3
  <2>. QED
    BY <2>2, <2>4
<1>8. Done(says, call, found, lit, clicks)
  BY <1>5 DEF clicks
<1>9. says.success /\ says.outcome # found =>
        Excused(says.outcome, found, lit, {c.at : c \in clicks} \ lit)
  BY <1>1, <1>7 DEF Excused
<1>10. /\ OthersIn(stored')
       /\ \/ Unmeasured(call)
          \/ {m \in Members : <<current, m>> \in stored'} =
               (IF device.consume THEN {} ELSE Members)
  BY <1>1, <1>3, CallFrees, SignalLeft
<1>. HIDE DEF lit
<1>. QED
  BY <1>8, <1>9, <1>10, DoneReadInv

LEMMA DetectUnmappedReadInv == ASSUME ReadInv, DetectUnmapped PROVE ReadInv'
<1>1. PICK call \in Measurements :
        \E found \in Found(call) :
          Done(Raised, call, found, {}, {}) /\ stored' = AfterMeasurement(call)
  BY DEF DetectUnmapped
<1>2. PICK found \in Found(call) :
        Done(Raised, call, found, {}, {}) /\ stored' = AfterMeasurement(call)
  BY <1>1
<1>3. ~Raised.success
  BY DEF Raised
<1>4. OthersIn(stored')
  BY <1>2, CallFrees
<1>. QED
  BY <1>2, <1>3, <1>4, DoneReadInv

(* A station reads the outcome of a pattern each of whose detectors has    *)
(* clicked; the pattern that was lit would have given what was found.      *)
LEMMA ObservedIsFound ==
  ASSUME NEW found, NEW lit \in LitBy(found), NEW clicks,
         Observed(clicks).success, Observed(clicks).outcome # found
  PROVE  \E p \in Patterns : /\ p.outcome = Observed(clicks).outcome
                             /\ p.detectors # lit
                             /\ p.detectors \ lit = {c.at : c \in clicks} \ lit
<1>. DEFINE matching == {p \in Patterns : Matches(clicks, p)}
<1>1. ~Failed.success /\ \A o : Says(o).outcome = o
  BY DEF Failed, Says
<1>2. matching # {} /\ Observed(clicks) = Says((CHOOSE p \in matching : TRUE).outcome)
  BY <1>1 DEF Observed
<1>3. PICK p \in matching : Observed(clicks) = Says(p.outcome)
  BY <1>2
<1>4. p.outcome = Observed(clicks).outcome /\ p.outcome # found
  BY <1>1, <1>3
<1>5. p \in Patterns /\ {c.at : c \in clicks} = p.detectors
  BY <1>3 DEF Matches
<1>6. p.detectors # {}
  <2>1. \A q \in Patterns : q.detectors # {}
    BY ReadoutAssumption, Zenon
  <2>. QED
    BY <1>5, <2>1
<1>7. p.detectors # lit
  <2>1. CASE lit = {}
    BY <1>6, <2>1
  <2>2. CASE lit # {}
    <3>1. PICK q \in Patterns : lit = q.detectors /\ q.outcome = found
      BY <2>2 DEF LitBy
    <3>2. \A a, b \in Patterns : a.detectors = b.detectors => a.outcome = b.outcome
      BY ReadoutAssumption, Zenon
    <3>. QED
      BY <1>4, <1>5, <3>1, <3>2
  <2>. QED
    BY <2>1, <2>2
<1>. QED
  BY <1>4, <1>5, <1>7

LEMMA AnalysePairReadInv == ASSUME ReadInv, AnalysePair PROVE ReadInv'
<1>1. PICK found \in BellLabels : \E lit \in LitBy(found) : \E seen \in Watched(lit) :
        Done(Observed(ClicksIn(seen)), BellCall, found, lit, ClicksIn(seen))
  BY DEF AnalysePair
<1>2. PICK lit \in LitBy(found) : \E seen \in Watched(lit) :
        Done(Observed(ClicksIn(seen)), BellCall, found, lit, ClicksIn(seen))
  BY <1>1
<1>3. PICK seen \in Watched(lit) :
        Done(Observed(ClicksIn(seen)), BellCall, found, lit, ClicksIn(seen))
  BY <1>2
<1>. DEFINE clicks == ClicksIn(seen)
            says   == Observed(clicks)
<1>4. device.kind = "station" /\ current <= MaxSignals
  BY DEF AnalysePair
<1>5. Done(says, BellCall, found, lit, clicks)
  BY <1>3
<1>. HIDE DEF clicks
<1>6. says.success /\ says.outcome # found =>
        Excused(says.outcome, found, lit, {c.at : c \in clicks} \ lit)
  BY <1>4, ObservedIsFound DEF Excused
<1>7. /\ OthersIn(stored')
      /\ {m \in Members : <<current, m>> \in stored'} = (IF device.consume THEN {} ELSE Members)
  BY <1>4, CallFrees, SignalLeft DEF AnalysePair
<1>. HIDE DEF says
<1>. QED
  BY <1>5, <1>6, <1>7, DoneReadInv

LEMMA AnalyseIdeallyReadInv == ASSUME ReadInv, AnalyseIdeally PROVE ReadInv'
<1>1. PICK found \in BellLabels :
        \E says \in {Failed, Says(found)} : Done(says, BellCall, found, {}, {})
  BY DEF AnalyseIdeally
<1>2. PICK says \in {Failed, Says(found)} : Done(says, BellCall, found, {}, {})
  BY <1>1
<1>3. ~(says.success /\ says.outcome # found)
  BY <1>2 DEF Failed, Says
<1>4. /\ OthersIn(stored')
      /\ {m \in Members : <<current, m>> \in stored'} = (IF device.consume THEN {} ELSE Members)
  BY CallFrees, SignalLeft DEF AnalyseIdeally
<1>. QED
  BY <1>2, <1>3, <1>4, DoneReadInv

LEMMA ReadQubitReadInv == ASSUME ReadInv, ReadQubit PROVE ReadInv'
<1>1. PICK call \in Measurements : \E found \in Found(call) : \E read \in Read(found) :
        Done(SaysIfAny(read), call, found, {}, {}) /\ stored' = AfterMeasurement(call)
  BY DEF ReadQubit
<1>2. PICK found \in Found(call) : \E read \in Read(found) :
        Done(SaysIfAny(read), call, found, {}, {}) /\ stored' = AfterMeasurement(call)
  BY <1>1
<1>3. PICK read \in Read(found) :
        Done(SaysIfAny(read), call, found, {}, {}) /\ stored' = AfterMeasurement(call)
  BY <1>2
<1>. DEFINE says == SaysIfAny(read)
<1>4. device.kind = "qubit readout" /\ current <= MaxSignals
  BY DEF ReadQubit
<1>5. ~device.consume
  <2>1. \A s \in Settings : s.kind = "qubit readout" => ~s.consume
    BY ReadoutAssumption, Zenon
  <2>. QED
    BY <1>4, <2>1 DEF ReadInv
<1>6. says.success /\ says.outcome # found =>
        Excused(says.outcome, found, {}, {c.at : c \in {}} \ {})
  BY <1>3, <1>4 DEF SaysIfAny, Read, Excused
<1>7. /\ OthersIn(stored')
      /\ \/ Unmeasured(call)
         \/ {m \in Members : <<current, m>> \in stored'} =
              (IF device.consume THEN {} ELSE Members)
  BY <1>3, <1>4, <1>5, CallFrees, SignalLeft
<1>8. Done(says, call, found, {}, {})
  BY <1>3
<1>. HIDE DEF says
<1>. QED
  BY <1>6, <1>7, <1>8, DoneReadInv

(* No behaviour of a device, of whatever make, has it report an outcome    *)
(* that was not found without clicks no light has caused, or keep a signal *)
(* it was made to consume: the pulses and dead times that other signals    *)
(* have left behind, and the ways to measure, are all covered.             *)
THEOREM SpecReportsTrue == ReadoutInit /\ [][ReadoutNext]_readoutVars => []ReportsTrue
<1>1. ReadoutInit => ReadInv
  <2>. SUFFICES ASSUME ReadoutInit PROVE ReadInv
    OBVIOUS
  <2>1. device \in Settings /\ clock = 0 /\ current = 1 /\ answer = {}
        /\ stored = (1..MaxSignals) \X Members
    BY DEF ReadoutInit
  <2>2. MaxSignals \in Nat
    BY ReadoutAssumption, Zenon
  <2>3. ReportsTrue
    BY <2>1 DEF ReportsTrue, FalseOutcomesAreDark, SignalsFreed
  <2>. QED
    BY <2>1, <2>2, <2>3 DEF ReadInv
<1>2. ReadInv /\ [ReadoutNext]_readoutVars => ReadInv'
  <2>. SUFFICES ASSUME ReadInv, [ReadoutNext]_readoutVars PROVE ReadInv'
    OBVIOUS
  <2>1. CASE UNCHANGED readoutVars
    BY <2>1 DEF readoutVars, ReadInv, ReportsTrue, FalseOutcomesAreDark, SignalsFreed,
                Unmeasured, Members
  <2>. QED
    BY <2>1, DetectSignalReadInv, DetectUnmappedReadInv, AnalysePairReadInv,
       AnalyseIdeallyReadInv, ReadQubitReadInv DEF ReadoutNext
<1>3. ReadInv => ReportsTrue
  BY DEF ReadInv
<1>. QED
  BY <1>1, <1>2, <1>3, PTL

=============================================================================

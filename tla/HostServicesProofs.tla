------------------------- MODULE HostServicesProofs -------------------------
(***************************************************************************)
(* Proofs about the background services of a host, for any callers, rules,  *)
(* requests, connections, addresses and bounds: each invariant of a service *)
(* is proved from its own steps, and holds of the host because the services *)
(* share no state.                                                         *)
(***************************************************************************)
EXTENDS HostServices, SequenceLemmas

-----------------------------------------------------------------------------
(* The threshold rules                                                     *)

EvalState == [step : {"idle", "measuring", "deciding", "paging"}, rule : 0 .. Rules,
              at : Nat, value : Measurement]

AlertShape ==
  /\ eval \in [Evaluation -> EvalState]
  /\ \A e \in Evaluation : eval[e].step # "idle" => eval[e].rule \in Rule
  /\ firing \subseteq Rule /\ resolvedAt \in [Rule -> Nat \cup {-1}]
  /\ sent \in [Rule -> Nat]
  /\ lastPage \in [Rule -> [status : {"firing", "resolved"}, at : Nat \cup {-1}]]
  /\ alertNow \in Nat

AlertInv == AlertShape /\ PagesAlternate /\ RaisesKeepCooldown

LEMMA RestingIsAState == Resting \in EvalState
  BY MetricAlertsAssumption DEF Resting, EvalState, Measurement

LEMMA AlertsBegin == AlertsInit => AlertInv
  <1>. SUFFICES ASSUME AlertsInit PROVE AlertInv
    OBVIOUS
  <1>1. AlertShape
    <2>1. eval \in [Evaluation -> EvalState] /\ \A e \in Evaluation : eval[e].step = "idle"
      BY RestingIsAState DEF AlertsInit, Resting
    <2>. QED
      BY <2>1 DEF AlertsInit, AlertShape
  <1>2. PagesAlternate
    BY DEF AlertsInit, PagesAlternate
  <1>3. RaisesKeepCooldown
    BY DEF AlertsInit, RaisesKeepCooldown
  <1>. QED
    BY <1>1, <1>2, <1>3 DEF AlertInv

\* The walk from one rule to the next, and past the last.
LEMMA AtRuleShape ==
  ASSUME AlertShape, NEW e \in Evaluation, eval[e].step # "idle", AtRule(e, eval[e].rule + 1)
  PROVE  /\ eval' \in [Evaluation -> EvalState]
         /\ \A d \in Evaluation : eval'[d].step # "idle" => eval'[d].rule \in Rule
  <1>1. PICK n \in Nat : n = eval[e].rule + 1 /\ n >= 1
    BY DEF AlertShape, Rule
  <1>2. eval[e] \in EvalState /\ Rules \in Nat
    BY MetricAlertsAssumption DEF AlertShape
  <1>3. CASE n > Rules
    <2>1. eval' = [eval EXCEPT ![e] = Resting]
      BY <1>1, <1>3 DEF AtRule
    <2>2. Resting.step = "idle"
      BY DEF Resting
    <2>. QED
      BY <2>1, <2>2, RestingIsAState DEF AlertShape
  <1>4. CASE ~ (n > Rules)
    <2>1. PICK x : eval' = [eval EXCEPT ![e] = x] /\ x = [eval[e] EXCEPT !.step = "measuring", !.rule = n]
      BY <1>1, <1>4 DEF AtRule
    <2>2. n \in Rule /\ n \in 0 .. Rules
      BY <1>1, <1>2, <1>4 DEF Rule
    <2>3. x \in EvalState /\ x.rule = n
      BY <1>2, <2>1, <2>2 DEF EvalState
    <2>. QED
      BY <2>1, <2>2, <2>3 DEF AlertShape
  <1>. QED
    BY <1>3, <1>4

\* A page, sent or not needed, leaves one more or as many.
LEMMA Parity == \A n \in Nat : (n + 1) % 2 = 1 <=> ~ (n % 2 = 1)
  OBVIOUS

LEMMA AlertsKeep == ASSUME AlertInv, AlertsNext PROVE AlertInv'
  <1>. USE DEF AlertInv
  <1>1. Rules \in Nat \ {0}
    BY MetricAlertsAssumption
  <1>2. ASSUME NEW e \in Evaluation, Evaluate(e) PROVE AlertInv'
    <2>1. [step |-> "measuring", rule |-> 1, at |-> alertNow, value |-> "undecided"] \in EvalState
      BY <1>1 DEF EvalState, Measurement, AlertShape
    <2>2. AlertShape'
      BY <1>1, <1>2, <2>1 DEF Evaluate, AlertShape, Rule
    <2>. QED
      BY <1>2, <2>2 DEF Evaluate, PagesAlternate, RaisesKeepCooldown
  <1>3. ASSUME NEW e \in Evaluation, Measure(e) PROVE AlertInv'
    <2>1. PICK v \in Measurement : eval' = [eval EXCEPT ![e].step = "deciding", ![e].value = v]
      BY <1>3 DEF Measure
    <2>2. /\ eval' \in [Evaluation -> EvalState] /\ eval[e].step # "idle"
          /\ \A d \in Evaluation : eval'[d].rule = eval[d].rule /\ (d # e => eval'[d] = eval[d])
      <3>1. PICK x : x = [eval[e] EXCEPT !.step = "deciding", !.value = v]
        OBVIOUS
      <3>2. x \in EvalState /\ x.rule = eval[e].rule
        BY <3>1 DEF AlertShape, EvalState
      <3>3. eval' = [eval EXCEPT ![e] = x]
        BY <2>1, <3>1 DEF AlertShape, EvalState
      <3>. QED
        BY <1>3, <3>2, <3>3 DEF Measure, AlertShape
    <2>3. AlertShape'
      BY <1>3, <2>2 DEF Measure, AlertShape
    <2>. QED
      BY <1>3, <2>3 DEF Measure, PagesAlternate, RaisesKeepCooldown
  <1>4. ASSUME NEW e \in Evaluation, MeasureFails(e) \/ Stay(e) \/ ChannelsSettle(e) PROVE AlertInv'
    <2>1. /\ eval[e].step # "idle" /\ AtRule(e, eval[e].rule + 1)
          /\ UNCHANGED <<firing, resolvedAt, sent, lastPage, alertNow>>
      BY <1>4 DEF MeasureFails, Stay, ChannelsSettle
    <2>2. AlertShape'
      BY <2>1, AtRuleShape DEF AlertShape
    <2>. QED
      BY <2>1, <2>2 DEF PagesAlternate, RaisesKeepCooldown
  <1>5. ASSUME NEW e \in Evaluation, Raise(e) \/ Resolve(e) PROVE AlertInv'
    <2>1. PICK r \in Rule : r = eval[e].rule
      BY <1>5 DEF Raise, Resolve, AlertShape
    <2>2. PICK t \in Nat : t = eval[e].at
      BY DEF AlertShape, EvalState
    <2>3. PICK status \in {"firing", "resolved"} :
            /\ sent' = [sent EXCEPT ![r] = @ + 1]
            /\ lastPage' = [lastPage EXCEPT ![r] = [status |-> status, at |-> t]]
            /\ eval' = [eval EXCEPT ![e].step = "paging"]
            /\ firing' = (IF status = "firing" THEN firing \cup {r} ELSE firing \ {r})
            /\ resolvedAt' = (IF status = "firing" THEN resolvedAt ELSE [resolvedAt EXCEPT ![r] = t])
            /\ status = "firing" => r \notin firing /\ ~ InCooldown(r, t)
            /\ status = "resolved" => r \in firing
            /\ alertNow' = alertNow
      BY <1>5, <2>1, <2>2 DEF Raise, Resolve, Page, MayRaise, MayResolve
    <2>4. AlertShape'
      <3>1. eval' \in [Evaluation -> EvalState] /\ \A d \in Evaluation : eval'[d].rule = eval[d].rule
            /\ (d # e => eval'[d] = eval[d])
        BY <2>3, SMTT(30) DEF AlertShape, EvalState
      <3>2. eval[e].step # "idle"
        BY <1>5 DEF Raise, Resolve
      <3>. QED
        BY <2>3, <3>1, <3>2 DEF AlertShape
    <2>5. PagesAlternate'
      <3>. SUFFICES ASSUME NEW q \in Rule
                    PROVE  /\ q \in firing' <=> lastPage'[q].status = "firing"
                           /\ q \in firing' <=> sent'[q] % 2 = 1
        BY DEF PagesAlternate
      <3>1. CASE q = r
        <4>1. PICK n \in Nat : n = sent[r]
          BY DEF AlertShape
        <4>2. sent'[r] = n + 1 /\ lastPage'[r].status = status
          BY <2>3, <4>1 DEF AlertShape
        <4>3. (r \in firing <=> n % 2 = 1) /\ (r \in firing' <=> status = "firing")
          BY <2>3, <4>1 DEF PagesAlternate
        <4>4. r \in firing' <=> ~ (r \in firing)
          BY <2>3
        <4>. QED
          BY <3>1, <4>2, <4>3, <4>4, Parity
      <3>2. CASE q # r
        BY <2>3, <3>2 DEF AlertShape, PagesAlternate
      <3>. QED
        BY <3>1, <3>2
    <2>6. RaisesKeepCooldown'
      <3>. SUFFICES ASSUME NEW q \in Rule, q \in firing', resolvedAt'[q] # -1
                    PROVE  lastPage'[q].at - resolvedAt'[q] >= FlapCooldown
        BY DEF RaisesKeepCooldown
      <3>1. CASE q = r
        <4>1. status = "firing" /\ lastPage'[r].at = t /\ resolvedAt'[r] = resolvedAt[r]
          BY <2>3, <3>1 DEF AlertShape
        <4>2. ~ (t - resolvedAt[r] < FlapCooldown)
          BY <2>3, <3>1, <4>1 DEF InCooldown
        <4>3. resolvedAt[r] \in Int /\ FlapCooldown \in Int
          BY MetricAlertsAssumption DEF AlertShape
        <4>. QED
          BY <3>1, <4>1, <4>2, <4>3
      <3>2. CASE q # r
        BY <2>3, <3>2 DEF AlertShape, RaisesKeepCooldown
      <3>. QED
        BY <3>1, <3>2
    <2>. QED
      BY <2>4, <2>5, <2>6
  <1>6. CASE AlertTick
    BY <1>6 DEF AlertTick, AlertShape, PagesAlternate, RaisesKeepCooldown
  <1>. QED
    BY <1>2, <1>3, <1>4, <1>5, <1>6 DEF AlertsNext

\* A step of the host is one of its threshold alerts or leaves them alone.
LEMMA AlertsOrNot == [HostNext]_<<busy, hostServiceVars>> => AlertsNext \/ UNCHANGED alertVars
  BY DEF HostNext, Diagnosing, Pruning, Capturing, Alerting, Streaming, Limiting, Reading, hostServiceVars

LEMMA AlertInvHolds == HostSpec => []AlertInv
  <1>1. HostInit => AlertInv
    BY AlertsBegin DEF HostInit
  <1>2. AlertInv /\ [HostNext]_<<busy, hostServiceVars>> => AlertInv'
    <2>1. ASSUME AlertInv, UNCHANGED alertVars PROVE AlertInv'
      BY <2>1 DEF alertVars, AlertInv, AlertShape, PagesAlternate, RaisesKeepCooldown
    <2>. QED
      BY <2>1, AlertsOrNot, AlertsKeep
  <1>. QED
    BY <1>1, <1>2, PTL DEF HostSpec

\* However evaluations overlap, whatever the store and the channels do and however long they
\* take, the pages of a rule alternate between raised and resolved and agree with what fires,
\* and a raise keeps its cooldown (alerter_service.ts).
THEOREM RulePagesStaySound == HostSpec => []RulePagesAreSound
  <1>1. AlertInv => RulePagesAreSound
    BY DEF AlertInv, RulePagesAreSound
  <1>. QED
    BY <1>1, AlertInvHolds, PTL

-----------------------------------------------------------------------------
(* The pruner                                                              *)

Cycle == (1 .. MaxCycles) \X {"scheduled", "manual"}
RunRecord == [number : 1 .. MaxCycles, trigger : {"scheduled", "manual"}, deleted : 0 .. 1,
              failed : BOOLEAN]

PrunerShape ==
  /\ timer \in BOOLEAN /\ begun \in 0 .. MaxCycles
  /\ outcome \in [1 .. MaxCycles -> -1 .. 1] /\ askedFor \in [Asker -> 0 .. MaxCycles]
  /\ runs \in Seq(RunRecord)

\* Cycles are numbered as they begin: only the last may be running, and the ring has the others
\* in the order in which they ended.
CyclesInOrder ==
  /\ \/ running = {} /\ inFlightCycle = {}
     \/ /\ begun \in 1 .. MaxCycles /\ inFlightCycle = {begun}
        /\ \E trigger \in {"scheduled", "manual"} : running = {<<begun, trigger>>}
  /\ \A n \in 1 .. MaxCycles : outcome[n] = -1 <=> n > begun \/ n \in inFlightCycle
  /\ \A a \in Asker : askedFor[a] <= begun
  /\ \A i \in 1 .. Len(runs) :
       /\ runs[i].number = (IF inFlightCycle = {} THEN begun ELSE begun - 1) - i + 1
       /\ outcome[runs[i].number] = runs[i].deleted
  /\ runs = <<>> => begun = 0 \/ (begun = 1 /\ inFlightCycle = {1})

PrunerInv == PrunerShape /\ CyclesInOrder

\* The newest run comes to the front, and those beyond the cap leave.
LEMMA RingParts ==
  ASSUME NEW S, NEW ring \in Seq(S), NEW run \in S, NEW cap \in Nat \ {0},
         NEW n \in Nat, n = IF Len(ring) < cap THEN Len(ring) + 1 ELSE cap
  PROVE  /\ SubSeq(<<run>> \o ring, 1, n) \in Seq(S) /\ Len(SubSeq(<<run>> \o ring, 1, n)) = n
         /\ n >= 1 /\ n <= Len(ring) + 1
         /\ SubSeq(<<run>> \o ring, 1, n)[1] = run
         /\ \A i \in 2 .. n : SubSeq(<<run>> \o ring, 1, n)[i] = ring[i - 1]
  <1>. DEFINE all == <<run>> \o ring
  <1>1. /\ <<run>> \in Seq(S) /\ Len(<<run>>) = 1 /\ <<run>>[1] = run /\ Len(ring) \in Nat
    BY LenProperties
  <1>2. /\ all \in Seq(S) /\ Len(all) = 1 + Len(ring)
        /\ \A i \in 1 .. 1 + Len(ring) : all[i] = IF i <= 1 THEN <<run>>[i] ELSE ring[i - 1]
    BY <1>1, ConcatProperties
  <1>. HIDE DEF all
  <1>3. n >= 1 /\ n <= Len(ring) + 1
    BY <1>1
  <1>4. /\ SubSeq(all, 1, n) \in Seq(S) /\ Len(SubSeq(all, 1, n)) = n
        /\ \A i \in 1 .. n : SubSeq(all, 1, n)[i] = all[i]
    BY <1>1, <1>2, <1>3, CutParts
  <1>5. all[1] = run /\ \A i \in 2 .. n : all[i] = ring[i - 1] /\ i \in 1 .. n
    BY <1>1, <1>2, <1>3
  <1>. QED
    BY <1>3, <1>4, <1>5 DEF all

LEMMA PrunerBegins == PrunerInit => PrunerInv
  <1>. SUFFICES ASSUME PrunerInit PROVE PrunerInv
    OBVIOUS
  <1>1. <<>> \in Seq(RunRecord) /\ Len(<<>>) = 0
    OBVIOUS
  <1>2. MaxCycles \in Nat
    BY PrunerAssumption
  <1>3. PrunerShape
    <2>1. -1 \in -1 .. 1 /\ 0 \in 0 .. MaxCycles
      BY <1>2
    <2>. QED
      BY <1>1, <2>1 DEF PrunerInit, PrunerShape
  <1>4. \A n \in 1 .. MaxCycles : outcome[n] = -1 /\ n > 0
    BY <1>2 DEF PrunerInit
  <1>5. \A i \in 1 .. Len(runs) : FALSE
    BY <1>1 DEF PrunerInit
  <1>6. CyclesInOrder
    BY <1>4, <1>5 DEF PrunerInit, CyclesInOrder
  <1>. QED
    BY <1>3, <1>6 DEF PrunerInv

\* A cycle begins only when none is in flight.
LEMMA CycleBegins ==
  ASSUME PrunerInv, NEW trigger \in {"scheduled", "manual"}, inFlightCycle = {}, Begin(trigger),
         UNCHANGED <<timer, runs, outcome>>,
         askedFor' \in [Asker -> 0 .. MaxCycles], \A a \in Asker : askedFor'[a] \in {askedFor[a], begun + 1}
  PROVE  PrunerInv'
  <1>1. MaxCycles \in Nat /\ begun \in Nat /\ begun < MaxCycles /\ begun' = begun + 1
        /\ begun' \in 0 .. MaxCycles /\ begun' \in 1 .. MaxCycles
    BY PrunerAssumption DEF PrunerInv, PrunerShape, Begin
  <1>2. running' = {<<begun', trigger>>} /\ inFlightCycle' = {begun'}
    BY <1>1 DEF PrunerInv, CyclesInOrder, Begin
  <1>3. PrunerShape'
    BY <1>1 DEF PrunerInv, PrunerShape
  <1>4. \A n \in 1 .. MaxCycles : outcome'[n] = -1 <=> n > begun' \/ n \in inFlightCycle'
    BY <1>1, <1>2 DEF PrunerInv, CyclesInOrder
  <1>5. \A a \in Asker : askedFor'[a] <= begun'
    <2>. SUFFICES ASSUME NEW a \in Asker PROVE askedFor'[a] <= begun'
      OBVIOUS
    <2>1. askedFor[a] <= begun /\ askedFor[a] \in Int
      BY DEF PrunerInv, PrunerShape, CyclesInOrder
    <2>. QED
      BY <1>1, <2>1
  <1>6. \A i \in 1 .. Len(runs') :
          /\ runs'[i].number = (IF inFlightCycle' = {} THEN begun' ELSE begun' - 1) - i + 1
          /\ outcome'[runs'[i].number] = runs'[i].deleted
    <2>1. inFlightCycle' # {} /\ begun' - 1 = begun
      BY <1>1, <1>2
    <2>. QED
      BY <2>1 DEF PrunerInv, CyclesInOrder
  <1>7. runs' = <<>> => begun' = 0 \/ (begun' = 1 /\ inFlightCycle' = {1})
    BY <1>1, <1>2 DEF PrunerInv, CyclesInOrder
  <1>. QED
    BY <1>1, <1>2, <1>3, <1>4, <1>5, <1>6, <1>7 DEF PrunerInv, CyclesInOrder

LEMMA CycleIsRecorded == ASSUME PrunerInv, CycleEnds PROVE PrunerInv'
  <1>1. PICK cycle \in running, deleted \in 0 .. 1, failed \in BOOLEAN :
          /\ running' = running \ {cycle}
          /\ RecordRun([number |-> cycle[1], trigger |-> cycle[2], deleted |-> deleted, failed |-> failed])
          /\ outcome' = [outcome EXCEPT ![cycle[1]] = deleted]
          /\ inFlightCycle' = {} /\ UNCHANGED <<timer, begun, askedFor>>
    BY DEF CycleEnds
  <1>2. PICK trigger \in {"scheduled", "manual"} :
          /\ begun \in 1 .. MaxCycles /\ inFlightCycle = {begun} /\ cycle = <<begun, trigger>>
          /\ running = {cycle}
    BY DEF PrunerInv, CyclesInOrder
  <1>3. PICK run \in RunRecord :
          run = [number |-> cycle[1], trigger |-> cycle[2], deleted |-> deleted, failed |-> failed]
          /\ run.number = begun /\ run.deleted = deleted
    <2>1. PICK run : run = [number |-> begun, trigger |-> trigger, deleted |-> deleted, failed |-> failed]
      OBVIOUS
    <2>2. run \in RunRecord /\ run.number = begun /\ run.deleted = deleted
      BY <1>2, <2>1 DEF RunRecord
    <2>3. cycle[1] = begun /\ cycle[2] = trigger
      BY <1>2
    <2>. QED
      BY <2>1, <2>2, <2>3
  <1>4. PICK n \in Nat : n = IF Len(runs) < MaxPruneRuns THEN Len(runs) + 1 ELSE MaxPruneRuns
    BY PrunerAssumption, LenProperties DEF PrunerInv, PrunerShape
  <1>5. runs' = SubSeq(<<run>> \o runs, 1, n)
    BY <1>1, <1>3, <1>4 DEF RecordRun
  <1>6. /\ runs' \in Seq(RunRecord) /\ Len(runs') = n /\ n >= 1 /\ n <= Len(runs) + 1
        /\ runs'[1] = run /\ \A i \in 2 .. n : runs'[i] = runs[i - 1]
    BY <1>4, <1>5, RingParts, PrunerAssumption DEF PrunerInv, PrunerShape
  <1>7. MaxCycles \in Nat /\ begun \in Nat /\ Len(runs) \in Nat
    BY PrunerAssumption, LenProperties DEF PrunerInv, PrunerShape
  <1>8. outcome' = [outcome EXCEPT ![begun] = deleted] /\ deleted \in {0, 1} /\ running' = {}
    BY <1>1, <1>2
  <1>9. PrunerShape'
    <2>1. deleted \in -1 .. 1
      OBVIOUS
    <2>2. outcome' \in [1 .. MaxCycles -> -1 .. 1]
      BY <2>1, <1>8 DEF PrunerInv, PrunerShape
    <2>. QED
      BY <2>2, <1>1, <1>6 DEF PrunerInv, PrunerShape
  <1>10. \A i \in 1 .. n : /\ runs'[i].number = begun - i + 1
                           /\ outcome'[runs'[i].number] = runs'[i].deleted
    <2>. SUFFICES ASSUME NEW i \in 1 .. n
                  PROVE  runs'[i].number = begun - i + 1 /\ outcome'[runs'[i].number] = runs'[i].deleted
      OBVIOUS
    <2>1. CASE i = 1
      BY <2>1, <1>2, <1>3, <1>6, <1>7, <1>8 DEF PrunerInv, PrunerShape
    <2>2. CASE i # 1
      <3>1. i - 1 \in 1 .. Len(runs) /\ i \in 2 .. n
        BY <2>2, <1>6, <1>7
      <3>2. PICK j \in 1 .. Len(runs) : j = i - 1
        BY <3>1
      <3>3. runs[j].number = begun - 1 - j + 1 /\ outcome[runs[j].number] = runs[j].deleted
        BY <1>2 DEF PrunerInv, CyclesInOrder
      <3>4. runs[j].number = begun - i + 1 /\ runs[j].number # begun
        BY <3>2, <3>3, <1>7, <2>2
      <3>5. runs[j].number \in 1 .. MaxCycles
        <4>1. runs[j] \in RunRecord
          BY ElementOfSeq DEF PrunerInv, PrunerShape
        <4>. QED
          BY <4>1 DEF RunRecord
      <3>6. runs'[i] = runs[j]
        BY <3>1, <3>2, <1>6
      <3>. QED
        BY <3>3, <3>4, <3>5, <3>6, <1>8 DEF PrunerInv, PrunerShape
    <2>. QED
      BY <2>1, <2>2
  <1>11. \A m \in 1 .. MaxCycles : outcome'[m] = -1 <=> m > begun' \/ m \in inFlightCycle'
    BY <1>1, <1>2, <1>7, <1>8 DEF PrunerInv, PrunerShape, CyclesInOrder
  <1>12. runs' # <<>>
    BY <1>6, <1>9, EmptySeq DEF PrunerShape
  <1>. QED
    BY <1>1, <1>6, <1>8, <1>9, <1>10, <1>11, <1>12 DEF PrunerInv, CyclesInOrder

LEMMA PrunerKeeps == ASSUME PrunerInv, PrunerNext PROVE PrunerInv'
  <1>1. CASE StartPruner \/ StopPruner
    BY <1>1 DEF StartPruner, StopPruner, PrunerInv, PrunerShape, CyclesInOrder
  <1>2. CASE ScheduledCycle
    BY <1>2, CycleBegins DEF ScheduledCycle, MayTick, PrunerInv, PrunerShape
  <1>3. CASE CycleEnds
    BY <1>3, CycleIsRecorded
  <1>4. ASSUME NEW a \in Asker, PruneNow(a) PROVE PrunerInv'
    <2>1. MaxCycles \in Nat /\ begun \in Nat
      BY PrunerAssumption DEF PrunerInv, PrunerShape
    <2>2. CASE inFlightCycle # {}
      <3>1. askedFor' = [askedFor EXCEPT ![a] = begun] /\ begun \in 0 .. MaxCycles
            /\ UNCHANGED <<timer, running, inFlightCycle, begun, runs, outcome>>
        BY <1>4, <2>2 DEF PruneNow, PrunerInv, PrunerShape, CyclesInOrder
      <3>2. askedFor' \in [Asker -> 0 .. MaxCycles] /\ \A b \in Asker : askedFor'[b] <= begun
        BY <2>1, <3>1 DEF PrunerInv, PrunerShape, CyclesInOrder
      <3>. QED
        BY <3>1, <3>2 DEF PrunerInv, PrunerShape, CyclesInOrder
    <2>3. CASE inFlightCycle = {}
      <3>1. Begin("manual") /\ askedFor' = [askedFor EXCEPT ![a] = begun + 1]
            /\ UNCHANGED <<timer, runs, outcome>>
        BY <1>4, <2>3 DEF PruneNow
      <3>2. begun + 1 \in 0 .. MaxCycles
        BY <3>1, <2>1, PrunerAssumption DEF Begin
      <3>3. askedFor' \in [Asker -> 0 .. MaxCycles] /\ \A b \in Asker : askedFor'[b] \in {askedFor[b], begun + 1}
        BY <3>1, <3>2 DEF PrunerInv, PrunerShape
      <3>. QED
        BY <2>3, <3>1, <3>3, CycleBegins
    <2>. QED
      BY <2>2, <2>3
  <1>. QED
    BY <1>1, <1>2, <1>3, <1>4 DEF PrunerNext

LEMMA CyclesAreOne == PrunerInv => OneCycleAtATime
  <1>. SUFFICES ASSUME PrunerInv PROVE OneCycleAtATime
    OBVIOUS
  <1>1. Cardinality(running) <= 1 /\ inFlightCycle = {c[1] : c \in running}
    <2>1. CASE running = {}
      <3>1. Cardinality(running) = 0 /\ inFlightCycle = {}
        BY <2>1, FS_EmptySet DEF PrunerInv, CyclesInOrder
      <3>. QED
        BY <2>1, <3>1
    <2>2. CASE running # {}
      <3>1. PICK trigger : running = {<<begun, trigger>>} /\ inFlightCycle = {begun}
        BY <2>2 DEF PrunerInv, CyclesInOrder
      <3>. QED
        BY <3>1, FS_Singleton, SMTT(30)
    <2>. QED
      BY <2>1, <2>2
  <1>2. ASSUME NEW a \in Asker, askedFor[a] # 0
        PROVE  outcome[askedFor[a]] = -1 <=> askedFor[a] \in inFlightCycle
    <2>1. askedFor[a] \in 1 .. MaxCycles /\ askedFor[a] <= begun /\ begun \in Int
      BY <1>2, PrunerAssumption DEF PrunerInv, PrunerShape, CyclesInOrder
    <2>. QED
      BY <2>1 DEF PrunerInv, CyclesInOrder
  <1>3. ASSUME NEW i \in DOMAIN runs
        PROVE  outcome[runs[i].number] = runs[i].deleted /\ runs[i].number = runs[1].number - i + 1
    <2>1. DOMAIN runs = 1 .. Len(runs) /\ Len(runs) \in Nat
      BY LenProperties DEF PrunerInv, PrunerShape
    <2>2. PICK top \in Int : top = IF inFlightCycle = {} THEN begun ELSE begun - 1
      BY DEF PrunerInv, PrunerShape
    <2>3. \A j \in 1 .. Len(runs) : runs[j].number = top - j + 1 /\ outcome[runs[j].number] = runs[j].deleted
      BY <2>2 DEF PrunerInv, CyclesInOrder
    <2>4. i \in 1 .. Len(runs) /\ 1 \in 1 .. Len(runs)
      BY <1>3, <2>1
    <2>5. runs[1].number = top
      BY <2>3, <2>4, SMTT(30)
    <2>. QED
      BY <2>3, <2>4, <2>5
  <1>. QED
    BY <1>1, <1>2, <1>3 DEF OneCycleAtATime

-----------------------------------------------------------------------------
(* The diagnosis: its cache                                                *)

CacheRow == Family \X Caller \X Nat

\* A cache has one row for a family at most.
Sound(rows) ==
  rows \in Seq(CacheRow) /\ \A i, j \in 1 .. Len(rows) : rows[i][1] = rows[j][1] => i = j

\* Every row of the one is a row of the other.
Among(rows, others) == \A i \in 1 .. Len(rows) : \E j \in 1 .. Len(others) : rows[i] = others[j]

LEMMA WithoutParts ==
  ASSUME Sound(cache), NEW f \in Family
  PROVE  /\ Sound(Without(f)) /\ Among(Without(f), cache) /\ Len(Without(f)) <= Len(cache)
         /\ \A i \in 1 .. Len(Without(f)) : Without(f)[i][1] # f
         /\ RowOf(f) # {} => Len(Without(f)) < Len(cache)
  <1>1. cache \in Seq(CacheRow) /\ DOMAIN cache = 1 .. Len(cache) /\ Len(cache) \in Nat
    BY LenProperties DEF Sound
  <1>2. CASE RowOf(f) = {}
    BY <1>1, <1>2 DEF Without, RowOf, Sound, Among
  <1>3. CASE RowOf(f) # {}
    <2>1. PICK i \in 1 .. Len(cache) : cache[i][1] = f /\ i = CHOOSE k \in RowOf(f) : TRUE
      BY <1>1, <1>3 DEF RowOf
    <2>2. Without(f) = RemoveAt(cache, i)
      BY <1>3, <2>1 DEF Without
    <2>3. PICK rows : rows = RemoveAt(cache, i)
      OBVIOUS
    <2>4. /\ rows \in Seq(CacheRow) /\ Len(rows) = Len(cache) - 1
          /\ \A j \in 1 .. Len(cache) - 1 : rows[j] = IF j < i THEN cache[j] ELSE cache[j + 1]
      BY <1>1, <2>3, RemoveAtParts
    <2>5. ASSUME NEW j \in 1 .. Len(rows)
          PROVE  \E k \in 1 .. Len(cache) : rows[j] = cache[k] /\ k # i /\ k = IF j < i THEN j ELSE j + 1
      <3>1. CASE j < i
        BY <1>1, <2>4, <3>1
      <3>2. CASE ~ (j < i)
        <4>1. j + 1 \in 1 .. Len(cache) /\ j + 1 # i /\ j \in 1 .. Len(cache) - 1
          BY <1>1, <2>4, <3>2
        <4>. QED
          BY <2>4, <3>2, <4>1
      <3>. QED
        BY <3>1, <3>2
    <2>6. ASSUME NEW j \in 1 .. Len(rows) PROVE rows[j][1] # f
      BY <2>1, <2>5 DEF Sound
    <2>7. ASSUME NEW j \in 1 .. Len(rows), NEW l \in 1 .. Len(rows), rows[j][1] = rows[l][1]
          PROVE  j = l
      <3>1. PICK k \in 1 .. Len(cache) : rows[j] = cache[k] /\ k = IF j < i THEN j ELSE j + 1
        BY <2>5
      <3>2. PICK m \in 1 .. Len(cache) : rows[l] = cache[m] /\ m = IF l < i THEN l ELSE l + 1
        BY <2>5
      <3>3. k = m
        BY <2>7, <3>1, <3>2 DEF Sound
      <3>. QED
        BY <3>1, <3>2, <3>3
    <2>8. Sound(rows) /\ Among(rows, cache)
      BY <2>4, <2>5, <2>7 DEF Sound, Among
    <2>9. Len(rows) < Len(cache)
      BY <1>1, <2>4
    <2>. QED
      BY <1>1, <2>2, <2>3, <2>6, <2>8, <2>9
  <1>. QED
    BY <1>2, <1>3

\* A row of a family that has none goes to the warm end.
LEMMA WarmestParts ==
  ASSUME NEW rows, Sound(rows), NEW row \in CacheRow, \A i \in 1 .. Len(rows) : rows[i][1] # row[1]
  PROVE  /\ Sound(Append(rows, row)) /\ Len(Append(rows, row)) = Len(rows) + 1
         /\ \A i \in 1 .. Len(rows) + 1 :
              Append(rows, row)[i] = row \/ \E j \in 1 .. Len(rows) : Append(rows, row)[i] = rows[j]
  <1>1. PICK all : all = Append(rows, row)
    OBVIOUS
  <1>2. /\ all \in Seq(CacheRow) /\ Len(all) = Len(rows) + 1 /\ Len(rows) \in Nat
        /\ \A i \in 1 .. Len(rows) : all[i] = rows[i]
        /\ all[Len(rows) + 1] = row
    BY <1>1, AppendProperties, LenProperties DEF Sound
  <1>3. ASSUME NEW i \in 1 .. Len(rows) + 1 PROVE i = Len(rows) + 1 \/ i \in 1 .. Len(rows)
    BY <1>2
  <1>4. ASSUME NEW i \in 1 .. Len(rows) + 1, NEW j \in 1 .. Len(rows) + 1, all[i][1] = all[j][1]
        PROVE  i = j
    BY <1>2, <1>3, <1>4 DEF Sound
  <1>. QED
    BY <1>1, <1>2, <1>3, <1>4 DEF Sound

\* The rows at the warm end.
LEMMA LastRows ==
  ASSUME NEW rows, Sound(rows), NEW cap \in Nat \ {0}, Len(rows) > cap
  PROVE  LET last == SubSeq(rows, Len(rows) - cap + 1, Len(rows))
         IN  Sound(last) /\ Among(last, rows) /\ Len(last) = cap
  <1>1. rows \in Seq(CacheRow) /\ Len(rows) \in Nat
    BY LenProperties DEF Sound
  <1>2. PICK n \in Nat : n = Len(rows) - cap /\ n <= Len(rows)
    BY <1>1
  <1>3. PICK last : last = SubSeq(rows, n + 1, Len(rows))
    OBVIOUS
  <1>4. /\ last \in Seq(CacheRow) /\ Len(last) = Len(rows) - n
        /\ \A i \in 1 .. Len(rows) - n : last[i] = rows[n + i]
    BY <1>1, <1>2, <1>3, CutParts
  <1>5. Len(last) = cap
    BY <1>1, <1>2, <1>4
  <1>6. \A i \in 1 .. cap : n + i \in 1 .. Len(rows) /\ last[i] = rows[n + i]
    <2>1. Len(rows) - n = cap
      BY <1>1, <1>2
    <2>2. \A i \in 1 .. cap : n + i \in 1 .. Len(rows)
      BY <1>1, <1>2
    <2>. QED
      BY <1>4, <2>1, <2>2
  <1>7. ASSUME NEW i \in 1 .. cap, NEW j \in 1 .. cap, last[i][1] = last[j][1]
        PROVE  i = j
    <2>1. PICK k \in 1 .. Len(rows), m \in 1 .. Len(rows) : k = n + i /\ m = n + j
                                                         /\ last[i] = rows[k] /\ last[j] = rows[m]
      BY <1>6
    <2>2. k = m
      BY <1>7, <2>1 DEF Sound
    <2>. QED
      BY <2>1, <2>2
  <1>8. Sound(last) /\ Among(last, rows)
    BY <1>4, <1>5, <1>6, <1>7 DEF Sound, Among
  <1>. QED
    BY <1>2, <1>3, <1>5, <1>8

-----------------------------------------------------------------------------
(* The diagnosis: its tasks                                                *)

DiagShape ==
  /\ about \in [Caller -> Family \cup {NoFamily, "idle"}] /\ joined \in [Caller -> Caller]
  /\ task \in [Caller -> {"none", "pending", "settled"}]
  /\ call \in [Caller -> {"none", "open", "ended"}]
  /\ result \in [Caller -> Caller \cup {"null"}]
  /\ DOMAIN inFlight \subseteq Family /\ inFlight \in [DOMAIN inFlight -> Caller]
  /\ diagNow \in Nat

\* A caller that asked holds the promise of a task about its family, and a task of a family is
\* in flight exactly while it is pending.
TasksInFlight ==
  /\ \A c \in Caller : /\ about[c] = "idle" => task[c] = "none" /\ call[c] = "none" /\ joined[c] = c
                       /\ about[c] # "idle" => /\ about[joined[c]] = about[c]
                                               /\ task[joined[c]] # "none"
  /\ \A c \in Caller : task[c] = "pending" /\ about[c] \in Family =>
                         about[c] \in DOMAIN inFlight /\ inFlight[about[c]] = c
  /\ \A f \in DOMAIN inFlight : task[inFlight[f]] = "pending" /\ about[inFlight[f]] = f

\* A diagnosis is about the family of who gets it, from the call that wrote it.
TrueResults ==
  \A c \in Caller : result[c] # "null" =>
    result[c] \in Caller /\ about[c] # "idle" /\ about[result[c]] = about[c]

TrueRow(row) == about[row[2]] = row[1] /\ call[row[2]] = "ended"
TrueCache ==
  Sound(cache) /\ Len(cache) <= CacheCap /\ \A i \in 1 .. Len(cache) : TrueRow(cache[i])

DiagInv == DiagShape /\ TasksInFlight /\ TrueResults /\ TrueCache

LEMMA DiagnosisBegins == DiagInit => DiagInv
  <1>. SUFFICES ASSUME DiagInit PROVE DiagInv
    OBVIOUS
  <1>1. DOMAIN inFlight = {} /\ inFlight \in [DOMAIN inFlight -> Caller]
    BY DEF DiagInit
  <1>2. cache \in Seq(CacheRow) /\ Len(cache) = 0
    BY DEF DiagInit
  <1>3. TrueCache
    BY <1>2, DiagnosisAssumption DEF TrueCache, Sound
  <1>. QED
    BY <1>1, <1>3 DEF DiagInit, DiagInv, DiagShape, TasksInFlight, TrueResults

\* What a lookup leaves is a cache of the same rows, and what it serves is one of them.
LEMMA LookupKeeps ==
  ASSUME DiagInv, NEW f \in Family, CacheGet(f)
  PROVE  /\ Sound(cache') /\ Len(cache') <= CacheCap
         /\ \A i \in 1 .. Len(cache') : \E j \in 1 .. Len(cache) : cache'[i] = cache[j]
  <1>1. Sound(cache) /\ Len(cache) <= CacheCap /\ CacheCap \in Nat /\ Len(cache) \in Nat
        /\ DOMAIN cache = 1 .. Len(cache)
    BY DiagnosisAssumption, LenProperties DEF DiagInv, TrueCache, Sound
  <1>2. PICK rows : rows = Without(f)
    OBVIOUS
  <1>3. /\ Sound(rows) /\ Among(rows, cache) /\ Len(rows) <= Len(cache) /\ Len(rows) \in Nat
        /\ \A i \in 1 .. Len(rows) : rows[i][1] # f
        /\ RowOf(f) # {} => Len(rows) < Len(cache)
    BY <1>1, <1>2, WithoutParts, LenProperties DEF Sound
  <1>4. CASE \E row \in Cached(f) : Fresh(row)
    <2>1. PICK i \in 1 .. Len(cache) :
            cache[i][1] = f /\ cache[i] = (CHOOSE row \in Cached(f) : TRUE)
      <3>1. PICK row \in Cached(f) : row = CHOOSE r \in Cached(f) : TRUE
        BY <1>4
      <3>. QED
        BY <1>1, <3>1 DEF Cached, RowOf
    <2>2. cache[i] \in CacheRow /\ RowOf(f) # {}
      BY <1>1, <2>1, ElementOfSeq DEF Sound, RowOf
    <2>3. cache' = Append(rows, cache[i])
      BY <1>2, <1>4, <2>1 DEF CacheGet
    <2>4. /\ Sound(Append(rows, cache[i])) /\ Len(Append(rows, cache[i])) = Len(rows) + 1
          /\ \A j \in 1 .. Len(rows) + 1 :
               Append(rows, cache[i])[j] = cache[i]
               \/ \E k \in 1 .. Len(rows) : Append(rows, cache[i])[j] = rows[k]
      BY <1>3, <2>1, <2>2, WarmestParts
    <2>5. Len(rows) + 1 <= CacheCap
      BY <1>1, <1>3, <2>2
    <2>. QED
      BY <1>3, <2>3, <2>4, <2>5 DEF Among
  <1>5. CASE ~ \E row \in Cached(f) : Fresh(row)
    BY <1>1, <1>2, <1>3, <1>5 DEF CacheGet, Among
  <1>. QED
    BY <1>4, <1>5

\* A write adds the row of its call.
LEMMA WriteAdds ==
  ASSUME DiagInv, NEW f \in Family, NEW c \in Caller, CacheSet(f, c)
  PROVE  /\ Sound(cache') /\ Len(cache') <= CacheCap
         /\ \A i \in 1 .. Len(cache') : \/ cache'[i] = <<f, c, diagNow>>
                                        \/ \E j \in 1 .. Len(cache) : cache'[i] = cache[j]
  <1>1. Sound(cache) /\ CacheCap \in Nat \ {0} /\ diagNow \in Nat
    BY DiagnosisAssumption DEF DiagInv, TrueCache, DiagShape
  <1>2. PICK rows : rows = Without(f)
    OBVIOUS
  <1>3. /\ Sound(rows) /\ Among(rows, cache)
        /\ \A i \in 1 .. Len(rows) : rows[i][1] # f
    BY <1>1, <1>2, WithoutParts
  <1>4. PICK row \in CacheRow : row = <<f, c, diagNow>> /\ row[1] = f
    <2>1. <<f, c, diagNow>> \in CacheRow
      BY <1>1 DEF CacheRow
    <2>. QED
      BY <2>1
  <1>5. PICK all : all = Append(rows, row)
    OBVIOUS
  <1>6. /\ Sound(all) /\ Len(all) = Len(rows) + 1 /\ Len(all) \in Nat
        /\ \A j \in 1 .. Len(rows) + 1 : all[j] = row \/ \E k \in 1 .. Len(rows) : all[j] = rows[k]
    BY <1>3, <1>4, <1>5, WarmestParts, LenProperties DEF Sound
  <1>7. \A j \in 1 .. Len(all) : all[j] = row \/ \E k \in 1 .. Len(cache) : all[j] = cache[k]
    BY <1>3, <1>6 DEF Among
  <1>8. cache' = IF Len(all) > CacheCap THEN SubSeq(all, Len(all) - CacheCap + 1, Len(all)) ELSE all
    BY <1>2, <1>4, <1>5 DEF CacheSet
  <1>9. CASE Len(all) > CacheCap
    <2>1. PICK last : last = SubSeq(all, Len(all) - CacheCap + 1, Len(all))
      OBVIOUS
    <2>2. Sound(last) /\ Among(last, all) /\ Len(last) = CacheCap
      BY <1>1, <1>6, <1>9, <2>1, LastRows
    <2>3. cache' = last
      BY <1>8, <1>9, <2>1
    <2>4. \A j \in 1 .. Len(last) : last[j] = row \/ \E k \in 1 .. Len(cache) : last[j] = cache[k]
      BY <1>7, <2>2 DEF Among
    <2>5. Len(last) <= CacheCap
      BY <1>1, <2>2
    <2>. QED
      BY <1>4, <2>2, <2>3, <2>4, <2>5
  <1>10. CASE ~ (Len(all) > CacheCap)
    BY <1>1, <1>4, <1>6, <1>7, <1>8, <1>10
  <1>. QED
    BY <1>9, <1>10

\* Rows stay true when the calls that wrote them are over and what they were about is the same.
LEMMA RowsStayTrue ==
  ASSUME DiagInv, Sound(cache'), Len(cache') <= CacheCap,
         \A i \in 1 .. Len(cache') : \E j \in 1 .. Len(cache) : cache'[i] = cache[j],
         \A d \in Caller : call[d] = "ended" => about'[d] = about[d] /\ call'[d] = "ended"
  PROVE  TrueCache'
  <1>1. ASSUME NEW i \in 1 .. Len(cache')
        PROVE  about'[cache'[i][2]] = cache'[i][1] /\ call'[cache'[i][2]] = "ended"
    <2>1. PICK j \in 1 .. Len(cache) : cache'[i] = cache[j]
      BY <1>1
    <2>2. cache[j] \in CacheRow
      BY ElementOfSeq DEF DiagInv, TrueCache, Sound
    <2>3. cache[j][2] \in Caller
      BY <2>2 DEF CacheRow
    <2>4. about[cache[j][2]] = cache[j][1] /\ call[cache[j][2]] = "ended"
      BY DEF DiagInv, TrueCache, TrueRow
    <2>. QED
      BY <2>1, <2>3, <2>4
  <1>. QED
    BY <1>1 DEF TrueCache, TrueRow

\* The row that is served is one of the cache's.
LEMMA ServedRow ==
  ASSUME DiagInv, NEW f \in Family \cup {NoFamily}, Cached(f) # {}
  PROVE  LET d == (CHOOSE row \in Cached(f) : TRUE)[2]
         IN  d \in Caller /\ about[d] = f /\ call[d] = "ended"
  <1>1. PICK row \in Cached(f) : row = CHOOSE r \in Cached(f) : TRUE
    OBVIOUS
  <1>2. Sound(cache) /\ cache \in Seq(CacheRow) /\ DOMAIN cache = 1 .. Len(cache)
    BY LenProperties DEF DiagInv, TrueCache, Sound
  <1>3. PICK i \in 1 .. Len(cache) : row = cache[i] /\ row[1] = f
    BY <1>2 DEF Cached, RowOf
  <1>4. row \in CacheRow /\ row[2] \in Caller
    BY <1>2, <1>3, ElementOfSeq DEF CacheRow
  <1>5. TrueRow(row)
    BY <1>3 DEF DiagInv, TrueCache
  <1>. QED
    BY <1>1, <1>3, <1>4, <1>5 DEF TrueRow

LEMMA DiagnoseKeeps == ASSUME DiagInv, NEW c \in Caller, Diagnose(c) PROVE DiagInv'
  <1>1. PICK f \in Family \cup {NoFamily}, force \in BOOLEAN :
          /\ about' = [about EXCEPT ![c] = f]
          /\ IF Joins(c, f)
               THEN /\ joined' = [joined EXCEPT ![c] = inFlight[f]]
                    /\ UNCHANGED <<task, call, result, inFlight, cache>>
               ELSE /\ UNCHANGED joined
                    /\ IF f # NoFamily /\ ~ force THEN CacheGet(f) ELSE UNCHANGED cache
                    /\ IF ~ force /\ \E row \in Cached(f) : Fresh(row)
                         THEN /\ task' = [task EXCEPT ![c] = "settled"]
                              /\ result' = [result EXCEPT ![c] = (CHOOSE row \in Cached(f) : TRUE)[2]]
                              /\ UNCHANGED <<call, inFlight>>
                         ELSE /\ task' = [task EXCEPT ![c] = "pending"]
                              /\ call' = [call EXCEPT ![c] = "open"]
                              /\ inFlight' = IF f = NoFamily THEN inFlight
                                             ELSE [g \in DOMAIN inFlight \cup {f} |->
                                                     IF g = f THEN c ELSE inFlight[g]]
                              /\ UNCHANGED result
    BY DEF Diagnose
  <1>2. /\ about[c] = "idle" /\ diagNow' = diagNow /\ joined[c] = c /\ task[c] = "none" /\ call[c] = "none"
        /\ f # "idle" /\ NoFamily \notin Family
    BY DiagnosisAssumption DEF Diagnose, DiagInv, TasksInFlight
  <1>3. /\ about' \in [Caller -> Family \cup {NoFamily, "idle"}] /\ about'[c] = f
        /\ \A d \in Caller : d # c => about'[d] = about[d]
        /\ \A d \in Caller : about[d] # "idle" => d # c
    BY <1>1, <1>2 DEF DiagInv, DiagShape
  <1>4. \A d \in Caller : /\ about[d] # "idle" => joined[d] # c
                          /\ result[d] # "null" => d # c /\ result[d] # c
    BY <1>2 DEF DiagInv, TasksInFlight, TrueResults, DiagShape
  <1>5. CASE Joins(c, f)
    <2>1. f \in Family /\ f \in DOMAIN inFlight /\ inFlight[f] \in Caller
          /\ task[inFlight[f]] = "pending" /\ about[inFlight[f]] = f /\ inFlight[f] # c
      BY <1>2, <1>5 DEF Joins, DiagInv, DiagShape, TasksInFlight
    <2>2. /\ joined' = [joined EXCEPT ![c] = inFlight[f]]
          /\ UNCHANGED <<task, call, result, inFlight, cache>>
      BY <1>1, <1>5
    <2>3. DiagShape'
      BY <1>2, <1>3, <2>1, <2>2 DEF DiagInv, DiagShape
    <2>4. TasksInFlight'
      BY <1>2, <1>3, <1>4, <2>1, <2>2 DEF DiagInv, DiagShape, TasksInFlight
    <2>5. TrueResults'
      BY <1>3, <1>4, <2>2 DEF DiagInv, TrueResults
    <2>6. TrueCache'
      BY <1>2, <1>3, <2>2, RowsStayTrue DEF DiagInv, TrueCache
    <2>. QED
      BY <2>3, <2>4, <2>5, <2>6 DEF DiagInv
  <1>6. CASE ~ Joins(c, f)
    <2>1. /\ joined' = joined
          /\ IF f # NoFamily /\ ~ force THEN CacheGet(f) ELSE UNCHANGED cache
      BY <1>1, <1>6
    <2>2. /\ Sound(cache') /\ Len(cache') <= CacheCap
          /\ \A i \in 1 .. Len(cache') : \E j \in 1 .. Len(cache) : cache'[i] = cache[j]
      <3>1. CASE f # NoFamily /\ ~ force
        BY <2>1, <3>1, LookupKeeps
      <3>2. CASE ~ (f # NoFamily /\ ~ force)
        BY <2>1, <3>2 DEF DiagInv, TrueCache
      <3>. QED
        BY <3>1, <3>2
    <2>3. CASE ~ force /\ \E row \in Cached(f) : Fresh(row)
      <3>1. PICK d \in Caller : about[d] = f /\ call[d] = "ended"
                                /\ d = (CHOOSE row \in Cached(f) : TRUE)[2]
        BY <2>3, ServedRow
      <3>2. /\ task' = [task EXCEPT ![c] = "settled"] /\ result' = [result EXCEPT ![c] = d]
            /\ UNCHANGED <<call, inFlight>>
        BY <1>1, <1>6, <2>3, <3>1
      <3>3. d # c
        BY <1>2, <3>1
      <3>4. DiagShape'
        BY <1>2, <1>3, <2>1, <3>2 DEF DiagInv, DiagShape
      <3>5. TasksInFlight'
        BY <1>2, <1>3, <1>4, <2>1, <3>2 DEF DiagInv, DiagShape, TasksInFlight
      <3>6. TrueResults'
        BY <1>2, <1>3, <1>4, <3>1, <3>2, <3>3 DEF DiagInv, DiagShape, TrueResults
      <3>7. TrueCache'
        BY <1>2, <1>3, <2>2, <3>2, RowsStayTrue
      <3>. QED
        BY <3>4, <3>5, <3>6, <3>7 DEF DiagInv
    <2>4. CASE ~ (~ force /\ \E row \in Cached(f) : Fresh(row))
      <3>1. /\ task' = [task EXCEPT ![c] = "pending"] /\ call' = [call EXCEPT ![c] = "open"]
            /\ inFlight' = IF f = NoFamily THEN inFlight
                           ELSE [g \in DOMAIN inFlight \cup {f} |-> IF g = f THEN c ELSE inFlight[g]]
            /\ UNCHANGED result
        BY <1>1, <1>6, <2>4
      <3>2. /\ f # NoFamily => f \in DOMAIN inFlight' /\ inFlight'[f] = c
            /\ \A g \in DOMAIN inFlight : g \in DOMAIN inFlight' /\ inFlight'[g] = inFlight[g]
            /\ \A g \in DOMAIN inFlight' : g \in DOMAIN inFlight \/ (g = f /\ f \in Family)
        BY <1>6, <3>1 DEF Joins
      <3>3. DiagShape'
        <4>1. DOMAIN inFlight' \subseteq Family /\ inFlight' \in [DOMAIN inFlight' -> Caller]
          BY <3>1, <3>2 DEF DiagInv, DiagShape
        <4>. QED
          BY <1>2, <1>3, <2>1, <3>1, <4>1 DEF DiagInv, DiagShape
      <3>4. \A g \in DOMAIN inFlight : inFlight[g] # c /\ inFlight[g] \in Caller
        BY <1>2 DEF DiagInv, DiagShape, TasksInFlight
      <3>5. TasksInFlight'
        <4>1. \A b \in Caller : /\ about'[b] = "idle" => task'[b] = "none" /\ call'[b] = "none" /\ joined'[b] = b
                                /\ about'[b] # "idle" => /\ about'[joined'[b]] = about'[b]
                                                         /\ task'[joined'[b]] # "none"
          BY <1>2, <1>3, <1>4, <2>1, <3>1 DEF DiagInv, DiagShape, TasksInFlight
        <4>2. \A b \in Caller : task'[b] = "pending" /\ about'[b] \in Family =>
                                  about'[b] \in DOMAIN inFlight' /\ inFlight'[about'[b]] = b
          BY <1>2, <1>3, <3>1, <3>2 DEF DiagInv, DiagShape, TasksInFlight
        <4>3. \A g \in DOMAIN inFlight' : task'[inFlight'[g]] = "pending" /\ about'[inFlight'[g]] = g
          BY <1>2, <1>3, <3>1, <3>2, <3>4 DEF DiagInv, DiagShape, TasksInFlight
        <4>. QED
          BY <4>1, <4>2, <4>3 DEF TasksInFlight
      <3>6. TrueResults'
        BY <1>3, <1>4, <3>1 DEF DiagInv, TrueResults
      <3>7. TrueCache'
        <4>1. \A d \in Caller : call[d] = "ended" => about'[d] = about[d] /\ call'[d] = "ended"
          BY <1>2, <1>3, <3>1 DEF DiagInv, DiagShape
        <4>. QED
          BY <2>2, <4>1, RowsStayTrue
      <3>. QED
        BY <3>3, <3>5, <3>6, <3>7 DEF DiagInv
    <2>. QED
      BY <2>3, <2>4
  <1>. QED
    BY <1>5, <1>6

\* A task that settles leaves the map of those in flight, and the others stay.
LEMMA SettleLeaves ==
  ASSUME DiagInv, NEW c \in Caller, task[c] = "pending",
         NEW diagnosis \in {c, "null"}, Settle(c, diagnosis), UNCHANGED <<about, joined, diagNow>>,
         call' \in [Caller -> {"none", "open", "ended"}],
         \A d \in Caller : call'[d] # call[d] => call[d] # "none"
  PROVE  DiagShape' /\ TasksInFlight' /\ TrueResults'
  <1>1. /\ task' = [task EXCEPT ![c] = "settled"] /\ result' = [result EXCEPT ![c] = diagnosis]
        /\ inFlight' = [g \in {h \in DOMAIN inFlight : inFlight[h] # c} |-> inFlight[g]]
    BY DEF Settle, Leaves
  <1>2. /\ DOMAIN inFlight' = {h \in DOMAIN inFlight : inFlight[h] # c}
        /\ \A g \in DOMAIN inFlight' : inFlight'[g] = inFlight[g]
    BY <1>1
  <1>3. about[c] # "idle"
    BY DEF DiagInv, TasksInFlight
  <1>4. DiagShape'
    <2>1. DOMAIN inFlight' \subseteq Family /\ inFlight' \in [DOMAIN inFlight' -> Caller]
      BY <1>1, <1>2 DEF DiagInv, DiagShape
    <2>. QED
      BY <1>1, <2>1 DEF DiagInv, DiagShape
  <1>5. TasksInFlight'
    <2>1. \A b \in Caller : /\ about'[b] = "idle" => task'[b] = "none" /\ call'[b] = "none" /\ joined'[b] = b
                            /\ about'[b] # "idle" => /\ about'[joined'[b]] = about'[b]
                                                     /\ task'[joined'[b]] # "none"
      BY <1>1, <1>3 DEF DiagInv, DiagShape, TasksInFlight
    <2>2. \A b \in Caller : task'[b] = "pending" /\ about'[b] \in Family =>
                              about'[b] \in DOMAIN inFlight' /\ inFlight'[about'[b]] = b
      BY <1>1, <1>2 DEF DiagInv, DiagShape, TasksInFlight
    <2>3. \A g \in DOMAIN inFlight' : task'[inFlight'[g]] = "pending" /\ about'[inFlight'[g]] = g
      BY <1>1, <1>2 DEF DiagInv, DiagShape, TasksInFlight
    <2>. QED
      BY <2>1, <2>2, <2>3 DEF TasksInFlight
  <1>6. TrueResults'
    BY <1>1, <1>3 DEF DiagInv, DiagShape, TrueResults
  <1>. QED
    BY <1>4, <1>5, <1>6

LEMMA ModelAnswersKeeps == ASSUME DiagInv, NEW c \in Caller, ModelAnswers(c) PROVE DiagInv'
  <1>1. /\ call[c] = "open" /\ call' = [call EXCEPT ![c] = "ended"]
        /\ IF about[c] = NoFamily THEN UNCHANGED cache ELSE CacheSet(about[c], c)
        /\ IF task[c] = "pending" THEN Settle(c, c) ELSE UNCHANGED <<task, result, inFlight>>
        /\ UNCHANGED <<about, joined, diagNow>>
    BY DEF ModelAnswers, Pending
  <1>2. /\ call' \in [Caller -> {"none", "open", "ended"}] /\ call'[c] = "ended"
        /\ \A d \in Caller : d # c => call'[d] = call[d]
        /\ about[c] # "idle"
    BY <1>1 DEF DiagInv, DiagShape, TasksInFlight
  <1>3. DiagShape' /\ TasksInFlight' /\ TrueResults'
    <2>1. CASE task[c] = "pending"
      BY <1>1, <1>2, <2>1, SettleLeaves
    <2>2. CASE task[c] # "pending"
      BY <1>1, <1>2, <2>2 DEF DiagInv, DiagShape, TasksInFlight, TrueResults
    <2>. QED
      BY <2>1, <2>2
  <1>4. TrueCache'
    <2>1. CASE about[c] = NoFamily
      <3>1. cache' = cache
        BY <1>1, <2>1
      <3>. QED
        BY <1>1, <1>2, <3>1, RowsStayTrue DEF DiagInv, TrueCache
    <2>2. CASE about[c] # NoFamily
      <3>1. PICK f \in Family : f = about[c] /\ CacheSet(f, c)
        BY <1>1, <1>2, <2>2 DEF DiagInv, DiagShape
      <3>2. /\ Sound(cache') /\ Len(cache') <= CacheCap
            /\ \A i \in 1 .. Len(cache') : \/ cache'[i] = <<f, c, diagNow>>
                                           \/ \E j \in 1 .. Len(cache) : cache'[i] = cache[j]
        BY <3>1, WriteAdds
      <3>3. ASSUME NEW i \in 1 .. Len(cache')
        PROVE  about'[cache'[i][2]] = cache'[i][1] /\ call'[cache'[i][2]] = "ended"
        <4>1. CASE cache'[i] = <<f, c, diagNow>>
          BY <1>1, <1>2, <3>1, <4>1
        <4>2. CASE \E j \in 1 .. Len(cache) : cache'[i] = cache[j]
          <5>1. PICK j \in 1 .. Len(cache) : cache'[i] = cache[j]
            BY <4>2
          <5>2. cache[j] \in CacheRow
            BY ElementOfSeq DEF DiagInv, TrueCache, Sound
          <5>3. cache[j][2] \in Caller
            BY <5>2 DEF CacheRow
          <5>4. about[cache[j][2]] = cache[j][1] /\ call[cache[j][2]] = "ended"
            BY DEF DiagInv, TrueCache, TrueRow
          <5>. QED
            BY <1>1, <1>2, <5>1, <5>3, <5>4
        <4>. QED
          BY <3>2, <4>1, <4>2
      <3>. QED
        BY <3>2, <3>3 DEF TrueCache, TrueRow
    <2>. QED
      BY <2>1, <2>2
  <1>. QED
    BY <1>3, <1>4 DEF DiagInv

\* A call that fails, or whose caller stops waiting, writes nothing.
LEMMA NobodyAnswersKeeps ==
  ASSUME DiagInv, NEW c \in Caller, ModelFails(c) \/ TimesOut(c)
  PROVE  DiagInv'
  <1>1. /\ UNCHANGED <<about, joined, cache, diagNow>>
        /\ call' \in [Caller -> {"none", "open", "ended"}]
        /\ \A d \in Caller : call'[d] # call[d] => call[d] = "open"
        /\ (task[c] = "pending" /\ Settle(c, "null")) \/ UNCHANGED <<task, result, inFlight>>
    BY DEF ModelFails, TimesOut, Pending, DiagInv, DiagShape
  <1>2. DiagShape' /\ TasksInFlight' /\ TrueResults'
    <2>1. CASE task[c] = "pending" /\ Settle(c, "null")
      BY <1>1, <2>1, SettleLeaves
    <2>2. CASE UNCHANGED <<task, result, inFlight>>
      BY <1>1, <2>2 DEF DiagInv, DiagShape, TasksInFlight, TrueResults
    <2>. QED
      BY <1>1, <2>1, <2>2
  <1>3. TrueCache'
    BY <1>1, RowsStayTrue DEF DiagInv, DiagShape, TrueCache
  <1>. QED
    BY <1>2, <1>3 DEF DiagInv

LEMMA DiagnosisKeeps == ASSUME DiagInv, DiagNext PROVE DiagInv'
  <1>1. CASE DiagTick
    <2>1. UNCHANGED <<about, joined, task, call, result, inFlight, cache>> /\ diagNow' \in Nat
      BY <1>1 DEF DiagTick, DiagInv, DiagShape
    <2>2. DiagShape' /\ TasksInFlight' /\ TrueResults'
      BY <2>1 DEF DiagInv, DiagShape, TasksInFlight, TrueResults
    <2>3. TrueCache'
      BY <2>1 DEF DiagInv, TrueCache, TrueRow
    <2>. QED
      BY <2>2, <2>3 DEF DiagInv
  <1>. QED
    BY <1>1, DiagnoseKeeps, ModelAnswersKeeps, NobodyAnswersKeeps DEF DiagNext

LEMMA DiagnosesAreShared == DiagInv => CallersCoalesce /\ DiagnosesMatch
  <1>. SUFFICES ASSUME DiagInv PROVE CallersCoalesce /\ DiagnosesMatch
    OBVIOUS
  <1>1. CallersCoalesce
    BY DiagnosisAssumption DEF DiagInv, DiagShape, TasksInFlight, CallersCoalesce, Answered, Pending
  <1>2. \A c \in Caller :
          Answered(c) /\ result[joined[c]] # "null" => about[result[joined[c]]] = about[c]
    BY DEF DiagInv, DiagShape, TasksInFlight, TrueResults, Answered
  <1>3. DOMAIN cache = 1 .. Len(cache) /\ Range(cache) = {cache[i] : i \in 1 .. Len(cache)}
    BY LenProperties DEF DiagInv, TrueCache, Sound, Range
  <1>4. \A row \in Range(cache) : about[row[2]] = row[1] /\ call[row[2]] = "ended"
    BY <1>3 DEF DiagInv, TrueCache, TrueRow
  <1>5. ASSUME NEW f \in Family PROVE Cardinality(Cached(f)) <= 1
    <2>1. CASE Cached(f) = {}
      <3>1. Cardinality(Cached(f)) = 0
        BY <2>1, FS_EmptySet
      <3>. QED
        BY <3>1
    <2>2. CASE Cached(f) # {}
      <3>1. PICK row \in Cached(f) : TRUE
        BY <2>2
      <3>2. \A other \in Cached(f) : other = row
        BY <1>3, <3>1 DEF Cached, RowOf, DiagInv, TrueCache, Sound
      <3>3. Cached(f) = {row}
        BY <3>1, <3>2
      <3>4. Cardinality(Cached(f)) = 1
        BY <3>3, FS_Singleton
      <3>. QED
        BY <3>4
    <2>. QED
      BY <2>1, <2>2
  <1>. QED
    BY <1>1, <1>2, <1>4, <1>5 DEF DiagnosesMatch, DiagInv, TrueCache

LEMMA DiagnosisOrNot == [HostNext]_<<busy, hostServiceVars>> => DiagNext \/ UNCHANGED diagVars
  BY DEF HostNext, Diagnosing, Pruning, Capturing, Alerting, Streaming, Limiting, Reading, hostServiceVars

LEMMA PrunerOrNot == [HostNext]_<<busy, hostServiceVars>> => PrunerNext \/ UNCHANGED prunerVars
  BY DEF HostNext, Diagnosing, Pruning, Capturing, Alerting, Streaming, Limiting, Reading, hostServiceVars

\* Work that callers share is done once at a time, for any number of callers, families and
\* cycles: callers of one family wait for one model call and get a diagnosis of that family, or
\* none (diagnosis_coordinator.ts, diagnosis_cache.ts), and no two cycles of one pruner run
\* together, each caller having the outcome of one that ran after it asked (pruner.ts).
THEOREM WorkStaysShared == HostSpec => []WorkIsShared
  <1>1. HostInit => DiagInv /\ PrunerInv
    BY DiagnosisBegins, PrunerBegins DEF HostInit
  <1>2. DiagInv /\ PrunerInv /\ [HostNext]_<<busy, hostServiceVars>> => (DiagInv /\ PrunerInv)'
    <2>1. ASSUME DiagInv, UNCHANGED diagVars PROVE DiagInv'
      BY <2>1 DEF diagVars, DiagInv, DiagShape, TasksInFlight, TrueResults, TrueCache, TrueRow
    <2>2. ASSUME PrunerInv, UNCHANGED prunerVars PROVE PrunerInv'
      BY <2>2 DEF prunerVars, PrunerInv, PrunerShape, CyclesInOrder
    <2>. QED
      BY <2>1, <2>2, DiagnosisOrNot, DiagnosisKeeps, PrunerOrNot, PrunerKeeps
  <1>3. DiagInv /\ PrunerInv => WorkIsShared
    BY DiagnosesAreShared, CyclesAreOne DEF WorkIsShared
  <1>. QED
    BY <1>1, <1>2, <1>3, PTL DEF HostSpec

-----------------------------------------------------------------------------
(* The live stream                                                         *)

StreamInv ==
  /\ socket \in [Connection -> {"none", "open", "closed"}]
  /\ handler \in [Connection -> {"none", "gate", "streaming", "refused"}]
  /\ streamed \in [Connection -> Nat] /\ joinedAt \in [Connection -> Nat] /\ publishedCount \in Nat
  /\ subscribers \subseteq beating /\ beating \subseteq Connection
  /\ \A c \in Connection :
       /\ handler[c] # "none" <=> socket[c] # "none"
       /\ c \in onClose <=> handler[c] = "streaming"
       /\ c \in beating <=> handler[c] = "streaming" /\ (socket[c] = "open" \/ c \in late)
       /\ c \in late => socket[c] = "closed"
       /\ c \in subscribers => streamed[c] = publishedCount - joinedAt[c]
       /\ handler[c] \in {"none", "gate"} => streamed[c] = 0

LEMMA StreamBegins == StreamInit => StreamInv
  BY DEF StreamInit, StreamInv

LEMMA StreamKeeps == ASSUME StreamInv, StreamNext PROVE StreamInv'
  <1>1. ASSUME NEW c \in Connection, Connect(c) PROVE StreamInv'
    BY <1>1 DEF Connect, StreamInv
  <1>2. ASSUME NEW c \in Connection, GateRefuses(c) PROVE StreamInv'
    BY <1>2 DEF GateRefuses, StreamInv
  <1>3. ASSUME NEW c \in Connection, StreamEntries(c) PROVE StreamInv'
    BY <1>3 DEF StreamEntries, StreamInv
  <1>4. ASSUME NEW c \in Connection, Disconnect(c) PROVE StreamInv'
    BY <1>4 DEF Disconnect, CloseSession, StreamInv
  <1>5. CASE Publish1
    <2>1. \A c \in Connection : streamed'[c] = IF c \in subscribers THEN streamed[c] + 1 ELSE streamed[c]
      BY <1>5 DEF Publish1, StreamInv
    <2>2. streamed' \in [Connection -> Nat] /\ publishedCount' = publishedCount + 1
      BY <1>5 DEF Publish1, StreamInv
    <2>3. \A c \in Connection : /\ c \in subscribers => streamed'[c] = publishedCount' - joinedAt[c]
                                /\ handler[c] \in {"none", "gate"} => streamed'[c] = 0
      BY <2>1, <2>2 DEF StreamInv
    <2>. QED
      BY <1>5, <2>2, <2>3 DEF Publish1, StreamInv
  <1>6. CASE ClearBus
    BY <1>6 DEF ClearBus, StreamInv
  <1>. QED
    BY <1>1, <1>2, <1>3, <1>4, <1>5, <1>6 DEF StreamNext

-----------------------------------------------------------------------------
(* The token buckets of the endpoint for browser errors                    *)

Bucket == [ip : Address, tokens : Nat, last : Nat, since : Nat, allowed : Nat]

\* What a bucket allowed and still has is at most a full bucket and what was refilled since.
Fair(b) ==
  /\ b.allowed * Minute + b.tokens <= PerMinute * Minute + (b.last - b.since) * PerMinute
  /\ b.tokens <= PerMinute * Minute /\ b.last <= limitNow /\ b.since <= b.last

LimitInv ==
  /\ buckets \in Seq(Bucket) /\ waiting \subseteq Address /\ limitNow \in Nat
  /\ \A i \in 1 .. Len(buckets) : Fair(buckets[i])
  /\ \A i, j \in 1 .. Len(buckets) : buckets[i].ip = buckets[j].ip => i = j

LEMMA LimitBegins == LimitInit => LimitInv
  <1>. SUFFICES ASSUME LimitInit PROVE LimitInv
    OBVIOUS
  <1>1. buckets \in Seq(Bucket) /\ Len(buckets) = 0
    BY DEF LimitInit
  <1>. QED
    BY <1>1 DEF LimitInit, LimitInv

\* Products of naturals, as the sums of tokens need them.
LEMMA Products ==
  ASSUME NEW a \in Nat, NEW b \in Nat, NEW c \in Nat
  PROVE  /\ a * b \in Nat /\ (a + 1) * b = a * b + b
         /\ a >= b => (a - b) * c \in Nat
         /\ (a + b) * c = a * c + b * c
  OBVIOUS

\* A request at an address that is known: refilled to now, and a token less if there is one.
Consumed(b) ==
  LET r == Refilled(b)
  IN  [b EXCEPT !.last = limitNow,
                !.tokens = IF r < Minute THEN r ELSE r - Minute,
                !.allowed = IF r < Minute THEN @ ELSE @ + 1]

LEMMA ConsumeIsFair ==
  ASSUME LimitInv, NEW b \in Bucket, Fair(b)
  PROVE  Consumed(b) \in Bucket /\ Consumed(b).ip = b.ip /\ Fair(Consumed(b))
  <1>13. PICK r : r = Refilled(b)
    OBVIOUS
  <1>14. PICK t, a : /\ t = IF r < Minute THEN r ELSE r - Minute
                     /\ a = IF r < Minute THEN b.allowed ELSE b.allowed + 1
    OBVIOUS
  <1>15. PICK c : c = Consumed(b)
    OBVIOUS
  <1>16. c = [b EXCEPT !.last = limitNow, !.tokens = t, !.allowed = a]
    BY <1>13, <1>14, <1>15 DEF Consumed
  <1>1. /\ PerMinute \in Nat \ {0} /\ Minute \in Nat \ {0} /\ limitNow \in Nat
        /\ b.tokens \in Nat /\ b.last \in Nat /\ b.since \in Nat /\ b.allowed \in Nat
        /\ b.last <= limitNow /\ b.since <= b.last
    BY ClientErrorsAssumption DEF LimitInv, Bucket, Fair
  <1>2. PICK gap \in Nat : gap = limitNow - b.last
    BY <1>1
  <1>3. PICK gained \in Nat : gained = gap * PerMinute
    BY <1>1, Products
  <1>4. PICK full \in Nat : full = PerMinute * Minute
    BY <1>1, Products
  <1>5. PICK spent \in Nat : spent = b.allowed * Minute
    BY <1>1, Products
  <1>6. PICK age \in Nat : age = b.last - b.since
    BY <1>1
  <1>7. PICK refilled \in Nat : refilled = age * PerMinute
    BY <1>1, Products
  <1>8. spent + b.tokens <= full + refilled /\ b.tokens <= full
    BY <1>4, <1>5, <1>6, <1>7 DEF Fair
  <1>9. r \in Nat /\ r <= full /\ r <= b.tokens + gained
    <2>1. r = IF b.tokens + gained > full THEN full ELSE b.tokens + gained
      BY <1>2, <1>3, <1>4, <1>13 DEF Refilled
    <2>. QED
      BY <2>1, <1>1
  <1>10. (limitNow - b.since) * PerMinute = refilled + gained
    <2>1. limitNow - b.since = age + gap
      BY <1>1, <1>2, <1>6
    <2>2. (age + gap) * PerMinute = age * PerMinute + gap * PerMinute
      BY <1>1, Products
    <2>. QED
      BY <2>1, <2>2, <1>3, <1>7
  <1>11. CASE r < Minute
    <2>1. t = r /\ a = b.allowed
      BY <1>11, <1>14
    <2>2. /\ c \in Bucket /\ c.ip = b.ip /\ c.last = limitNow /\ c.since = b.since
          /\ c.tokens = r /\ c.allowed = b.allowed
      BY <2>1, <1>1, <1>9, <1>16 DEF Bucket
    <2>3. spent + r <= full + (refilled + gained)
      BY <1>8, <1>9, <1>1
    <2>. QED
      <3>1. c.allowed * Minute = spent /\ PerMinute * Minute = full
        BY <1>4, <1>5, <2>2
      <3>2. (c.last - c.since) * PerMinute = refilled + gained
        BY <1>10, <2>2
      <3>3. /\ c.allowed * Minute + c.tokens <= PerMinute * Minute + (c.last - c.since) * PerMinute
            /\ c.tokens <= PerMinute * Minute
        BY <1>9, <2>2, <2>3, <3>1, <3>2
      <3>4. c.last <= limitNow /\ c.since <= c.last
        BY <1>1, <2>2
      <3>. QED
        BY <1>15, <2>2, <3>3, <3>4 DEF Fair
  <1>12. CASE ~ (r < Minute)
    <2>1. PICK left \in Nat : left = r - Minute
      BY <1>1, <1>9, <1>12
    <2>2. PICK more \in Nat : more = b.allowed + 1
      BY <1>1
    <2>3. t = left /\ a = more
      BY <1>12, <1>14, <2>1, <2>2
    <2>4. /\ c \in Bucket /\ c.ip = b.ip /\ c.last = limitNow /\ c.since = b.since
          /\ c.tokens = left /\ c.allowed = more
      BY <2>3, <1>1, <1>16 DEF Bucket
    <2>5. more * Minute = spent + Minute
      BY <2>2, <1>1, <1>5, Products
    <2>6. (spent + Minute) + left <= full + (refilled + gained) /\ left <= full
      BY <2>1, <1>1, <1>8, <1>9
    <2>. QED
      <3>1. c.allowed * Minute = spent + Minute /\ PerMinute * Minute = full
        BY <1>4, <2>4, <2>5
      <3>2. (c.last - c.since) * PerMinute = refilled + gained
        BY <1>10, <2>4
      <3>3. /\ c.allowed * Minute + c.tokens <= PerMinute * Minute + (c.last - c.since) * PerMinute
            /\ c.tokens <= PerMinute * Minute
        BY <2>4, <2>6, <3>1, <3>2
      <3>4. c.last <= limitNow /\ c.since <= c.last
        BY <1>1, <2>4
      <3>. QED
        BY <1>15, <2>4, <3>3, <3>4 DEF Fair
  <1>. QED
    BY <1>11, <1>12, <1>15

\* An address that is not known has its first request.
LEMMA FirstIsFair ==
  ASSUME LimitInv, NEW ip \in Address,
         NEW b, b = [ip |-> ip, tokens |-> (PerMinute - 1) * Minute, last |-> limitNow,
                     since |-> limitNow, allowed |-> 1]
  PROVE  b \in Bucket /\ b.ip = ip /\ Fair(b)
  <1>1. PerMinute \in Nat \ {0} /\ Minute \in Nat \ {0} /\ limitNow \in Nat
    BY ClientErrorsAssumption DEF LimitInv
  <1>2. PICK rest \in Nat : rest = PerMinute - 1 /\ PerMinute = rest + 1
    BY <1>1
  <1>3. PICK left \in Nat : left = rest * Minute
    BY <1>1, <1>2, Products
  <1>4. PerMinute * Minute = left + Minute
    BY <1>1, <1>2, <1>3, Products
  <1>5. b = [ip |-> ip, tokens |-> left, last |-> limitNow, since |-> limitNow, allowed |-> 1]
    BY <1>2, <1>3
  <1>6. b \in Bucket
    BY <1>1, <1>5 DEF Bucket
  <1>7. /\ 1 * Minute = Minute /\ limitNow - limitNow = 0 /\ 0 * PerMinute = 0
    BY <1>1
  <1>8. Fair(b)
    BY <1>1, <1>4, <1>5, <1>7 DEF Fair
  <1>. QED
    BY <1>5, <1>6, <1>8

LEMMA LimitKeeps == ASSUME LimitInv, LimitNext PROVE LimitInv'
  <1>1. /\ Len(buckets) \in Nat /\ DOMAIN buckets = 1 .. Len(buckets)
        /\ \A i \in 1 .. Len(buckets) : buckets[i] \in Bucket
    BY LenProperties DEF LimitInv
  <1>2. CASE LimitTick
    <2>1. limitNow' \in Nat /\ limitNow <= limitNow' /\ UNCHANGED <<buckets, waiting>>
      BY <1>2 DEF LimitTick, LimitInv
    <2>2. \A i \in 1 .. Len(buckets) : buckets[i].last \in Nat /\ buckets[i].last <= limitNow
      BY <1>1 DEF LimitInv, Fair, Bucket
    <2>3. \A i \in 1 .. Len(buckets) : buckets[i].last <= limitNow'
      BY <2>1, <2>2 DEF LimitInv
    <2>. QED
      BY <2>1, <2>3 DEF LimitInv, Fair
  <1>3. ASSUME NEW ip \in Address, ReportArrives(ip) \/ Forbidden(ip) PROVE LimitInv'
    BY <1>3 DEF ReportArrives, Forbidden, LimitInv, Fair
  <1>4. ASSUME NEW ip \in Address, Handle(ip) PROVE LimitInv'
    <2>1. waiting' \subseteq Address /\ limitNow' = limitNow
      BY <1>4 DEF Handle, LimitInv
    <2>2. CASE UNCHANGED buckets
      BY <2>1, <2>2 DEF LimitInv, Fair
    <2>3. CASE TryConsume(ip)
      <3>1. buckets' = [i \in 1 .. Len(buckets) |->
                IF buckets[i].ip # ip THEN buckets[i]
                ELSE LET r == Refilled(buckets[i])
                     IN  [buckets[i] EXCEPT !.last = limitNow,
                            !.tokens = IF r < Minute THEN r ELSE r - Minute,
                            !.allowed = IF r < Minute THEN @ ELSE @ + 1]]
        BY <2>3, <1>1 DEF TryConsume
      <3>2. ASSUME NEW i \in 1 .. Len(buckets)
            PROVE  buckets'[i] \in Bucket /\ buckets'[i].ip = buckets[i].ip /\ Fair(buckets'[i])
        <4>1. Fair(buckets[i])
          BY DEF LimitInv
        <4>2. CASE buckets[i].ip # ip
          BY <1>1, <3>1, <4>1, <4>2
        <4>3. CASE buckets[i].ip = ip
          <5>1. buckets[i] \in Bucket
            BY <1>1
          <5>2. buckets'[i] = Consumed(buckets[i])
            BY <3>1, <4>3 DEF Consumed
          <5>3. PICK c : c = Consumed(buckets[i])
            OBVIOUS
          <5>4. c \in Bucket /\ c.ip = buckets[i].ip /\ Fair(c)
            BY <4>1, <5>1, <5>3, ConsumeIsFair
          <5>. QED
            BY <5>2, <5>3, <5>4
        <4>. QED
          BY <4>2, <4>3
      <3>3. buckets' \in Seq(Bucket) /\ Len(buckets') = Len(buckets)
        <4>1. PICK n \in Nat : n = Len(buckets)
          BY <1>1
        <4>2. PICK next : next = buckets'
          OBVIOUS
        <4>3. next \in [1 .. n -> Bucket]
          BY <3>1, <3>2, <4>1, <4>2
        <4>4. next \in Seq(Bucket) /\ Len(next) = n
          BY <4>1, <4>3, LenProperties
        <4>. QED
          BY <4>1, <4>2, <4>4
      <3>. QED
        BY <2>1, <3>2, <3>3 DEF LimitInv, Fair
    <2>4. CASE ~ Tracked1(ip) /\ FirstToken(ip)
      <3>1. PICK b : b = [ip |-> ip, tokens |-> (PerMinute - 1) * Minute, last |-> limitNow,
                          since |-> limitNow, allowed |-> 1]
        OBVIOUS
      <3>2. b \in Bucket /\ b.ip = ip /\ Fair(b)
        BY <3>1, FirstIsFair
      <3>3. Insert1(b)
        BY <2>4, <3>1 DEF FirstToken
      <3>4. PICK rest : rest = IF Len(buckets) >= MaxTrackedIps
                               THEN SubSeq(buckets, Len(buckets) - MaxTrackedIps + 2, Len(buckets))
                               ELSE buckets
        OBVIOUS
      <3>5. PICK n \in Nat : n <= Len(buckets) /\ rest \in Seq(Bucket) /\ Len(rest) = Len(buckets) - n
                             /\ \A i \in 1 .. Len(rest) : rest[i] = buckets[n + i]
        <4>1. CASE Len(buckets) >= MaxTrackedIps
          <5>1. PICK n \in Nat : n = Len(buckets) - MaxTrackedIps + 1 /\ n <= Len(buckets)
            BY <1>1, <4>1, ClientErrorsAssumption
          <5>2. n + 1 = Len(buckets) - MaxTrackedIps + 2
            BY <1>1, <5>1, ClientErrorsAssumption
          <5>3. rest = SubSeq(buckets, n + 1, Len(buckets))
            BY <3>4, <4>1, <5>2
          <5>4. /\ rest \in Seq(Bucket) /\ Len(rest) = Len(buckets) - n
                /\ \A i \in 1 .. Len(buckets) - n : rest[i] = buckets[n + i]
            BY <5>1, <5>3, CutParts DEF LimitInv
          <5>. QED
            BY <5>1, <5>4
        <4>2. CASE ~ (Len(buckets) >= MaxTrackedIps)
          <5>1. rest = buckets /\ 0 <= Len(buckets) /\ Len(rest) = Len(buckets) - 0
                /\ \A i \in 1 .. Len(rest) : rest[i] = buckets[0 + i]
            BY <1>1, <3>4, <4>2
          <5>. QED
            BY <5>1 DEF LimitInv
        <4>. QED
          BY <4>1, <4>2
      <3>6. \A i \in 1 .. Len(rest) : n + i \in 1 .. Len(buckets)
        BY <1>1, <3>5
      <3>7. /\ buckets' \in Seq(Bucket) /\ Len(buckets') = Len(rest) + 1 /\ Len(rest) \in Nat
            /\ \A i \in 1 .. Len(rest) : buckets'[i] = rest[i]
            /\ buckets'[Len(rest) + 1] = b
        BY <3>2, <3>3, <3>4, <3>5, AppendProperties, LenProperties DEF Insert1
      <3>8. \A i \in 1 .. Len(rest) : Fair(rest[i]) /\ rest[i].ip # ip
        BY <1>1, <2>4, <3>5, <3>6 DEF LimitInv, Tracked1
      <3>9. ASSUME NEW i \in 1 .. Len(buckets'), NEW j \in 1 .. Len(buckets'),
                   buckets'[i].ip = buckets'[j].ip
            PROVE  i = j
        <4>1. (i \in 1 .. Len(rest) \/ i = Len(rest) + 1) /\ (j \in 1 .. Len(rest) \/ j = Len(rest) + 1)
          BY <3>7
        <4>2. CASE i \in 1 .. Len(rest) /\ j \in 1 .. Len(rest)
          <5>1. PICK k \in 1 .. Len(buckets), m \in 1 .. Len(buckets) :
                  k = n + i /\ m = n + j /\ rest[i] = buckets[k] /\ rest[j] = buckets[m]
            BY <3>5, <3>6, <4>2
          <5>2. k = m
            BY <3>7, <3>9, <4>2, <5>1 DEF LimitInv
          <5>. QED
            BY <5>1, <5>2
        <4>. QED
          BY <3>2, <3>7, <3>8, <3>9, <4>1, <4>2
      <3>10. \A i \in 1 .. Len(buckets') : Fair(buckets'[i])
        BY <3>2, <3>7, <3>8
      <3>. QED
        BY <2>1, <3>7, <3>9, <3>10 DEF LimitInv, Fair
    <2>. QED
      BY <1>4, <2>2, <2>3, <2>4 DEF Handle
  <1>. QED
    BY <1>2, <1>3, <1>4 DEF LimitNext

LEMMA BudgetsHold == LimitInv => BudgetIsKept
  <1>. SUFFICES ASSUME LimitInv, NEW i \in DOMAIN buckets
                PROVE  /\ buckets[i].allowed * Minute + buckets[i].tokens
                            <= PerMinute * Minute + (buckets[i].last - buckets[i].since) * PerMinute
                       /\ buckets[i].tokens \in 0 .. PerMinute * Minute
                       /\ \A j \in DOMAIN buckets : buckets[j].ip = buckets[i].ip => j = i
    BY DEF BudgetIsKept
  <1>1. DOMAIN buckets = 1 .. Len(buckets) /\ buckets[i] \in Bucket
    BY LenProperties DEF LimitInv
  <1>2. PICK full \in Nat : full = PerMinute * Minute
    BY ClientErrorsAssumption, Products
  <1>3. buckets[i].tokens \in Nat /\ buckets[i].tokens <= full
    BY <1>1, <1>2 DEF LimitInv, Fair, Bucket
  <1>. QED
    BY <1>1, <1>2, <1>3 DEF LimitInv, Fair

\* A connection that closed after its handlers were registered is gone from both, and a
\* subscriber has got every entry since it subscribed.
LEMMA StreamsStayClean == StreamInv => StreamsAreCleaned
  BY DEF StreamInv, StreamsAreCleaned

-----------------------------------------------------------------------------
(* The profiler                                                            *)

ArmKind == [count : 1 .. MaxArms, label : Label \cup {AnyLabel}]

\* What is left of the counts of a sequence of arms, one element for each capture.
Units(as) == {u \in (DOMAIN as) \X (1 .. MaxArms) : u[2] <= as[u[1]].count}

CountOf(a) == a.count

LEMMA UnitsOf ==
  ASSUME NEW as \in Seq(ArmKind)
  PROVE  /\ IsFiniteSet(Units(as)) /\ Cardinality(Units(as)) \in Nat
         /\ \A u \in Units(as) : /\ u = <<u[1], u[2]>> /\ u[1] \in 1 .. Len(as) /\ u[2] \in 1 .. MaxArms
                                 /\ u[2] <= CountOf(as[u[1]])
         /\ \A i \in 1 .. Len(as), k \in 1 .. MaxArms :
              <<i, k>> \in Units(as) <=> k <= CountOf(as[i])
         /\ \A i \in 1 .. Len(as) : CountOf(as[i]) \in 1 .. MaxArms
  <1>1. DOMAIN as = 1 .. Len(as) /\ Len(as) \in Nat /\ \A i \in 1 .. Len(as) : as[i] \in ArmKind
    BY LenProperties
  <1>2. IsFiniteSet(1 .. Len(as)) /\ IsFiniteSet(1 .. MaxArms)
    <2>1. 1 \in Int /\ Len(as) \in Int /\ MaxArms \in Int
      BY <1>1, ProfilingAssumption
    <2>. QED
      BY <2>1, FS_Interval
  <1>3. IsFiniteSet((1 .. Len(as)) \X (1 .. MaxArms))
    BY <1>2, FS_Product
  <1>4. Units(as) = {u \in (1 .. Len(as)) \X (1 .. MaxArms) : u[2] <= CountOf(as[u[1]])}
    BY <1>1 DEF Units, CountOf
  <1>5. IsFiniteSet(Units(as))
    BY <1>3, <1>4, FS_Subset
  <1>6. Cardinality(Units(as)) \in Nat
    BY <1>5, FS_CardinalityType
  <1>7. \A u \in Units(as) : /\ u = <<u[1], u[2]>> /\ u[1] \in 1 .. Len(as) /\ u[2] \in 1 .. MaxArms
                             /\ u[2] <= CountOf(as[u[1]])
    <2>. SUFFICES ASSUME NEW u \in Units(as)
                  PROVE  /\ u = <<u[1], u[2]>> /\ u[1] \in 1 .. Len(as) /\ u[2] \in 1 .. MaxArms
                         /\ u[2] <= CountOf(as[u[1]])
      OBVIOUS
    <2>1. u \in (1 .. Len(as)) \X (1 .. MaxArms)
      BY <1>4
    <2>2. u[2] <= CountOf(as[u[1]])
      BY <1>4
    <2>3. u = <<u[1], u[2]>> /\ u[1] \in 1 .. Len(as) /\ u[2] \in 1 .. MaxArms
      <3>1. PICK S, T : S = 1 .. Len(as) /\ T = 1 .. MaxArms
        OBVIOUS
      <3>2. u \in S \X T
        BY <2>1, <3>1
      <3>3. u = <<u[1], u[2]>> /\ u[1] \in S /\ u[2] \in T
        BY <3>2
      <3>. QED
        BY <3>1, <3>3
    <2>. QED
      BY <2>2, <2>3
  <1>8. \A i \in 1 .. Len(as), k \in 1 .. MaxArms : <<i, k>> \in Units(as) <=> k <= CountOf(as[i])
    BY <1>4
  <1>9. \A i \in 1 .. Len(as) : CountOf(as[i]) \in 1 .. MaxArms
    BY <1>1 DEF ArmKind, CountOf
  <1>. QED
    BY <1>5, <1>6, <1>7, <1>8, <1>9

\* An arm adds as many captures as its count.
LEMMA AppendUnits ==
  ASSUME NEW as \in Seq(ArmKind), NEW a \in ArmKind
  PROVE  /\ Append(as, a) \in Seq(ArmKind)
         /\ Cardinality(Units(Append(as, a))) = Cardinality(Units(as)) + CountOf(a)
  <1>1. PICK n \in Nat : n = Len(as)
    BY LenProperties
  <1>2. PICK bs : bs = Append(as, a)
    OBVIOUS
  <1>3. /\ bs \in Seq(ArmKind) /\ Len(bs) = n + 1 /\ bs[n + 1] = a
        /\ \A i \in 1 .. n : bs[i] = as[i]
    BY <1>1, <1>2, AppendProperties, ZenonT(60)
  <1>4. PICK m \in 1 .. MaxArms : m = CountOf(a)
    BY DEF ArmKind, CountOf
  <1>5. PICK max \in Nat : max = MaxArms /\ m \in Nat /\ m <= max
    BY ProfilingAssumption
  <1>6. PICK new : new = {n + 1} \X (1 .. m)
    OBVIOUS
  <1>7. IsFiniteSet(new) /\ Cardinality(new) = m
    <2>1. IsFiniteSet({n + 1}) /\ Cardinality({n + 1}) = 1
      BY FS_Singleton
    <2>2. IsFiniteSet(1 .. m) /\ Cardinality(1 .. m) = m
      <3>1. m \in Int /\ 1 \in Int /\ ~ (1 > m)
        BY <1>4, <1>5
      <3>2. IsFiniteSet(1 .. m) /\ Cardinality(1 .. m) = m - 1 + 1
        BY <3>1, FS_Interval
      <3>. QED
        BY <1>5, <3>2
    <2>3. IsFiniteSet(new) /\ Cardinality(new) = 1 * m
      BY <1>6, <2>1, <2>2, FS_Product, ZenonT(60)
    <2>. QED
      BY <1>5, <2>3
  <1>8. PICK old, all : old = Units(as) /\ all = Units(bs)
    OBVIOUS
  <1>9. /\ IsFiniteSet(old) /\ Cardinality(old) \in Nat
        /\ \A u \in old : u = <<u[1], u[2]>> /\ u[1] \in 1 .. n /\ u[2] \in 1 .. max
        /\ \A i \in 1 .. n, k \in 1 .. max : <<i, k>> \in old <=> k <= CountOf(as[i])
    BY <1>1, <1>5, <1>8, UnitsOf
  <1>10. /\ \A u \in all : u = <<u[1], u[2]>> /\ u[1] \in 1 .. n + 1 /\ u[2] \in 1 .. max
         /\ \A i \in 1 .. n + 1, k \in 1 .. max : <<i, k>> \in all <=> k <= CountOf(bs[i])
    BY <1>3, <1>5, <1>8, UnitsOf
  <1>11. ASSUME NEW u \in all PROVE u \in old \cup new
    <2>1. PICK i \in 1 .. n + 1, k \in 1 .. max : u = <<i, k>> /\ k <= CountOf(bs[i])
      BY <1>10
    <2>2. CASE i = n + 1
      <3>1. k \in 1 .. m
        BY <1>3, <1>4, <1>5, <2>1, <2>2
      <3>. QED
        BY <1>6, <2>1, <2>2, <3>1
    <2>3. CASE i # n + 1
      <3>1. i \in 1 .. n
        BY <2>3
      <3>2. <<i, k>> \in old
        BY <1>3, <1>9, <2>1, <3>1
      <3>. QED
        BY <2>1, <3>2
    <2>. QED
      BY <2>2, <2>3
  <1>12. ASSUME NEW u \in old PROVE u \in all /\ u \notin new
    <2>5. u = <<u[1], u[2]>> /\ u[1] \in 1 .. n /\ u[2] \in 1 .. max
      BY <1>9
    <2>6. u[2] <= CountOf(as[u[1]])
      BY <1>9, <2>5
    <2>1. PICK i \in 1 .. n, k \in 1 .. max : u = <<i, k>> /\ k <= CountOf(as[i])
      BY <2>5, <2>6
    <2>2. i \in 1 .. n + 1 /\ i # n + 1
      OBVIOUS
    <2>3. <<i, k>> \in all
      BY <1>3, <1>10, <2>1, <2>2
    <2>4. <<i, k>> \notin new
      BY <1>6, <2>2
    <2>. QED
      BY <2>1, <2>3, <2>4
  <1>13. ASSUME NEW u \in new PROVE u \in all
    <2>1. PICK k \in 1 .. m : u = <<n + 1, k>>
      BY <1>6
    <2>2. k \in 1 .. max /\ n + 1 \in 1 .. n + 1 /\ k <= m
      BY <1>5
    <2>3. <<n + 1, k>> \in all
      BY <1>3, <1>4, <1>10, <2>2
    <2>. QED
      BY <2>1, <2>3
  <1>14. all = old \cup new /\ old \cap new = {}
    BY <1>11, <1>12, <1>13
  <1>15. Cardinality(old \cup new) = Cardinality(old) + m
    <2>1. Cardinality(old \cup new) = Cardinality(old) + Cardinality(new) - Cardinality(old \cap new)
      BY <1>7, <1>9, FS_Union
    <2>2. Cardinality(old \cap new) = 0
      BY <1>14, FS_EmptySet
    <2>3. PICK c \in Nat : c = Cardinality(old)
      BY <1>9
    <2>4. Cardinality(old \cup new) = c + m - 0
      BY <1>7, <2>1, <2>2, <2>3
    <2>. QED
      BY <1>5, <2>3, <2>4
  <1>. QED
    BY <1>2, <1>3, <1>4, <1>8, <1>14, <1>15

\* One capture fewer.
LEMMA OneLess ==
  ASSUME NEW S, IsFiniteSet(S), NEW x \in S
  PROVE  IsFiniteSet(S \ {x}) /\ Cardinality(S \ {x}) \in Nat /\ Cardinality(S) = Cardinality(S \ {x}) + 1
  <1>1. PICK c \in Nat : c = Cardinality(S)
    BY FS_CardinalityType
  <1>2. IsFiniteSet(S \ {x}) /\ Cardinality(S \ {x}) = c - 1
    BY <1>1, FS_RemoveElement
  <1>3. Cardinality(S \ {x}) \in Nat
    BY <1>2, FS_CardinalityType
  <1>. QED
    BY <1>1, <1>2, <1>3

\* An arm that has more than one capture left loses one of them.
LEMMA DecrementUnits ==
  ASSUME NEW as \in Seq(ArmKind), NEW i \in 1 .. Len(as), NEW spent \in ArmKind,
         CountOf(as[i]) = CountOf(spent) + 1, NEW bs, bs = [as EXCEPT ![i] = spent]
  PROVE  /\ bs \in Seq(ArmKind)
         /\ Cardinality(Units(as)) = Cardinality(Units(bs)) + 1
  <1>1. PICK n \in Nat : n = Len(as)
    BY LenProperties
  <1>2. i \in 1 .. n /\ DOMAIN as = 1 .. n
    BY <1>1, LenProperties
  <1>3. bs[i] = spent /\ \A j \in 1 .. n : j # i => bs[j] = as[j]
    BY <1>2
  <1>4. bs \in Seq(ArmKind) /\ Len(bs) = n
    BY <1>1, ExceptSeq, ZenonT(60)
  <1>5. PICK max \in Nat : max = MaxArms
    BY ProfilingAssumption
  <1>6. PICK m \in 1 .. max : m = CountOf(as[i])
    BY <1>5, UnitsOf
  <1>7. CountOf(spent) = m - 1
    <2>1. PICK k \in 1 .. max : k = CountOf(spent)
      BY <1>5 DEF ArmKind, CountOf
    <2>2. m = k + 1
      BY <1>6, <2>1
    <2>. QED
      BY <2>1, <2>2
  <1>8. PICK old, all : old = Units(as) /\ all = Units(bs)
    OBVIOUS
  <1>9. /\ IsFiniteSet(old)
        /\ \A u \in old : u = <<u[1], u[2]>> /\ u[1] \in 1 .. n /\ u[2] \in 1 .. max
        /\ \A j \in 1 .. n, k \in 1 .. max : <<j, k>> \in old <=> k <= CountOf(as[j])
    BY <1>1, <1>5, <1>8, UnitsOf
  <1>10. /\ \A u \in all : u = <<u[1], u[2]>> /\ u[1] \in 1 .. n /\ u[2] \in 1 .. max
         /\ \A j \in 1 .. n, k \in 1 .. max : <<j, k>> \in all <=> k <= CountOf(bs[j])
    BY <1>4, <1>5, <1>8, UnitsOf
  <1>11. <<i, m>> \in old
    <2>1. m <= m
      OBVIOUS
    <2>. QED
      BY <1>2, <1>6, <1>9, <2>1
  <1>12. ASSUME NEW j \in 1 .. n, NEW k \in 1 .. max
         PROVE  <<j, k>> \in all <=> <<j, k>> \in old \ {<<i, m>>}
    <2>1. CASE j = i
      <3>1. <<j, k>> \in all <=> k <= m - 1
        BY <1>3, <1>7, <1>10, <2>1, ZenonT(60)
      <3>2. <<j, k>> \in old <=> k <= m
        BY <1>6, <1>9, <2>1
      <3>3. k <= m - 1 <=> k <= m /\ k # m
        OBVIOUS
      <3>. QED
        BY <2>1, <3>1, <3>2, <3>3
    <2>2. CASE j # i
      BY <1>3, <1>9, <1>10, <2>2
    <2>. QED
      BY <2>1, <2>2
  <1>13. all = old \ {<<i, m>>}
    BY <1>9, <1>10, <1>12
  <1>14. Cardinality(old) = Cardinality(all) + 1
    BY <1>9, <1>11, <1>13, OneLess
  <1>. QED
    BY <1>4, <1>8, <1>14

\* An arm with one capture left leaves, and those behind it move up.
LEMMA RemoveUnits ==
  ASSUME NEW as \in Seq(ArmKind), NEW at \in 1 .. Len(as), CountOf(as[at]) = 1,
         NEW bs, bs = RemoveAt(as, at)
  PROVE  /\ bs \in Seq(ArmKind)
         /\ Cardinality(Units(as)) = Cardinality(Units(bs)) + 1
  <1>1. PICK n \in Nat : Len(as) = n + 1
    <2>1. PICK l \in Nat : l = Len(as)
      BY LenProperties
    <2>2. PICK p \in 1 .. l : p = at
      BY <2>1
    <2>3. l - 1 \in Nat /\ l = (l - 1) + 1
      BY <2>2
    <2>. QED
      BY <2>1, <2>3
  <1>21. PICK i \in 1 .. n + 1 : i = at /\ CountOf(as[i]) = 1
    BY <1>1
  <1>2. PICK max \in Nat : max = MaxArms /\ 1 \in 1 .. max
    <2>1. CountOf(as[at]) \in 1 .. MaxArms
      BY UnitsOf
    <2>. QED
      BY <2>1, ProfilingAssumption
  <1>3. /\ bs \in Seq(ArmKind) /\ Len(bs) = n
        /\ \A j \in 1 .. n : bs[j] = IF j < i THEN as[j] ELSE as[j + 1]
    <2>1. Len(bs) = Len(as) - 1
      BY RemoveAtParts
    <2>2. \A j \in 1 .. Len(as) - 1 : bs[j] = IF j < at THEN as[j] ELSE as[j + 1]
      BY RemoveAtParts
    <2>3. Len(as) - 1 = n
      BY <1>1
    <2>4. \A j \in 1 .. n : bs[j] = IF j < i THEN as[j] ELSE as[j + 1]
      BY <1>21, <2>2, <2>3
    <2>5. bs \in Seq(ArmKind)
      BY RemoveAtParts
    <2>. QED
      BY <2>1, <2>3, <2>4, <2>5
  <1>4. PICK old, all : old = Units(as) /\ all = Units(bs)
    OBVIOUS
  <1>5. /\ IsFiniteSet(old)
        /\ \A u \in old : /\ u = <<u[1], u[2]>> /\ u[1] \in 1 .. n + 1 /\ u[2] \in 1 .. max
                          /\ u[2] <= CountOf(as[u[1]])
        /\ \A j \in 1 .. n + 1, k \in 1 .. max : <<j, k>> \in old <=> k <= CountOf(as[j])
    BY <1>1, <1>2, <1>4, UnitsOf
  <1>6. /\ IsFiniteSet(all)
        /\ \A u \in all : /\ u = <<u[1], u[2]>> /\ u[1] \in 1 .. n /\ u[2] \in 1 .. max
                          /\ u[2] <= CountOf(bs[u[1]])
        /\ \A j \in 1 .. n, k \in 1 .. max : <<j, k>> \in all <=> k <= CountOf(bs[j])
    BY <1>2, <1>3, <1>4, UnitsOf
  <1>7. PICK rest : rest = old \ {<<i, 1>>}
    OBVIOUS
  <1>8. <<i, 1>> \in old
    <2>1. 1 <= CountOf(as[i])
      <3>1. 1 <= 1
        OBVIOUS
      <3>. QED
        BY <1>21, <3>1
    <2>. QED
      BY <1>1, <1>2, <1>5, <2>1
  <1>9. PICK to : to = [j \in 1 .. n |-> IF j < i THEN j ELSE j + 1]
    OBVIOUS
  <1>10. ASSUME NEW j \in 1 .. n
         PROVE  to[j] \in 1 .. n + 1 /\ to[j] # i /\ bs[j] = as[to[j]]
    <2>1. CASE j < i
      <3>1. to[j] = j /\ bs[j] = as[j]
        BY <1>3, <1>9, <2>1
      <3>2. j \in 1 .. n + 1 /\ j # i
        BY <2>1
      <3>. QED
        BY <3>1, <3>2
    <2>2. CASE ~ (j < i)
      <3>1. to[j] = j + 1 /\ bs[j] = as[j + 1]
        BY <1>3, <1>9, <2>2
      <3>2. j + 1 \in 1 .. n + 1 /\ j + 1 # i
        BY <1>1, <2>2
      <3>. QED
        BY <3>1, <3>2
    <2>. QED
      BY <2>1, <2>2
  <1>11. ASSUME NEW j \in 1 .. n, NEW k \in 1 .. n, to[j] = to[k]
         PROVE  j = k
    <2>1. (IF j < i THEN j ELSE j + 1) = (IF k < i THEN k ELSE k + 1)
      BY <1>9, <1>11
    <2>. QED
      BY <1>1, <2>1
  <1>12. ASSUME NEW k \in 1 .. n + 1, k # i
         PROVE  \E j \in 1 .. n : to[j] = k
    <2>1. CASE k < i
      <3>1. k \in 1 .. n
        BY <1>1, <2>1
      <3>. QED
        BY <1>9, <2>1, <3>1
    <2>2. CASE ~ (k < i)
      <3>1. PICK j \in 1 .. n : j = k - 1 /\ ~ (j < i) /\ j + 1 = k
        BY <1>1, <1>12, <2>2
      <3>. QED
        BY <1>9, <3>1
    <2>. QED
      BY <2>1, <2>2
  <1>13. PICK f : f = [u \in all |-> <<to[u[1]], u[2]>>]
    OBVIOUS
  <1>14. ASSUME NEW u \in all
         PROVE  f[u] \in rest /\ f[u] = <<to[u[1]], u[2]>>
    <2>1. u[1] \in 1 .. n /\ u[2] \in 1 .. max /\ u[2] <= CountOf(bs[u[1]])
      BY <1>6
    <2>2. PICK j \in 1 .. n + 1 : j = to[u[1]] /\ j # i /\ bs[u[1]] = as[j]
      BY <1>10, <2>1
    <2>3. <<j, u[2]>> \in old
      BY <1>5, <2>1, <2>2
    <2>4. <<j, u[2]>> # <<i, 1>>
      BY <2>2
    <2>. QED
      BY <1>7, <1>13, <2>2, <2>3, <2>4
  <1>15. f \in [all -> rest]
    BY <1>13, <1>14
  <1>16. ASSUME NEW u \in all, NEW v \in all, f[u] = f[v]
         PROVE  u = v
    <2>1. u = <<u[1], u[2]>> /\ v = <<v[1], v[2]>> /\ u[1] \in 1 .. n /\ v[1] \in 1 .. n
      BY <1>6
    <2>2. to[u[1]] = to[v[1]] /\ u[2] = v[2]
      BY <1>14, <1>16
    <2>3. u[1] = v[1]
      BY <1>11, <2>1, <2>2
    <2>. QED
      BY <2>1, <2>2, <2>3
  <1>17. ASSUME NEW u \in rest
         PROVE  \E v \in all : f[v] = u
    <2>1. /\ u = <<u[1], u[2]>> /\ u[1] \in 1 .. n + 1 /\ u[2] \in 1 .. max
          /\ u[2] <= CountOf(as[u[1]]) /\ u # <<i, 1>>
      BY <1>5, <1>7
    <2>2. u[1] # i
      <3>1. SUFFICES ASSUME u[1] = i PROVE u[2] = 1
        BY <2>1
      <3>2. u[2] <= 1
        BY <1>21, <2>1, <3>1
      <3>. QED
        BY <2>1, <3>2
    <2>6. PICK j \in 1 .. n : to[j] = u[1]
      BY <1>12, <2>1, <2>2
    <2>3. to[j] = u[1] /\ bs[j] = as[u[1]]
      BY <1>10, <2>6
    <2>4. <<j, u[2]>> \in all
      BY <1>6, <2>1, <2>3
    <2>5. f[<<j, u[2]>>] = <<u[1], u[2]>>
      BY <1>14, <2>3, <2>4
    <2>. QED
      BY <2>1, <2>4, <2>5
  <1>18. f \in Bijection(all, rest)
    BY <1>15, <1>16, <1>17 DEF Bijection, Injection, Surjection, IsInjective
  <1>19. Cardinality(rest) = Cardinality(all)
    BY <1>6, <1>18, FS_Bijection DEF ExistsBijection
  <1>20. Cardinality(old) = Cardinality(rest) + 1
    BY <1>5, <1>7, <1>8, OneLess
  <1>. QED
    BY <1>3, <1>4, <1>19, <1>20

Manual == {r \in Profiled : reason[r] = "manual"}

ProfShape ==
  /\ arms \in Seq(ArmKind)
  /\ capture \in [Profiled -> {"none", "refused", "open", "ending", "dropped", "ended"}]
  /\ reason \in [Profiled -> {"manual", "sampled"}]
  /\ session \in [Profiled -> {"none", "connected", "failed", "running", "stopping", "disconnected"}]

\* Where a capture is and what its session does go together.
SessionsFollow ==
  \A r \in Profiled :
    /\ capture[r] = "none" => session[r] = "none" /\ reason[r] = "sampled"
    /\ r \in starting => /\ capture[r] \in {"open", "ending", "dropped"}
                         /\ session[r] \in {"none", "connected"}
    /\ session[r] = "connected" => r \in starting
    /\ capture[r] = "dropped" => ~ service
    /\ session[r] = "running" => capture[r] \in {"open", "ending", "dropped"}
    /\ session[r] = "stopping" => capture[r] = "ending"
    /\ r \in kept => session[r] = "disconnected" /\ capture[r] = "ended"

SlotsCounted ==
  /\ IsFiniteSet(Holding) /\ active = Cardinality(Holding) /\ active <= MaxConcurrent

CapturesCounted ==
  /\ IsFiniteSet(Manual) /\ armed = Cardinality(Manual) + Cardinality(Units(arms))

ProfInv ==
  /\ ProfShape /\ SessionsFollow /\ SlotsCounted /\ CapturesCounted
  /\ starting \subseteq Profiled /\ kept \subseteq Profiled

LEMMA ProfBegins == ProfInit => ProfInv
  <1>. SUFFICES ASSUME ProfInit PROVE ProfInv
    OBVIOUS
  <1>1. ProfShape /\ SessionsFollow /\ starting \subseteq Profiled /\ kept \subseteq Profiled
    BY DEF ProfInit, ProfShape, SessionsFollow
  <1>2. Holding = {} /\ Manual = {}
    BY DEF ProfInit, Holding, Manual
  <1>3. Units(arms) = {}
    BY DEF ProfInit, Units
  <1>4. IsFiniteSet({}) /\ Cardinality({}) = 0
    BY FS_EmptySet
  <1>5. SlotsCounted
    BY <1>2, <1>4, ProfilingAssumption DEF ProfInit, SlotsCounted
  <1>6. CapturesCounted
    BY <1>2, <1>3, <1>4, SMTT(30) DEF ProfInit, CapturesCounted
  <1>. QED
    BY <1>1, <1>5, <1>6 DEF ProfInv

\* begin() of a request that an arm selects, or sampling.
LEMMA SpendKeepsCount ==
  ASSUME ProfInv, NEW i \in DOMAIN arms, Spend(i)
  PROVE  /\ arms' \in Seq(ArmKind)
         /\ Cardinality(Units(arms)) = Cardinality(Units(arms')) + 1
         /\ Cardinality(Units(arms')) \in Nat
  <1>1. arms \in Seq(ArmKind) /\ i \in 1 .. Len(arms)
    BY LenProperties DEF ProfInv, ProfShape
  <1>2. PICK bs : bs = arms'
    OBVIOUS
  <1>3. CASE arms[i].count = 1
    <2>1. bs = RemoveAt(arms, i) /\ CountOf(arms[i]) = 1
      BY <1>2, <1>3 DEF Spend, CountOf
    <2>2. bs \in Seq(ArmKind) /\ Cardinality(Units(arms)) = Cardinality(Units(bs)) + 1
      BY <1>1, <2>1, RemoveUnits
    <2>. QED
      BY <1>2, <2>2, UnitsOf
  <1>4. CASE arms[i].count # 1
    <2>8. PICK max \in Nat : max = MaxArms
      BY ProfilingAssumption
    <2>1. PICK m \in 1 .. max : m = arms[i].count /\ m # 1
      <3>1. arms[i] \in ArmKind
        BY <1>1, ElementOfSeq
      <3>. QED
        BY <1>4, <2>8, <3>1 DEF ArmKind
    <2>2. PICK k \in 1 .. max : k = m - 1 /\ m = k + 1
      BY <2>1
    <2>3. PICK spent : spent = [arms[i] EXCEPT !.count = k]
      OBVIOUS
    <2>4. arms[i] \in ArmKind
      BY <1>1, ElementOfSeq
    <2>5. spent \in ArmKind /\ CountOf(spent) = k /\ CountOf(arms[i]) = k + 1
      BY <2>1, <2>2, <2>3, <2>4, <2>8 DEF ArmKind, CountOf
    <2>6. bs = [arms EXCEPT ![i] = spent]
      BY <1>2, <1>4, <2>1, <2>2, <2>3 DEF Spend
    <2>7. bs \in Seq(ArmKind) /\ Cardinality(Units(arms)) = Cardinality(Units(bs)) + 1
      BY <1>1, <2>5, <2>6, DecrementUnits
    <2>. QED
      BY <1>2, <2>7, UnitsOf
  <1>. QED
    BY <1>3, <1>4

LEMMA ArmKeeps == ASSUME ProfInv, Arm PROVE ProfInv'
  <1>1. PICK n \in 1 .. MaxArms, l \in Label \cup {AnyLabel} :
          /\ arms' = Append(arms, [count |-> n, label |-> l]) /\ armed' = armed + n
          /\ UNCHANGED <<active, capture, route, reason, session, starting, service, kept>>
    BY DEF Arm
  <1>2. PICK a : a = [count |-> n, label |-> l]
    OBVIOUS
  <1>11. a \in ArmKind /\ CountOf(a) = n
    BY <1>2 DEF ArmKind, CountOf
  <1>3. PICK bs : bs = arms' /\ bs = Append(arms, a)
    BY <1>1, <1>2
  <1>4. /\ bs \in Seq(ArmKind) /\ Cardinality(Units(bs)) = Cardinality(Units(arms)) + n
    BY <1>3, <1>11, AppendUnits DEF ProfInv, ProfShape
  <1>5. Cardinality(Units(arms)) \in Nat
    BY UnitsOf DEF ProfInv, ProfShape
  <1>6. IsFiniteSet(Manual) /\ Cardinality(Manual) \in Nat
        /\ armed = Cardinality(Manual) + Cardinality(Units(arms))
    BY FS_CardinalityType DEF ProfInv, CapturesCounted
  <1>7. n \in Nat
    BY ProfilingAssumption
  <1>8. Manual' = Manual /\ Holding' = Holding
    BY <1>1 DEF Manual, Holding
  <1>9. CapturesCounted'
    BY <1>1, <1>3, <1>4, <1>5, <1>6, <1>7, <1>8 DEF CapturesCounted
  <1>10. SlotsCounted'
    BY <1>1, <1>8 DEF ProfInv, SlotsCounted
  <1>. QED
    BY <1>1, <1>3, <1>4, <1>9, <1>10 DEF ProfInv, ProfShape, SessionsFollow

LEMMA ArrivalKeeps == ASSUME ProfInv, NEW r \in Profiled, ProfiledArrives(r) PROVE ProfInv'
  <1>1. capture[r] = "none" /\ session[r] = "none" /\ r \notin starting /\ reason[r] = "sampled"
        /\ r \notin kept
    BY DEF ProfiledArrives, ProfInv, SessionsFollow
  <1>2. PICK arm \in SUBSET (DOMAIN arms) : arm = MatchingArm(route'[r])
    BY DEF MatchingArm
  <1>3. CASE Refused(r)
    <2>1. Holding' = Holding /\ Manual' = Manual
      BY <1>1, <1>3 DEF Refused, Holding, Manual, ProfInv, ProfShape
    <2>2. SlotsCounted' /\ CapturesCounted'
      BY <1>3, <2>1 DEF Refused, ProfInv, SlotsCounted, CapturesCounted
    <2>3. ProfShape' /\ SessionsFollow'
      BY <1>1, <1>3 DEF Refused, ProfInv, ProfShape, SessionsFollow
    <2>. QED
      BY <1>3, <2>2, <2>3 DEF Refused, ProfInv
  <1>4. CASE Opened(r)
    <2>1. /\ active < MaxConcurrent /\ active' = active + 1 /\ capture' = [capture EXCEPT ![r] = "open"]
          /\ starting' = starting \cup {r} /\ UNCHANGED <<armed, service, kept>>
          /\ session' = [session EXCEPT ![r] = "connected"] \/ session' = session
      BY <1>4 DEF Opened, Connects
    <2>2. reason' = [reason EXCEPT ![r] = IF arm = {} THEN "sampled" ELSE "manual"]
      BY <1>2, <1>4 DEF Opened
    <2>3. SlotsCounted'
      <3>1. Holding' = Holding \cup {r} /\ r \notin Holding
        BY <1>1, <2>1 DEF Holding, ProfInv, ProfShape
      <3>2. IsFiniteSet(Holding \cup {r}) /\ Cardinality(Holding \cup {r}) = Cardinality(Holding) + 1
        BY <3>1, FS_AddElement DEF ProfInv, SlotsCounted
      <3>3. active \in Nat /\ active = Cardinality(Holding)
        BY FS_CardinalityType DEF ProfInv, SlotsCounted
      <3>4. active + 1 <= MaxConcurrent
        BY <2>1, <3>3, ProfilingAssumption
      <3>. QED
        BY <2>1, <3>1, <3>2, <3>3, <3>4 DEF SlotsCounted
    <2>4. CapturesCounted' /\ arms' \in Seq(ArmKind)
      <3>1. CASE arm = {}
        <4>1. arms' = arms
          BY <1>2, <1>4, <3>1 DEF Opened
        <4>2. Manual' = Manual
          BY <1>1, <2>2, <3>1 DEF Manual, ProfInv, ProfShape
        <4>. QED
          BY <2>1, <4>1, <4>2 DEF ProfInv, ProfShape, CapturesCounted
      <3>2. CASE arm # {}
        <4>1. PICK i \in arm : Spend(i)
          BY <1>2, <1>4, <3>2 DEF Opened
        <4>2. /\ arms' \in Seq(ArmKind)
              /\ Cardinality(Units(arms)) = Cardinality(Units(arms')) + 1
              /\ Cardinality(Units(arms')) \in Nat
          BY <4>1, SpendKeepsCount
        <4>3. Manual' = Manual \cup {r} /\ r \notin Manual
          BY <1>1, <2>2, <3>2 DEF Manual, ProfInv, ProfShape
        <4>4. IsFiniteSet(Manual) /\ Cardinality(Manual) \in Nat
          BY FS_CardinalityType DEF ProfInv, CapturesCounted
        <4>5. IsFiniteSet(Manual \cup {r}) /\ Cardinality(Manual \cup {r}) = Cardinality(Manual) + 1
          BY <4>3, <4>4, FS_AddElement
        <4>6. armed' = Cardinality(Manual) + Cardinality(Units(arms))
          BY <2>1 DEF ProfInv, CapturesCounted
        <4>7. armed' = Cardinality(Manual') + Cardinality(Units(arms'))
          BY <4>2, <4>3, <4>4, <4>5, <4>6
        <4>. QED
          BY <4>2, <4>3, <4>5, <4>7 DEF CapturesCounted
      <3>. QED
        BY <3>1, <3>2
    <2>5. ProfShape'
      BY <2>1, <2>2, <2>4 DEF ProfInv, ProfShape
    <2>6. SessionsFollow'
      BY <1>1, <2>1, <2>2 DEF ProfInv, ProfShape, SessionsFollow
    <2>. QED
      BY <2>1, <2>3, <2>4, <2>5, <2>6 DEF ProfInv
  <1>. QED
    BY <1>3, <1>4 DEF ProfiledArrives

\* The end of a capture that holds a slot gives it back.
LEMMA GiveBackFreesSlot ==
  ASSUME ProfInv, NEW r \in Profiled, capture[r] = "ending",
         capture' = [capture EXCEPT ![r] = "ended"], NEW recorded, GiveBack(recorded)
  PROVE  SlotsCounted'
  <1>1. r \in Holding /\ Holding' = Holding \ {r}
    BY DEF Holding, ProfInv, ProfShape
  <1>2. IsFiniteSet(Holding) /\ active = Cardinality(Holding) /\ active <= MaxConcurrent /\ active \in Nat
    BY FS_CardinalityType DEF ProfInv, SlotsCounted
  <1>3. IsFiniteSet(Holding \ {r}) /\ Cardinality(Holding \ {r}) = active - 1
    BY <1>1, <1>2, FS_RemoveElement
  <1>4. active - 1 \in Nat
    BY <1>3, FS_CardinalityType
  <1>5. active' = active - 1 /\ active - 1 <= MaxConcurrent
    BY <1>2, <1>4, ProfilingAssumption DEF GiveBack
  <1>. QED
    BY <1>1, <1>3, <1>5 DEF SlotsCounted

LEMMA ProfKeeps == ASSUME ProfInv, ProfNext PROVE ProfInv'
  <1>1. CASE ProfilerLeaves
    <2>1. Holding' = Holding /\ Manual' = Manual
      BY <1>1 DEF ProfilerLeaves, Holding, Manual
    <2>. QED
      BY <1>1, <2>1 DEF ProfilerLeaves, ProfInv, ProfShape, SessionsFollow, SlotsCounted, CapturesCounted
  <1>2. ASSUME NEW r \in Profiled, StartSettles(r) PROVE ProfInv'
    <2>1. Holding' = Holding /\ Manual' = Manual
      BY <1>2 DEF StartSettles, Holding, Manual
    <2>2. SlotsCounted' /\ CapturesCounted'
      BY <1>2, <2>1 DEF StartSettles, ProfInv, SlotsCounted, CapturesCounted
    <2>. QED
      BY <1>2, <2>2 DEF StartSettles, ProfInv, ProfShape, SessionsFollow
  <1>3. ASSUME NEW r \in Profiled, RequestEnds(r) PROVE ProfInv'
    <2>1. Holding' = Holding /\ Manual' = Manual
      BY <1>3 DEF RequestEnds, Holding, Manual, ProfInv, ProfShape
    <2>2. SlotsCounted' /\ CapturesCounted'
      BY <1>3, <2>1 DEF RequestEnds, ProfInv, SlotsCounted, CapturesCounted
    <2>. QED
      BY <1>3, <2>2 DEF RequestEnds, ProfInv, ProfShape, SessionsFollow
  <1>4. ASSUME NEW r \in Profiled, StopAsked(r) PROVE ProfInv'
    <2>1. Holding' = Holding /\ Manual' = Manual
      BY <1>4 DEF StopAsked, Holding, Manual
    <2>2. SlotsCounted' /\ CapturesCounted'
      BY <1>4, <2>1 DEF StopAsked, ProfInv, SlotsCounted, CapturesCounted
    <2>. QED
      BY <1>4, <2>2 DEF StopAsked, ProfInv, ProfShape, SessionsFollow
  <1>5. ASSUME NEW r \in Profiled, EndsWithoutProfile(r) PROVE ProfInv'
    <2>1. SlotsCounted'
      BY <1>5, GiveBackFreesSlot DEF EndsWithoutProfile
    <2>2. Manual' = Manual
      BY <1>5 DEF EndsWithoutProfile, Manual
    <2>3. CapturesCounted'
      BY <1>5, <2>2 DEF EndsWithoutProfile, ProfInv, CapturesCounted
    <2>. QED
      BY <1>5, <2>1, <2>3 DEF EndsWithoutProfile, ProfInv, ProfShape, SessionsFollow
  <1>6. ASSUME NEW r \in Profiled, ProfileArrives(r) PROVE ProfInv'
    <2>1. capture[r] = "ending" /\ r \notin starting
      BY <1>6 DEF ProfileArrives, ProfInv, SessionsFollow
    <2>2. PICK recorded \in BOOLEAN : GiveBack(recorded)
      BY <1>6 DEF ProfileArrives
    <2>3. SlotsCounted'
      BY <1>6, <2>1, <2>2, GiveBackFreesSlot DEF ProfileArrives
    <2>4. Manual' = Manual
      BY <1>6 DEF ProfileArrives, Manual
    <2>5. CapturesCounted'
      BY <1>6, <2>4 DEF ProfileArrives, ProfInv, CapturesCounted
    <2>6. kept' \subseteq kept \cup {r}
      BY <1>6 DEF ProfileArrives
    <2>. QED
      BY <1>6, <2>1, <2>3, <2>5, <2>6 DEF ProfileArrives, ProfInv, ProfShape, SessionsFollow
  <1>. QED
    BY <1>1, <1>2, <1>3, <1>4, <1>5, <1>6, ArmKeeps, ArrivalKeeps DEF ProfNext

LEMMA SlotsAndArmsHold == ProfInv => SlotsAreGivenBack /\ ArmedIsCaptured
  <1>. SUFFICES ASSUME ProfInv PROVE SlotsAreGivenBack /\ ArmedIsCaptured
    OBVIOUS
  <1>1. SlotsAreGivenBack
    <2>1. ASSUME NEW r \in Profiled
          PROVE  /\ capture[r] = "ended" => session[r] \in {"none", "failed", "disconnected"}
                 /\ capture[r] = "dropped" => ~ service
      <3>1. session[r] \in {"none", "connected", "failed", "running", "stopping", "disconnected"}
        BY DEF ProfInv, ProfShape
      <3>. QED
        BY <3>1 DEF ProfInv, SessionsFollow
    <2>2. kept \subseteq {r \in Profiled : session[r] = "disconnected" /\ capture[r] = "ended"}
      BY DEF ProfInv, SessionsFollow
    <2>. QED
      BY <2>1, <2>2 DEF ProfInv, SlotsCounted, SlotsAreGivenBack
  <1>2. Units(arms) = Unspent
    BY DEF Units, Unspent
  <1>. QED
    BY <1>1, <1>2 DEF ProfInv, CapturesCounted, ArmedIsCaptured, Manual

LEMMA StreamsOrNot == [HostNext]_<<busy, hostServiceVars>> => StreamNext \/ UNCHANGED streamVars
  BY DEF HostNext, Diagnosing, Pruning, Capturing, Alerting, Streaming, Limiting, Reading, hostServiceVars

LEMMA LimitsOrNot == [HostNext]_<<busy, hostServiceVars>> => LimitNext \/ UNCHANGED limitVars
  BY DEF HostNext, Diagnosing, Pruning, Capturing, Alerting, Streaming, Limiting, Reading, hostServiceVars

LEMMA CapturesOrNot == [HostNext]_<<busy, hostServiceVars>> => ProfNext \/ UNCHANGED profVars
  BY DEF HostNext, Diagnosing, Pruning, Capturing, Alerting, Streaming, Limiting, Reading, hostServiceVars

\* What is taken is given back or kept within its bound, for any requests, arms, connections
\* and addresses: the slot of a capture whatever became of its session, the session but of a
\* start that failed, what was armed by hand (profiler_service.ts, cpu-profiler.ts), subscribers
\* and heartbeats of a connection but one closed before its handler went on
\* (stream_handler.ts), and the tokens of an address however its reports are spread over time
\* (rate_limiter.ts).
THEOREM TakenStaysReturned == HostSpec => []TakenIsReturned
  <1>1. HostInit => StreamInv /\ LimitInv /\ ProfInv
    BY StreamBegins, LimitBegins, ProfBegins DEF HostInit
  <1>2. StreamInv /\ LimitInv /\ ProfInv /\ [HostNext]_<<busy, hostServiceVars>>
          => (StreamInv /\ LimitInv /\ ProfInv)'
    <2>1. ASSUME StreamInv, UNCHANGED streamVars PROVE StreamInv'
      BY <2>1 DEF streamVars, StreamInv
    <2>2. ASSUME LimitInv, UNCHANGED limitVars PROVE LimitInv'
      BY <2>2 DEF limitVars, LimitInv, Fair
    <2>3. ASSUME ProfInv, UNCHANGED profVars PROVE ProfInv'
      BY <2>3 DEF profVars, ProfInv, ProfShape, SessionsFollow, SlotsCounted, CapturesCounted, Holding,
                  Manual
    <2>. QED
      BY <2>1, <2>2, <2>3, StreamsOrNot, StreamKeeps, LimitsOrNot, LimitKeeps, CapturesOrNot, ProfKeeps
  <1>3. StreamInv /\ LimitInv /\ ProfInv => TakenIsReturned
    BY StreamsStayClean, BudgetsHold, SlotsAndArmsHold DEF TakenIsReturned
  <1>. QED
    BY <1>1, <1>2, <1>3, PTL DEF HostSpec

-----------------------------------------------------------------------------
(* The files of the cold tier                                              *)

Gathering == {"ensure", "stat", "fetch", "write", "rename"}

WorkState == [step : Gathering \cup {"idle", "scan", "evict", "ended", "failed", "publish", "delete"},
              files : SUBSET Name, todo : SUBSET Name, at : Nat, paths : SUBSET Name,
              rows : SUBSET (1 .. Inputs), retried : BOOLEAN]

CopyState == {"none", "partial", "full"}

ColdShape ==
  /\ engine \in [name : {"hyparquet", "duckdb"}, remote : BOOLEAN, budget : Nat]
  /\ work \in [Task -> WorkState] /\ copies \in [Name -> CopyState] /\ temps \in [Name -> CopyState]
  /\ lru \in Seq(Name) /\ bytes \in Nat /\ evicted \in BOOLEAN /\ putting \subseteq 1 .. Inputs
  /\ DOMAIN stored \subseteq Name
  /\ \A f \in DOMAIN stored : stored[f] \subseteq 1 .. Inputs /\ (f # Merged => stored[f] = {f})

\* What is left to do and what was found are of the files that were listed, and the merged file
\* is listed only once it is there.
Linked(w, st) ==
  /\ w.todo \subseteq w.files /\ w.paths \subseteq w.files
  /\ Merged \in w.files => Merged \in DOMAIN st
  /\ w.step \in {"stat", "fetch", "write", "rename"} => w.at \in w.files

\* The cache believes to hold at least what it knows, and is within its budget, or down to one
\* copy, unless a task is evicting.
CacheIsBounded ==
  /\ Len(lru) <= bytes
  /\ (\A t \in Task : work[t].step # "evict") => Len(lru) <= 1 \/ bytes <= engine.budget

\* A task has, or still goes to, every file it listed that is there.
Covers(w, st, cp, en) ==
  /\ w.step \in Gathering =>
       \A f \in w.files : f \in DOMAIN st => f \in w.todo \/ f \in w.paths
  /\ w.step = "scan" /\ en.name = "duckdb" =>
       \A f \in w.files : f \in DOMAIN st => f \in w.paths
  /\ w.step = "scan" /\ en.name = "hyparquet" =>
       \A f \in w.files : f \in DOMAIN st => f \in w.todo \/ st[f] \subseteq w.rows
  /\ w.step = "ended" => \A f \in w.files : f \in DOMAIN st => st[f] \subseteq w.rows
  /\ en.name = "duckdb" /\ en.remote /\ w.step \in Gathering \cup {"scan"} =>
       \A f \in w.paths : cp[f] # "none"

\* Until the merged file is there a compaction's inputs are, and it holds their rows then.
Merges(w, st, pending) ==
  /\ w.step \in Gathering \cup {"scan", "ended", "publish"} =>
       w.files # {} /\ w.files \subseteq DOMAIN st /\ Merged \notin DOMAIN st
  /\ w.step = "publish" => w.files \subseteq pending
  /\ w.step = "delete" => Merged \in DOMAIN st /\ w.files \subseteq st[Merged]

NothingIsLost ==
  /\ \A t \in Task : work[t].step # "evict" /\ Covers(work[t], stored, copies, engine)
  /\ \A i \in 1 .. Len(lru) : copies[lru[i]] # "none"
  /\ Merges(work["compact"], stored, putting)
  /\ \A i \in 1 .. Inputs : i \in DOMAIN stored \/ (Merged \in DOMAIN stored /\ i \in stored[Merged])

ColdInv ==
  /\ ColdShape /\ CacheIsBounded /\ work["compact"].files \subseteq Batch
  /\ \A t \in Task : Linked(work[t], stored)
  /\ ~ evicted => NothingIsLost

LEMMA LowestIsIn == ASSUME NEW S \in SUBSET Nat, S # {} PROVE LowestOf(S) \in S
  <1>1. PICK T : T = {0 - x : x \in S}
    OBVIOUS
  <1>2. T \in SUBSET Int /\ T # {} /\ \A y \in T : y <= 0
    <2>1. \A x \in S : 0 - x \in Int /\ 0 - x <= 0
      OBVIOUS
    <2>2. T # {}
      BY <1>1
    <2>3. \A y \in T : \E x \in S : y = 0 - x
      BY <1>1
    <2>. QED
      BY <2>1, <2>2, <2>3
  <1>3. Max(T) \in T /\ \A y \in T : y <= Max(T)
    BY <1>2, BoundedHasMax
  <1>4. PICK x \in S : Max(T) = 0 - x
    BY <1>1, <1>3
  <1>5. ASSUME NEW y \in S PROVE x <= y
    <2>1. 0 - y <= 0 - x
      BY <1>1, <1>3, <1>4
    <2>. QED
      BY <2>1
  <1>. QED
    BY <1>5 DEF LowestOf

\* What a task covers it still covers when files it listed are deleted and copies appear.
LEMMA CoversStays ==
  ASSUME NEW w, NEW st, NEW st2, NEW cp, NEW cp2, NEW en, Covers(w, st, cp, en),
         \A f \in w.files : f \in DOMAIN st2 => f \in DOMAIN st /\ st2[f] = st[f],
         \A f \in w.paths : cp[f] # "none" => cp2[f] # "none"
  PROVE  Covers(w, st2, cp2, en)
  BY DEF Covers

LEMMA NamesAreNatural == Inputs \in Nat /\ Merged \in Name /\ Name \subseteq Nat
                         /\ \A f \in Name : f # Merged => f \in 1 .. Inputs
                         /\ Merged \notin 1 .. Inputs /\ 1 .. Inputs \subseteq Name
  BY ColdFilesAssumption DEF Merged, Name

\* A task goes on; the files of the location stay as they are.
LEMMA TaskMoves ==
  ASSUME ColdInv, NEW t \in Task, NEW w \in WorkState, work' = [work EXCEPT ![t] = w],
         UNCHANGED <<engine, stored>>, evicted' \in BOOLEAN, evicted => evicted',
         copies' \in [Name -> CopyState], temps' \in [Name -> CopyState],
         putting' \subseteq 1 .. Inputs, lru' \in Seq(Name), bytes' \in Nat, CacheIsBounded',
         Linked(w, stored), t = "compact" => w.files \subseteq Batch,
         ~ evicted' => /\ w.step # "evict" /\ Covers(w, stored, copies', engine)
                       /\ \A f \in Name : copies[f] # "none" => copies'[f] # "none"
                       /\ \A i \in 1 .. Len(lru') : copies'[lru'[i]] # "none"
                       /\ t = "compact" => Merges(w, stored, putting')
                       /\ t # "compact" => putting' = putting
  PROVE  ColdInv'
  <1>1. work'[t] = w /\ \A u \in Task : u # t => work'[u] = work[u]
    BY DEF ColdInv, ColdShape
  <1>2. ColdShape'
    BY DEF ColdInv, ColdShape
  <1>3. work'["compact"].files \subseteq Batch
    BY <1>1 DEF ColdInv, Task
  <1>4. \A u \in Task : Linked(work'[u], stored')
    BY <1>1 DEF ColdInv
  <1>5. ASSUME ~ evicted' PROVE NothingIsLost'
    <2>1. ~ evicted /\ NothingIsLost
      BY <1>5 DEF ColdInv
    <2>2. ASSUME NEW u \in Task
          PROVE  work'[u].step # "evict" /\ Covers(work'[u], stored', copies', engine')
      <3>1. CASE u = t
        BY <1>1, <1>5, <3>1
      <3>2. CASE u # t
        <4>1. Covers(work[u], stored, copies, engine) /\ work[u].step # "evict"
          BY <2>1 DEF NothingIsLost
        <4>2. work[u].paths \subseteq Name
          BY DEF ColdInv, ColdShape, WorkState
        <4>3. Covers(work[u], stored, copies', engine)
          BY <1>5, <4>1, <4>2, CoversStays
        <4>. QED
          BY <1>1, <3>2, <4>1, <4>3
      <3>. QED
        BY <3>1, <3>2
    <2>3. Merges(work'["compact"], stored', putting')
      <3>1. CASE t = "compact"
        BY <1>1, <1>5, <3>1
      <3>2. CASE t # "compact"
        BY <1>1, <1>5, <2>1, <3>2 DEF NothingIsLost, Task
      <3>. QED
        BY <3>1, <3>2
    <2>4. \A i \in 1 .. Inputs :
            i \in DOMAIN stored' \/ (Merged \in DOMAIN stored' /\ i \in stored'[Merged])
      BY <2>1 DEF NothingIsLost
    <2>. QED
      BY <1>5, <2>2, <2>3, <2>4 DEF NothingIsLost
  <1>. QED
    BY <1>2, <1>3, <1>4, <1>5 DEF ColdInv

\* A step that leaves the cache alone, neither from nor to an eviction.
LEMMA CacheStays ==
  ASSUME ColdInv, NEW t \in Task, NEW w, work' = [work EXCEPT ![t] = w],
         UNCHANGED <<engine, lru, bytes>>, work[t].step # "evict"
  PROVE  CacheIsBounded'
  <1>1. \A u \in Task : u # t => work'[u] = work[u]
    BY DEF ColdInv, ColdShape
  <1>2. (\A u \in Task : work'[u].step # "evict") => \A u \in Task : work[u].step # "evict"
    BY <1>1
  <1>. QED
    BY <1>2 DEF ColdInv, CacheIsBounded

\* The compaction changes the files of the location.
LEMMA StoreMoves ==
  ASSUME ColdInv, NEW w \in WorkState, work' = [work EXCEPT !["compact"] = w],
         UNCHANGED <<engine, copies, temps, lru, bytes, evicted>>,
         work["compact"].step # "evict", w.step # "evict",
         putting' \subseteq 1 .. Inputs, DOMAIN stored' \subseteq Name,
         \A f \in DOMAIN stored' : stored'[f] \subseteq 1 .. Inputs /\ (f # Merged => stored'[f] = {f}),
         Linked(w, stored'), w.files \subseteq Batch,
         Merged \in DOMAIN stored => Merged \in DOMAIN stored',
         ~ evicted => /\ Covers(w, stored', copies, engine) /\ Merges(w, stored', putting')
                      /\ \A f \in DOMAIN stored' :
                           f # Merged \/ Merged \in DOMAIN stored =>
                             f \in DOMAIN stored /\ stored'[f] = stored[f]
                      /\ \A i \in 1 .. Inputs :
                           i \in DOMAIN stored' \/ (Merged \in DOMAIN stored' /\ i \in stored'[Merged])
  PROVE  ColdInv'
  <1>1. "compact" \in Task /\ work'["compact"] = w /\ \A u \in Task : u # "compact" => work'[u] = work[u]
    BY DEF ColdInv, ColdShape, Task
  <1>2. CacheIsBounded'
    BY <1>1, CacheStays
  <1>3. ColdShape'
    BY DEF ColdInv, ColdShape
  <1>4. \A u \in Task : Linked(work'[u], stored')
    BY <1>1 DEF ColdInv, Linked
  <1>5. ASSUME ~ evicted' PROVE NothingIsLost'
    <2>1. ~ evicted /\ NothingIsLost
      BY <1>5 DEF ColdInv
    <2>2. ASSUME NEW u \in Task
          PROVE  work'[u].step # "evict" /\ Covers(work'[u], stored', copies', engine')
      <3>1. CASE u = "compact"
        BY <1>1, <2>1, <3>1
      <3>2. CASE u # "compact"
        <4>1. Covers(work[u], stored, copies, engine) /\ work[u].step # "evict"
          BY <2>1 DEF NothingIsLost
        <4>2. \A f \in work[u].files : f \in DOMAIN stored' => f \in DOMAIN stored /\ stored'[f] = stored[f]
          BY <2>1 DEF ColdInv, Linked
        <4>3. Covers(work[u], stored', copies, engine)
          BY <4>1, <4>2, CoversStays
        <4>. QED
          BY <1>1, <3>2, <4>1, <4>3
      <3>. QED
        BY <3>1, <3>2
    <2>3. \A i \in 1 .. Len(lru') : copies'[lru'[i]] # "none"
      BY <2>1 DEF NothingIsLost
    <2>. QED
      BY <1>1, <2>1, <2>2, <2>3 DEF NothingIsLost
  <1>. QED
    BY <1>1, <1>2, <1>3, <1>4, <1>5 DEF ColdInv

\* What the cache knows with one more name.
LEMMA KnownParts ==
  ASSUME lru \in Seq(Name), NEW f \in Name
  PROVE  /\ Known(f) \in Seq(Name) /\ Len(Known(f)) <= Len(lru) + 1
         /\ \A i \in 1 .. Len(Known(f)) : Known(f)[i] = f \/ \E j \in 1 .. Len(lru) : Known(f)[i] = lru[j]
  <1>1. Len(lru) \in Nat /\ DOMAIN lru = 1 .. Len(lru)
    BY LenProperties
  <1>2. CASE \E i \in DOMAIN lru : lru[i] = f
    <2>1. Known(f) = lru
      BY <1>2 DEF Known
    <2>. QED
      BY <1>1, <2>1
  <1>3. CASE ~ \E i \in DOMAIN lru : lru[i] = f
    <2>1. PICK k : k = Append(lru, f) /\ k = Known(f)
      BY <1>3 DEF Known
    <2>2. /\ k \in Seq(Name) /\ Len(k) = Len(lru) + 1 /\ k[Len(lru) + 1] = f
          /\ \A i \in 1 .. Len(lru) : k[i] = lru[i]
      <3>1. /\ Append(lru, f) \in Seq(Name) /\ Len(Append(lru, f)) = Len(lru) + 1
            /\ Append(lru, f)[Len(lru) + 1] = f
            /\ \A i \in 1 .. Len(lru) : Append(lru, f)[i] = lru[i]
        BY AppendProperties
      <3>. QED
        BY <2>1, <3>1
    <2>3. \A i \in 1 .. Len(k) : i \in 1 .. Len(lru) \/ i = Len(lru) + 1
      BY <1>1, <2>2
    <2>4. Len(k) <= Len(lru) + 1
      BY <1>1, <2>2
    <2>. QED
      BY <2>1, <2>2, <2>3, <2>4
  <1>. QED
    BY <1>2, <1>3

\* A copy that is there is entered, and the eviction starts, or the task goes to its next file.
LEMMA KeepsMoves ==
  ASSUME ColdInv, NEW t \in Task, work[t].step \in {"stat", "rename"},
         NEW known \in Seq(Name), NEW held \in Nat, Len(known) <= held, Keeps(t, known, held),
         UNCHANGED <<engine, stored, putting>>,
         copies' \in [Name -> CopyState], temps' \in [Name -> CopyState],
         \A f \in Name : copies[f] # "none" => copies'[f] # "none",
         copies'[work[t].at] # "none",
         ~ evicted => \A i \in 1 .. Len(known) : copies'[known[i]] # "none"
  PROVE  ColdInv'
  <1>1. PICK n \in Nat : n = Len(known) /\ n <= held
    BY LenProperties
  <1>2. PICK v : v = work[t]
    OBVIOUS
  <1>3. /\ v \in WorkState /\ Linked(v, stored) /\ v.at \in v.files /\ v.at \in Name
        /\ t = "compact" => v.files \subseteq Batch
    BY <1>2 DEF ColdInv, ColdShape, Linked, WorkState
  <1>4. engine.budget \in Nat /\ evicted \in BOOLEAN
    BY DEF ColdInv, ColdShape
  <1>5. CASE held > engine.budget /\ n > 1
    <2>1. PICK w : w = [v EXCEPT !.step = "evict", !.at = Head(known), !.todo = @ \ {v.at},
                                 !.paths = @ \cup {v.at}]
      OBVIOUS
    <2>2. lru' = Tail(known) /\ bytes' = held - 1 /\ evicted' = TRUE /\ work' = [work EXCEPT ![t] = w]
      BY <1>1, <1>2, <1>5, <2>1 DEF Keeps, Does
    <2>3. known # <<>>
      BY <1>1, <1>5, EmptySeq
    <2>4. Head(known) \in Nat /\ lru' \in Seq(Name) /\ Len(lru') = n - 1
      BY <1>1, <2>2, <2>3, HeadParts, NamesAreNatural
    <2>5. w \in WorkState /\ w.step = "evict" /\ w.files = v.files /\ Linked(w, stored)
      BY <1>3, <2>1, <2>4 DEF WorkState, Linked
    <2>6. bytes' \in Nat /\ n - 1 <= held - 1
      BY <1>1, <1>5, <2>2
    <2>7. CacheIsBounded'
      <3>1. work'[t].step = "evict"
        BY <2>2, <2>5 DEF ColdInv, ColdShape
      <3>. QED
        BY <2>2, <2>4, <2>6, <3>1 DEF CacheIsBounded
    <2>8. t = "compact" => w.files \subseteq Batch
      BY <1>3, <2>5
    <2>. QED
      BY <2>2, <2>4, <2>5, <2>6, <2>7, <2>8, TaskMoves DEF ColdInv, ColdShape
  <1>6. CASE ~ (held > engine.budget /\ n > 1)
    <2>1. PICK w : w = [v EXCEPT !.step = "ensure", !.todo = @ \ {v.at}, !.paths = @ \cup {v.at}]
      OBVIOUS
    <2>2. lru' = known /\ bytes' = held /\ evicted' = evicted /\ work' = [work EXCEPT ![t] = w]
      BY <1>1, <1>2, <1>6, <2>1 DEF Keeps, Does, HasPath
    <2>3. /\ w \in WorkState /\ w.step = "ensure" /\ w.files = v.files /\ Linked(w, stored)
          /\ w.todo = v.todo \ {v.at} /\ w.paths = v.paths \cup {v.at} /\ w.rows = v.rows
      BY <1>3, <2>1 DEF WorkState, Linked, Gathering
    <2>4. CacheIsBounded'
      <3>1. n <= 1 \/ held <= engine.budget
        BY <1>4, <1>6
      <3>. QED
        BY <1>1, <2>2, <3>1 DEF CacheIsBounded
    <2>5. ASSUME ~ evicted'
          PROVE  /\ w.step # "evict" /\ Covers(w, stored, copies', engine)
                 /\ \A i \in 1 .. Len(lru') : copies'[lru'[i]] # "none"
                 /\ t = "compact" => Merges(w, stored, putting')
                 /\ t # "compact" => putting' = putting
      <3>1. Covers(v, stored, copies, engine) /\ (t = "compact" => Merges(v, stored, putting))
        BY <1>2, <2>2, <2>5 DEF ColdInv, NothingIsLost
      <3>2. v.step \in Gathering
        BY <1>2 DEF Gathering
      <3>3. v.paths \subseteq Name
        BY <1>3 DEF WorkState
      <3>4. Covers(v, stored, copies', engine)
        BY <3>1, <3>3, CoversStays
      <3>5. copies'[v.at] # "none"
        BY <1>2
      <3>6. Covers(w, stored, copies', engine)
        BY <2>3, <3>2, <3>4, <3>5 DEF Covers
      <3>7. t = "compact" => Merges(w, stored, putting')
        BY <2>3, <3>1, <3>2 DEF Merges
      <3>. QED
        BY <2>2, <2>3, <2>5, <3>6, <3>7
    <2>6. t = "compact" => w.files \subseteq Batch
      BY <1>3, <2>3
    <2>. QED
      BY <1>4, <2>2, <2>3, <2>4, <2>5, <2>6, TaskMoves DEF ColdInv, ColdShape
  <1>. QED
    BY <1>5, <1>6

LEMMA StatsKeeps == ASSUME ColdInv, NEW t \in Task, Stats(t) PROVE ColdInv'
  <1>1. PICK v : v = work[t]
    OBVIOUS
  <1>2. /\ v \in WorkState /\ v.step = "stat" /\ Linked(v, stored) /\ v.at \in v.files /\ v.at \in Name
        /\ t = "compact" => v.files \subseteq Batch
    BY <1>1 DEF Stats, At, ColdInv, ColdShape, Linked, WorkState
  <1>3. UNCHANGED <<engine, stored, putting, copies, temps>>
    BY DEF Stats
  <1>4. CASE copies[v.at] # "none"
    <2>1. Keeps(t, Known(v.at), bytes + 1)
      BY <1>1, <1>4 DEF Stats
    <2>2. PICK known : known = Known(v.at)
      OBVIOUS
    <2>3. /\ known \in Seq(Name) /\ Len(known) <= Len(lru) + 1
          /\ \A i \in 1 .. Len(known) : known[i] = v.at \/ \E j \in 1 .. Len(lru) : known[i] = lru[j]
      BY <1>2, <2>2, KnownParts DEF ColdInv, ColdShape
    <2>4. PICK held \in Nat : held = bytes + 1
      BY DEF ColdInv, ColdShape
    <2>5. Len(known) <= held
      <3>1. Len(lru) \in Nat /\ Len(known) \in Nat /\ bytes \in Nat /\ Len(lru) <= bytes
        BY <2>3, LenProperties DEF ColdInv, ColdShape, CacheIsBounded
      <3>. QED
        BY <2>3, <2>4, <3>1
    <2>6. ~ evicted => \A i \in 1 .. Len(known) : copies[known[i]] # "none"
      BY <1>4, <2>3 DEF ColdInv, NothingIsLost
    <2>. QED
      BY <1>1, <1>2, <1>3, <1>4, <2>1, <2>2, <2>3, <2>4, <2>5, <2>6, KeepsMoves DEF ColdInv, ColdShape
  <1>5. CASE copies[v.at] = "none"
    <2>1. PICK w : w = [v EXCEPT !.step = "fetch"]
      OBVIOUS
    <2>2. UNCHANGED <<lru, bytes, evicted>> /\ work' = [work EXCEPT ![t] = w]
      BY <1>1, <1>5, <2>1 DEF Stats, Does
    <2>3. /\ w \in WorkState /\ w.step = "fetch" /\ w.files = v.files /\ Linked(w, stored)
          /\ w.todo = v.todo /\ w.paths = v.paths /\ w.rows = v.rows
      BY <1>2, <2>1 DEF WorkState, Linked, Gathering
    <2>4. CacheIsBounded'
      BY <1>1, <1>2, <1>3, <2>2, CacheStays
    <2>5. ~ evicted => Covers(v, stored, copies, engine) /\ (t = "compact" => Merges(v, stored, putting))
      BY <1>1 DEF ColdInv, NothingIsLost
    <2>6. ~ evicted => Covers(w, stored, copies, engine) /\ (t = "compact" => Merges(w, stored, putting))
      BY <1>2, <2>3, <2>5 DEF Covers, Merges, Gathering
    <2>7. ~ evicted => \A i \in 1 .. Len(lru) : copies[lru[i]] # "none"
      BY DEF ColdInv, NothingIsLost
    <2>. QED
      BY <1>2, <1>3, <2>2, <2>3, <2>4, <2>6, <2>7, TaskMoves DEF ColdInv, ColdShape
  <1>. QED
    BY <1>4, <1>5

LEMMA RenamesKeeps == ASSUME ColdInv, NEW t \in Task, Renames(t) PROVE ColdInv'
  <1>1. PICK v : v = work[t]
    OBVIOUS
  <1>2. /\ v \in WorkState /\ v.step = "rename" /\ Linked(v, stored) /\ v.at \in v.files /\ v.at \in Name
        /\ t = "compact" => v.files \subseteq Batch
    BY <1>1 DEF Renames, At, ColdInv, ColdShape, Linked, WorkState
  <1>3. UNCHANGED <<engine, stored, putting>>
    BY DEF Renames
  <1>4. CASE temps[v.at] # "none"
    <2>1. Keeps(t, Known(v.at), bytes + 1)
      BY <1>1, <1>4 DEF Renames
    <2>2. PICK known : known = Known(v.at)
      OBVIOUS
    <2>3. /\ known \in Seq(Name) /\ Len(known) <= Len(lru) + 1
          /\ \A i \in 1 .. Len(known) : known[i] = v.at \/ \E j \in 1 .. Len(lru) : known[i] = lru[j]
      BY <1>2, <2>2, KnownParts DEF ColdInv, ColdShape
    <2>4. PICK held \in Nat : held = bytes + 1
      BY DEF ColdInv, ColdShape
    <2>5. Len(known) <= held
      <3>1. Len(lru) \in Nat /\ Len(known) \in Nat /\ bytes \in Nat /\ Len(lru) <= bytes
        BY <2>3, LenProperties DEF ColdInv, ColdShape, CacheIsBounded
      <3>. QED
        BY <2>3, <2>4, <3>1
    <2>6. /\ copies' \in [Name -> CopyState] /\ temps' \in [Name -> CopyState]
          /\ \A f \in Name : copies[f] # "none" => copies'[f] # "none"
          /\ copies'[v.at] # "none"
      BY <1>1, <1>2, <1>4 DEF Renames, ColdInv, ColdShape, CopyState
    <2>7. ASSUME ~ evicted, NEW i \in 1 .. Len(known) PROVE copies'[known[i]] # "none"
      <3>1. CASE known[i] = v.at
        BY <2>6, <3>1
      <3>2. CASE \E j \in 1 .. Len(lru) : known[i] = lru[j]
        <4>1. PICK j \in 1 .. Len(lru) : known[i] = lru[j]
          BY <3>2
        <4>2. lru[j] \in Name
          BY ElementOfSeq DEF ColdInv, ColdShape
        <4>3. copies[lru[j]] # "none"
          BY <2>7 DEF ColdInv, NothingIsLost
        <4>. QED
          BY <2>6, <4>1, <4>2, <4>3
      <3>. QED
        BY <2>3, <3>1, <3>2
    <2>. QED
      BY <1>1, <1>2, <1>3, <2>1, <2>2, <2>3, <2>4, <2>5, <2>6, <2>7, KeepsMoves
  <1>5. CASE temps[v.at] = "none"
    <2>1. PICK w : w = [v EXCEPT !.step = "failed"]
      OBVIOUS
    <2>2. UNCHANGED <<copies, temps, lru, bytes, evicted>> /\ work' = [work EXCEPT ![t] = w]
      BY <1>1, <1>5, <2>1 DEF Renames, Does
    <2>3. /\ w \in WorkState /\ w.step = "failed" /\ w.files = v.files /\ Linked(w, stored)
      BY <1>2, <2>1 DEF WorkState, Linked, Gathering
    <2>4. CacheIsBounded'
      BY <1>1, <1>2, <1>3, <2>2, CacheStays
    <2>5. Covers(w, stored, copies, engine) /\ Merges(w, stored, putting)
      BY <2>3 DEF Covers, Merges, Gathering
    <2>6. ~ evicted => \A i \in 1 .. Len(lru) : copies[lru[i]] # "none"
      BY DEF ColdInv, NothingIsLost
    <2>. QED
      BY <1>2, <1>3, <2>2, <2>3, <2>4, <2>5, <2>6, TaskMoves DEF ColdInv, ColdShape
  <1>. QED
    BY <1>4, <1>5

\* The steps of a task that leave the cache and what is stored alone.
LEMMA PlainMoves ==
  ASSUME ColdInv, NEW t \in Task, NEW w \in WorkState, work' = [work EXCEPT ![t] = w],
         UNCHANGED <<engine, stored, lru, bytes, evicted>>, putting' \subseteq 1 .. Inputs,
         copies' \in [Name -> CopyState], temps' \in [Name -> CopyState],
         \A f \in Name : copies[f] # "none" => copies'[f] # "none",
         work[t].step # "evict", w.step # "evict", Linked(w, stored),
         t = "compact" => w.files \subseteq Batch, t # "compact" => putting' = putting,
         ~ evicted => /\ Covers(w, stored, copies, engine)
                      /\ t = "compact" => Merges(w, stored, putting')
  PROVE  ColdInv'
  <1>1. CacheIsBounded'
    BY CacheStays
  <1>2. ASSUME ~ evicted, NEW i \in 1 .. Len(lru) PROVE copies'[lru[i]] # "none"
    <2>1. lru[i] \in Name /\ copies[lru[i]] # "none"
      BY <1>2, ElementOfSeq DEF ColdInv, ColdShape, NothingIsLost
    <2>. QED
      BY <2>1
  <1>3. w.paths \subseteq Name
    BY DEF WorkState
  <1>4. ~ evicted => Covers(w, stored, copies', engine)
    BY <1>3, CoversStays
  <1>. QED
    BY <1>1, <1>2, <1>4, TaskMoves DEF ColdInv, ColdShape

LEMMA FetchesAndWritesKeep ==
  ASSUME ColdInv, NEW t \in Task, CacheMiss(t) \/ Fetches1(t) \/ Writes(t)
  PROVE  ColdInv'
  <1>1. PICK v : v = work[t]
    OBVIOUS
  <1>2. /\ v \in WorkState /\ Linked(v, stored) /\ (t = "compact" => v.files \subseteq Batch)
        /\ v.files \subseteq Name /\ v.step \in {"ensure", "fetch", "write"}
    BY <1>1 DEF CacheMiss, Fetches1, Writes, At, ColdInv, ColdShape, WorkState
  <1>3. UNCHANGED <<engine, stored, putting, lru, bytes, evicted>>
    BY DEF CacheMiss, Fetches1, Writes
  <1>4. /\ putting \subseteq 1 .. Inputs /\ copies \in [Name -> CopyState] /\ temps \in [Name -> CopyState]
    BY DEF ColdInv, ColdShape
  <1>5. ~ evicted => Covers(v, stored, copies, engine) /\ (t = "compact" => Merges(v, stored, putting))
    BY <1>1 DEF ColdInv, NothingIsLost
  <1>6. CASE CacheMiss(t)
    <2>1. PICK f : f = LowestOf(v.todo)
      OBVIOUS
    <2>2. v.todo # {} /\ v.step = "ensure" /\ v.todo \in SUBSET Nat
      BY <1>1, <1>2, <1>6, NamesAreNatural DEF CacheMiss, At, WorkState
    <2>3. f \in v.todo /\ f \in v.files /\ f \in Nat
      BY <1>2, <2>1, <2>2, LowestIsIn DEF Linked
    <2>4. PICK w : w = [v EXCEPT !.step = "stat", !.at = f]
      OBVIOUS
    <2>5. work' = [work EXCEPT ![t] = w] /\ UNCHANGED <<copies, temps>>
      BY <1>1, <1>6, <2>1, <2>4 DEF CacheMiss, Does, Next1
    <2>6. /\ w \in WorkState /\ w.step = "stat" /\ w.files = v.files /\ Linked(w, stored)
          /\ w.todo = v.todo /\ w.paths = v.paths /\ w.rows = v.rows
      BY <1>2, <2>3, <2>4 DEF WorkState, Linked, Gathering
    <2>7. ~ evicted => Covers(w, stored, copies, engine) /\ (t = "compact" => Merges(w, stored, putting))
      BY <1>5, <2>2, <2>6 DEF Covers, Merges, Gathering
    <2>. QED
      BY <1>1, <1>2, <1>3, <1>4, <2>2, <2>5, <2>6, <2>7, PlainMoves
  <1>7. CASE Fetches1(t)
    <2>1. v.step = "fetch" /\ v.at \in v.files /\ v.at \in Name
      BY <1>1, <1>2, <1>7 DEF Fetches1, At, Linked
    <2>2. CASE v.at \in DOMAIN stored
      <3>1. PICK w : w = [v EXCEPT !.step = "write"]
        OBVIOUS
      <3>2. work' = [work EXCEPT ![t] = w] /\ UNCHANGED copies /\ temps' = [temps EXCEPT ![v.at] = "partial"]
        BY <1>1, <1>7, <2>2, <3>1 DEF Fetches1, Does
      <3>3. /\ w \in WorkState /\ w.step = "write" /\ w.files = v.files /\ Linked(w, stored)
            /\ w.todo = v.todo /\ w.paths = v.paths /\ w.rows = v.rows
        BY <1>2, <2>1, <3>1 DEF WorkState, Linked, Gathering
      <3>4. ~ evicted => Covers(w, stored, copies, engine) /\ (t = "compact" => Merges(w, stored, putting))
        BY <1>5, <2>1, <3>3 DEF Covers, Merges, Gathering
      <3>5. temps' \in [Name -> CopyState]
        BY <1>4, <3>2 DEF CopyState
      <3>. QED
        BY <1>1, <1>2, <1>3, <1>4, <2>1, <3>2, <3>3, <3>4, <3>5, PlainMoves
    <2>3. CASE v.at \notin DOMAIN stored
      <3>1. PICK w : w = [v EXCEPT !.step = "ensure", !.todo = @ \ {v.at}]
        OBVIOUS
      <3>2. work' = [work EXCEPT ![t] = w] /\ UNCHANGED <<copies, temps>>
        BY <1>1, <1>7, <2>3, <3>1 DEF Fetches1, Does
      <3>3. /\ w \in WorkState /\ w.step = "ensure" /\ w.files = v.files /\ Linked(w, stored)
            /\ w.todo = v.todo \ {v.at} /\ w.paths = v.paths /\ w.rows = v.rows
        BY <1>2, <2>1, <3>1 DEF WorkState, Linked, Gathering
      <3>4. ~ evicted => Covers(w, stored, copies, engine) /\ (t = "compact" => Merges(w, stored, putting))
        BY <1>5, <2>1, <2>3, <3>3 DEF Covers, Merges, Gathering
      <3>. QED
        BY <1>1, <1>2, <1>3, <1>4, <2>1, <3>2, <3>3, <3>4, PlainMoves
    <2>. QED
      BY <2>2, <2>3
  <1>8. CASE Writes(t)
    <2>1. v.step = "write" /\ v.at \in v.files /\ v.at \in Name
      BY <1>1, <1>2, <1>8 DEF Writes, At, Linked
    <2>2. PICK w : w = [v EXCEPT !.step = "rename"]
      OBVIOUS
    <2>3. work' = [work EXCEPT ![t] = w]
      BY <1>1, <1>8, <2>2 DEF Writes, Does
    <2>4. /\ w \in WorkState /\ w.step = "rename" /\ w.files = v.files /\ Linked(w, stored)
          /\ w.todo = v.todo /\ w.paths = v.paths /\ w.rows = v.rows
      BY <1>2, <2>1, <2>2 DEF WorkState, Linked, Gathering
    <2>5. ~ evicted => Covers(w, stored, copies, engine) /\ (t = "compact" => Merges(w, stored, putting))
      BY <1>5, <2>1, <2>4 DEF Covers, Merges, Gathering
    <2>6. /\ copies' \in [Name -> CopyState] /\ temps' \in [Name -> CopyState]
          /\ \A f \in Name : copies[f] # "none" => copies'[f] # "none"
      <3>1. CASE temps[v.at] # "none"
        <4>1. UNCHANGED copies /\ \E c \in CopyState : temps' = [temps EXCEPT ![v.at] = c]
          BY <1>1, <1>8, <3>1 DEF Writes, Content, CopyState
        <4>. QED
          BY <1>4, <4>1
      <3>2. CASE temps[v.at] = "none"
        <4>1. UNCHANGED temps /\ copies' = [copies EXCEPT ![v.at] = IF @ = "partial" THEN "full" ELSE @]
          BY <1>1, <1>8, <3>2 DEF Writes
        <4>. QED
          BY <1>4, <2>1, <4>1 DEF CopyState
      <3>. QED
        BY <3>1, <3>2
    <2>. QED
      BY <1>1, <1>2, <1>3, <1>4, <2>1, <2>3, <2>4, <2>5, <2>6, PlainMoves
  <1>. QED
    BY <1>6, <1>7, <1>8

\* A copy that is used becomes the newest that the cache knows.
LEMMA UsedParts ==
  ASSUME lru \in Seq(Name), NEW f \in Name, \E i \in DOMAIN lru : lru[i] = f
  PROVE  /\ Append(Dropping(f, lru), f) \in Seq(Name)
         /\ Len(Append(Dropping(f, lru), f)) = Len(lru)
         /\ \A i \in 1 .. Len(lru) : \E j \in 1 .. Len(lru) : Append(Dropping(f, lru), f)[i] = lru[j]
  <1>1. PICK n \in Nat : n = Len(lru) /\ DOMAIN lru = 1 .. n
    BY LenProperties
  <1>2. PICK p : p = CHOOSE i \in DOMAIN lru : lru[i] = f
    OBVIOUS
  <1>3. p \in 1 .. n /\ lru[p] = f
    BY <1>1, <1>2
  <1>4. PICK s : s = RemoveAt(lru, p) /\ s = Dropping(f, lru)
    BY <1>2 DEF Dropping
  <1>5. /\ s \in Seq(Name) /\ Len(s) = n - 1
        /\ \A j \in 1 .. n - 1 : s[j] = IF j < p THEN lru[j] ELSE lru[j + 1]
    BY <1>1, <1>3, <1>4, RemoveAtParts, ZenonT(60)
  <1>6. PICK r : r = Append(s, f)
    OBVIOUS
  <1>7. r \in Seq(Name) /\ Len(r) = n /\ r[n] = f /\ \A j \in 1 .. n - 1 : r[j] = s[j]
    <2>1. /\ r \in Seq(Name) /\ Len(r) = Len(s) + 1 /\ r[Len(s) + 1] = f
          /\ \A j \in 1 .. Len(s) : r[j] = s[j]
      BY <1>5, <1>6, AppendProperties
    <2>2. n - 1 + 1 = n
      OBVIOUS
    <2>. QED
      BY <1>5, <2>1, <2>2
  <1>8. ASSUME NEW i \in 1 .. n PROVE \E j \in 1 .. n : r[i] = lru[j]
    <2>1. CASE i = n
      BY <1>3, <1>7, <2>1
    <2>2. CASE i # n
      <3>1. i \in 1 .. n - 1 /\ i + 1 \in 1 .. n
        BY <2>2
      <3>2. r[i] = IF i < p THEN lru[i] ELSE lru[i + 1]
        BY <1>5, <1>7, <3>1
      <3>. QED
        BY <3>1, <3>2
    <2>. QED
      BY <2>1, <2>2
  <1>9. r = Append(Dropping(f, lru), f)
    BY <1>4, <1>6
  <1>10. Len(r) = Len(lru) /\ \A i \in 1 .. Len(lru) : \E j \in 1 .. Len(lru) : r[i] = lru[j]
    BY <1>1, <1>7, <1>8
  <1>. QED
    BY <1>7, <1>9, <1>10, ZenonT(60)

LEMMA CacheHitKeeps == ASSUME ColdInv, NEW t \in Task, CacheHit(t) PROVE ColdInv'
  <1>1. PICK v : v = work[t]
    OBVIOUS
  <1>2. /\ v \in WorkState /\ Linked(v, stored) /\ (t = "compact" => v.files \subseteq Batch)
        /\ v.files \subseteq Name /\ v.step = "ensure" /\ v.todo # {} /\ v.todo \in SUBSET Nat
    BY <1>1, NamesAreNatural DEF CacheHit, At, ColdInv, ColdShape, WorkState
  <1>3. PICK f : f = LowestOf(v.todo) /\ f = Next1(t)
    BY <1>1 DEF Next1
  <1>4. f \in v.todo /\ f \in v.files /\ f \in Name
    BY <1>2, <1>3, LowestIsIn DEF Linked
  <1>5. lru \in Seq(Name) /\ \E i \in DOMAIN lru : lru[i] = f
    BY <1>3 DEF CacheHit, ColdInv, ColdShape
  <1>6. PICK r : r = Append(Dropping(f, lru), f)
    OBVIOUS
  <1>7. /\ r \in Seq(Name) /\ Len(r) = Len(lru)
        /\ \A i \in 1 .. Len(lru) : \E j \in 1 .. Len(lru) : r[i] = lru[j]
    BY <1>4, <1>5, <1>6, UsedParts
  <1>8. PICK w : w = [v EXCEPT !.step = "ensure", !.todo = @ \ {f}, !.paths = @ \cup {f}]
    OBVIOUS
  <1>9. /\ lru' = r /\ work' = [work EXCEPT ![t] = w]
        /\ UNCHANGED <<engine, stored, putting, copies, temps, bytes, evicted>>
    BY <1>1, <1>3, <1>6, <1>8 DEF CacheHit, Does, HasPath
  <1>10. /\ w \in WorkState /\ w.step = "ensure" /\ w.files = v.files /\ Linked(w, stored)
         /\ w.todo = v.todo \ {f} /\ w.paths = v.paths \cup {f} /\ w.rows = v.rows
    BY <1>2, <1>4, <1>8 DEF WorkState, Linked, Gathering
  <1>11. CacheIsBounded'
    <2>1. \A u \in Task : u # t => work'[u] = work[u]
      BY <1>9 DEF ColdInv, ColdShape
    <2>2. (\A u \in Task : work'[u].step # "evict") => \A u \in Task : work[u].step # "evict"
      BY <1>1, <1>2, <2>1
    <2>. QED
      BY <1>7, <1>9, <2>2 DEF ColdInv, CacheIsBounded
  <1>12. ~ evicted => \A i \in 1 .. Len(lru') : copies'[lru'[i]] # "none"
    BY <1>7, <1>9 DEF ColdInv, NothingIsLost
  <1>13. ~ evicted => copies[f] # "none"
    <2>1. PICK i \in 1 .. Len(lru) : lru[i] = f
      BY <1>5, LenProperties
    <2>. QED
      BY <2>1 DEF ColdInv, NothingIsLost
  <1>14. ~ evicted => Covers(v, stored, copies, engine) /\ (t = "compact" => Merges(v, stored, putting))
    BY <1>1 DEF ColdInv, NothingIsLost
  <1>15. ~ evicted => Covers(w, stored, copies, engine) /\ (t = "compact" => Merges(w, stored, putting))
    BY <1>2, <1>10, <1>13, <1>14 DEF Covers, Merges, Gathering
  <1>. QED
    BY <1>2, <1>7, <1>9, <1>10, <1>11, <1>12, <1>15, TaskMoves DEF ColdInv, ColdShape

\* An eviction is known for one, and may lose what it takes for deleted.
LEMMA EvictsKeeps == ASSUME ColdInv, NEW t \in Task, Evicts(t) PROVE ColdInv'
  <1>1. PICK v : v = work[t]
    OBVIOUS
  <1>2. /\ v \in WorkState /\ Linked(v, stored) /\ (t = "compact" => v.files \subseteq Batch)
        /\ v.step = "evict"
    BY <1>1 DEF Evicts, At, ColdInv, ColdShape
  <1>3. evicted
    BY <1>1, <1>2 DEF ColdInv, ColdShape, NothingIsLost
  <1>4. UNCHANGED <<engine, stored, putting, temps, evicted>> /\ copies' \in [Name -> CopyState]
    BY DEF Evicts, ColdInv, ColdShape, CopyState
  <1>5. PICK n \in Nat : n = Len(lru) /\ n <= bytes
    BY LenProperties DEF ColdInv, ColdShape, CacheIsBounded
  <1>6. engine.budget \in Nat /\ bytes \in Nat /\ lru \in Seq(Name)
    BY DEF ColdInv, ColdShape
  <1>7. CASE bytes > engine.budget /\ n > 1
    <2>1. PICK w : w = [v EXCEPT !.at = Head(lru)]
      OBVIOUS
    <2>2. lru' = Tail(lru) /\ bytes' = bytes - 1 /\ work' = [work EXCEPT ![t] = w]
      BY <1>1, <1>5, <1>7, <2>1 DEF Evicts, Does
    <2>3. lru # <<>>
      BY <1>5, <1>7, EmptySeq
    <2>4. Head(lru) \in Nat /\ lru' \in Seq(Name) /\ Len(lru') = n - 1
      BY <1>5, <1>6, <2>2, <2>3, HeadParts, NamesAreNatural
    <2>5. w \in WorkState /\ w.step = "evict" /\ w.files = v.files /\ Linked(w, stored)
      BY <1>2, <2>1, <2>4 DEF WorkState, Linked
    <2>6. bytes' \in Nat /\ n - 1 <= bytes - 1
      BY <1>5, <1>6, <1>7, <2>2
    <2>7. CacheIsBounded'
      <3>1. work'[t].step = "evict"
        BY <2>2, <2>5 DEF ColdInv, ColdShape
      <3>. QED
        BY <2>2, <2>4, <2>6, <3>1 DEF CacheIsBounded
    <2>. QED
      BY <1>2, <1>3, <1>4, <2>2, <2>4, <2>5, <2>6, <2>7, TaskMoves DEF ColdInv, ColdShape
  <1>8. CASE ~ (bytes > engine.budget /\ n > 1)
    <2>1. PICK w : w = [v EXCEPT !.step = "ensure"]
      OBVIOUS
    <2>2. UNCHANGED <<lru, bytes>> /\ work' = [work EXCEPT ![t] = w]
      BY <1>1, <1>5, <1>8, <2>1 DEF Evicts, Does
    <2>3. w \in WorkState /\ w.step = "ensure" /\ w.files = v.files /\ Linked(w, stored)
      BY <1>2, <2>1 DEF WorkState, Linked, Gathering
    <2>4. CacheIsBounded'
      <3>1. n <= 1 \/ bytes <= engine.budget
        BY <1>5, <1>6, <1>8
      <3>. QED
        BY <1>4, <1>5, <2>2, <3>1 DEF CacheIsBounded
    <2>. QED
      BY <1>2, <1>3, <1>4, <1>6, <2>2, <2>3, <2>4, TaskMoves DEF ColdInv, ColdShape
  <1>. QED
    BY <1>7, <1>8

\* A task that has nothing in hand.
LEMMA IdleIsPlain ==
  /\ Idle \in WorkState /\ Idle.step = "idle" /\ Idle.files = {}
  /\ \A st : Linked(Idle, st)
  /\ \A st, cp, en : Covers(Idle, st, cp, en)
  /\ \A st, pending : Merges(Idle, st, pending)
  BY DEF Idle, WorkState, Linked, Covers, Merges, Gathering

LEMMA AnswersKeeps == ASSUME ColdInv, NEW t \in Task, Answers(t) PROVE ColdInv'
  <1>1. work[t].step # "evict"
    BY DEF Answers, At
  <1>2. PICK w : w = Idle
    OBVIOUS
  <1>3. /\ w \in WorkState /\ w.step # "evict" /\ w.files \subseteq Batch /\ Linked(w, stored)
        /\ Covers(w, stored, copies, engine) /\ Merges(w, stored, putting)
    BY <1>2, IdleIsPlain
  <1>4. /\ work' = [work EXCEPT ![t] = w]
        /\ UNCHANGED <<engine, stored, putting, copies, temps, lru, bytes, evicted>>
    BY <1>2 DEF Answers, Does
  <1>. QED
    BY <1>1, <1>3, <1>4, PlainMoves DEF ColdInv, ColdShape

\* The statement over all paths: it has the rows of each, or fails, or is tried again without
\* those that are gone.
LEMMA ScansKeeps == ASSUME ColdInv, NEW t \in Task, Scans(t) PROVE ColdInv'
  <1>1. PICK v : v = work[t]
    OBVIOUS
  <1>2. /\ v \in WorkState /\ Linked(v, stored) /\ (t = "compact" => v.files \subseteq Batch)
        /\ v.files \subseteq Name /\ v.paths \subseteq Name
    BY <1>1 DEF ColdInv, ColdShape, WorkState
  <1>3. /\ engine.name = "duckdb" /\ ((v.step = "ensure" /\ v.todo = {}) \/ v.step = "scan")
        /\ UNCHANGED <<engine, stored, putting, copies, temps, lru, bytes, oneByOne, evicted>>
    BY <1>1 DEF Scans, EnsuredAll, At
  <1>4. PICK missing : missing = {f \in v.paths : ~ There(f)}
    OBVIOUS
  <1>5. ~ evicted => Covers(v, stored, copies, engine) /\ (t = "compact" => Merges(v, stored, putting))
    BY <1>1 DEF ColdInv, NothingIsLost
  <1>6. ~ evicted => \A f \in v.files : f \in DOMAIN stored => f \in v.paths
    BY <1>2, <1>3, <1>5 DEF Covers, Gathering
  <1>7. ASSUME NEW w \in WorkState, work' = [work EXCEPT ![t] = w], w.files = v.files, w.step # "evict",
               Linked(w, stored),
               ~ evicted => /\ Covers(w, stored, copies, engine)
                            /\ t = "compact" => Merges(w, stored, putting)
        PROVE  ColdInv'
    BY <1>1, <1>2, <1>3, <1>7, PlainMoves DEF ColdInv, ColdShape
  <1>8. CASE missing # {} /\ ~ v.retried
    <2>1. PICK w : w = [v EXCEPT !.step = "scan", !.paths = @ \ missing, !.retried = TRUE]
      OBVIOUS
    <2>2. work' = [work EXCEPT ![t] = w]
      BY <1>1, <1>4, <1>8, <2>1 DEF Scans, Does
    <2>3. /\ w \in WorkState /\ w.step = "scan" /\ w.files = v.files /\ Linked(w, stored)
          /\ w.todo = v.todo /\ w.paths = v.paths \ missing /\ w.rows = v.rows
      BY <1>2, <2>1 DEF WorkState, Linked
    <2>4. ~ evicted /\ engine.remote => missing = {}
      BY <1>3, <1>4, <1>5 DEF Covers, There, Copying, Gathering
    <2>5. ~ engine.remote => \A f \in missing : f \notin DOMAIN stored
      BY <1>4 DEF There, Copying
    <2>6. engine.remote \in BOOLEAN
      BY DEF ColdInv, ColdShape
    <2>7. ~ evicted => Covers(w, stored, copies, engine)
      BY <1>3, <1>6, <1>8, <2>3, <2>4, <2>5, <2>6 DEF Covers, Gathering
    <2>8. ~ evicted => (t = "compact" => Merges(w, stored, putting))
      BY <1>3, <1>5, <2>3 DEF Merges, Gathering
    <2>. QED
      BY <1>7, <2>2, <2>3, <2>7, <2>8
  <1>9. CASE /\ ~ (missing # {} /\ ~ v.retried)
             /\ missing # {} \/ (Copying /\ \E f \in v.paths : copies[f] = "partial")
    <2>1. PICK w : w = [v EXCEPT !.step = "failed"]
      OBVIOUS
    <2>2. work' = [work EXCEPT ![t] = w]
      BY <1>1, <1>4, <1>9, <2>1 DEF Scans, Does
    <2>3. w \in WorkState /\ w.step = "failed" /\ w.files = v.files /\ Linked(w, stored)
      BY <1>2, <2>1 DEF WorkState, Linked
    <2>4. Covers(w, stored, copies, engine) /\ Merges(w, stored, putting)
      BY <2>3 DEF Covers, Merges, Gathering
    <2>. QED
      BY <1>7, <2>2, <2>3, <2>4
  <1>10. CASE missing = {} /\ ~ (Copying /\ \E f \in v.paths : copies[f] = "partial")
    <2>1. PICK found : found = IF Copying THEN UNION {CopyRows(f) : f \in v.paths} ELSE RowsOf(v.paths)
      OBVIOUS
    <2>2. PICK w : w = [v EXCEPT !.step = "ended", !.rows = found]
      OBVIOUS
    <2>3. work' = [work EXCEPT ![t] = w]
      BY <1>1, <1>4, <1>10, <2>1, <2>2 DEF Scans, Does
    <2>4. \A f \in v.paths : f \in v.files /\ (f = Merged => f \in DOMAIN stored)
      BY <1>2 DEF Linked
    <2>5. \A f \in DOMAIN stored : stored[f] \subseteq 1 .. Inputs /\ (f # Merged => stored[f] = {f})
      BY DEF ColdInv, ColdShape
    <2>6. \A f \in v.paths : CopyRows(f) \subseteq 1 .. Inputs
      BY <1>2, <2>4, <2>5, NamesAreNatural DEF CopyRows
    <2>7. \A f \in v.paths : f \in DOMAIN stored => stored[f] \subseteq CopyRows(f)
      BY <2>5 DEF CopyRows
    <2>8. found \subseteq 1 .. Inputs
      BY <2>1, <2>5, <2>6 DEF RowsOf
    <2>9. \A f \in v.paths : f \in DOMAIN stored => stored[f] \subseteq found
      BY <2>1, <2>7 DEF RowsOf
    <2>10. /\ w \in WorkState /\ w.step = "ended" /\ w.files = v.files /\ Linked(w, stored)
           /\ w.paths = v.paths /\ w.rows = found
      BY <1>2, <2>2, <2>8 DEF WorkState, Linked
    <2>11. ~ evicted => Covers(w, stored, copies, engine)
      BY <1>6, <2>9, <2>10 DEF Covers, Gathering
    <2>12. ~ evicted => (t = "compact" => Merges(w, stored, putting))
      BY <1>3, <1>5, <2>10 DEF Merges, Gathering
    <2>. QED
      BY <1>7, <2>3, <2>10, <2>11, <2>12
  <1>. QED
    BY <1>8, <1>9, <1>10

LEMMA ReadsFileKeeps == ASSUME ColdInv, NEW t \in Task, ReadsFile(t) PROVE ColdInv'
  <1>1. PICK v : v = work[t]
    OBVIOUS
  <1>2. /\ v \in WorkState /\ Linked(v, stored) /\ (t = "compact" => v.files \subseteq Batch)
        /\ v.todo \in SUBSET Nat
    BY <1>1, NamesAreNatural DEF ColdInv, ColdShape, WorkState
  <1>3. /\ engine.name = "hyparquet" /\ v.step = "scan"
        /\ UNCHANGED <<engine, stored, putting, copies, temps, lru, bytes, oneByOne, evicted>>
    BY <1>1 DEF ReadsFile, At
  <1>4. ~ evicted => Covers(v, stored, copies, engine) /\ (t = "compact" => Merges(v, stored, putting))
    BY <1>1 DEF ColdInv, NothingIsLost
  <1>5. ASSUME NEW w \in WorkState, work' = [work EXCEPT ![t] = w], w.files = v.files, w.step # "evict",
               Linked(w, stored),
               ~ evicted => /\ Covers(w, stored, copies, engine)
                            /\ t = "compact" => Merges(w, stored, putting)
        PROVE  ColdInv'
    BY <1>1, <1>2, <1>3, <1>5, PlainMoves DEF ColdInv, ColdShape
  <1>6. CASE v.todo = {}
    <2>1. PICK w : w = [v EXCEPT !.step = "ended"]
      OBVIOUS
    <2>2. work' = [work EXCEPT ![t] = w]
      BY <1>1, <1>6, <2>1 DEF ReadsFile, Does
    <2>3. /\ w \in WorkState /\ w.step = "ended" /\ w.files = v.files /\ Linked(w, stored)
          /\ w.rows = v.rows
      BY <1>2, <2>1 DEF WorkState, Linked
    <2>4. ~ evicted => Covers(w, stored, copies, engine) /\ (t = "compact" => Merges(w, stored, putting))
      BY <1>3, <1>4, <1>6, <2>3 DEF Covers, Merges, Gathering
    <2>. QED
      BY <1>5, <2>2, <2>3, <2>4
  <1>7. CASE v.todo # {}
    <2>1. PICK f : f = LowestOf(v.todo) /\ f = Next1(t)
      BY <1>1 DEF Next1
    <2>2. f \in v.todo
      BY <1>2, <1>7, <2>1, LowestIsIn
    <2>3. PICK found : found = v.rows \cup RowsOf({f})
      OBVIOUS
    <2>4. PICK w : w = [v EXCEPT !.todo = @ \ {f}, !.rows = found]
      OBVIOUS
    <2>5. work' = [work EXCEPT ![t] = w]
      BY <1>1, <1>7, <2>1, <2>3, <2>4 DEF ReadsFile, Does
    <2>6. found \subseteq 1 .. Inputs /\ (f \in DOMAIN stored => stored[f] \subseteq found)
      BY <1>2, <2>3 DEF RowsOf, ColdInv, ColdShape, WorkState
    <2>7. /\ w \in WorkState /\ w.step = "scan" /\ w.files = v.files /\ Linked(w, stored)
          /\ w.todo = v.todo \ {f} /\ w.paths = v.paths /\ w.rows = found
      BY <1>2, <1>3, <2>4, <2>6 DEF WorkState, Linked
    <2>8. v.rows \subseteq w.rows
      BY <2>3, <2>7
    <2>9. ~ evicted => Covers(w, stored, copies, engine)
      BY <1>3, <1>4, <2>6, <2>7, <2>8 DEF Covers, Gathering
    <2>10. ~ evicted => (t = "compact" => Merges(w, stored, putting))
      BY <1>3, <1>4, <2>7 DEF Merges, Gathering
    <2>. QED
      BY <1>5, <2>5, <2>7, <2>9, <2>10
  <1>. QED
    BY <1>6, <1>7

\* A read of what is listed, or a compaction of what there is of its batch.
LEMMA BeginsKeeps ==
  ASSUME ColdInv, NEW t \in Task, NEW files \in SUBSET (DOMAIN stored), Begins(t, files),
         UNCHANGED <<engine, stored, putting, copies, temps, lru, bytes, evicted>>,
         t = "compact" => files \subseteq Batch /\ files # {} /\ Merged \notin DOMAIN stored
  PROVE  ColdInv'
  <1>1. work[t].step = "idle"
    BY DEF Begins, At
  <1>2. PICK w : w = [Idle EXCEPT !.step = IF Copying THEN "ensure" ELSE "scan", !.files = files,
                                  !.todo = files, !.paths = IF Copying THEN {} ELSE files]
    OBVIOUS
  <1>3. work' = [work EXCEPT ![t] = w]
    BY <1>2 DEF Begins, Does
  <1>4. files \subseteq Name
    BY DEF ColdInv, ColdShape
  <1>5. /\ w \in WorkState /\ w.step = (IF Copying THEN "ensure" ELSE "scan") /\ w.files = files
        /\ w.todo = files /\ w.paths = (IF Copying THEN {} ELSE files)
    BY <1>2, <1>4, IdleIsPlain DEF WorkState, Gathering
  <1>6. Linked(w, stored)
    BY <1>5 DEF Linked
  <1>7. Covers(w, stored, copies, engine)
    BY <1>5 DEF Covers, Copying, Gathering
  <1>8. t = "compact" => Merges(w, stored, putting)
    BY <1>5 DEF Merges, Gathering
  <1>9. w.step # "evict" /\ work[t].step # "evict"
    BY <1>1, <1>5
  <1>. QED
    BY <1>3, <1>5, <1>6, <1>7, <1>8, <1>9, PlainMoves DEF ColdInv, ColdShape

LEMMA BeginningsKeep == ASSUME ColdInv, BeginsRead \/ BeginsCompaction PROVE ColdInv'
  <1>1. CASE BeginsRead
    BY <1>1, BeginsKeeps DEF BeginsRead, Task
  <1>2. CASE BeginsCompaction
    <2>1. PICK files : files = Batch \cap DOMAIN stored
      OBVIOUS
    <2>2. files # {}
      <3>1. Cardinality({}) = 0
        BY FS_EmptySet
      <3>2. Cardinality(files) > 1
        BY <1>2, <2>1 DEF BeginsCompaction
      <3>. QED
        BY <3>1, <3>2
    <2>. QED
      BY <1>2, <2>1, <2>2, BeginsKeeps DEF BeginsCompaction, Task
  <1>. QED
    BY <1>1, <1>2

\* The inputs of a compaction that read them all are rows of what it found.
LEMMA MergedHasInputs ==
  ASSUME ColdInv, ~ evicted, work["compact"].step = "ended"
  PROVE  /\ work["compact"].files # {} /\ work["compact"].files \subseteq work["compact"].rows
         /\ Merged \notin DOMAIN stored
  <1>1. /\ Covers(work["compact"], stored, copies, engine) /\ Merges(work["compact"], stored, putting)
        /\ work["compact"].files \subseteq Batch
    BY DEF ColdInv, NothingIsLost, Task
  <1>2. \A f \in work["compact"].files : stored[f] = {f}
    BY <1>1 DEF Merges, ColdInv, ColdShape
  <1>. QED
    BY <1>1, <1>2 DEF Covers, Merges

\* The merged file appears.
LEMMA AddsKeeps ==
  ASSUME ColdInv, NEW rows \in SUBSET (1 .. Inputs), Adds(rows), Does("compact", Deleting),
         putting' \subseteq 1 .. Inputs, UNCHANGED <<engine, copies, temps, lru, bytes, evicted>>,
         work["compact"].step # "evict",
         ~ evicted => work["compact"].files \subseteq rows /\ Merged \notin DOMAIN stored
  PROVE  ColdInv'
  <1>1. PICK v : v = work["compact"]
    OBVIOUS
  <1>2. v \in WorkState /\ Linked(v, stored) /\ v.files \subseteq Batch
    BY <1>1 DEF ColdInv, ColdShape, Task
  <1>3. PICK w : w = [v EXCEPT !.step = "delete", !.todo = v.files]
    OBVIOUS
  <1>4. work' = [work EXCEPT !["compact"] = w]
    BY <1>1, <1>2, <1>3 DEF Does, Deleting, WorkState
  <1>5. /\ w \in WorkState /\ w.step = "delete" /\ w.files = v.files /\ w.todo = v.files
        /\ w.paths = v.paths
    BY <1>2, <1>3 DEF WorkState
  <1>6. /\ DOMAIN stored' = DOMAIN stored \cup {Merged} /\ stored'[Merged] = rows
        /\ \A f \in DOMAIN stored : f # Merged => stored'[f] = stored[f]
    BY DEF Adds
  <1>7. /\ DOMAIN stored' \subseteq Name
        /\ \A f \in DOMAIN stored' : stored'[f] \subseteq 1 .. Inputs /\ (f # Merged => stored'[f] = {f})
    BY <1>6, NamesAreNatural DEF ColdInv, ColdShape
  <1>8. Linked(w, stored')
    BY <1>2, <1>5, <1>6 DEF Linked
  <1>9. ASSUME ~ evicted
        PROVE  /\ Covers(w, stored', copies, engine) /\ Merges(w, stored', putting')
               /\ \A f \in DOMAIN stored' :
                    f # Merged \/ Merged \in DOMAIN stored => f \in DOMAIN stored /\ stored'[f] = stored[f]
               /\ \A i \in 1 .. Inputs :
                    i \in DOMAIN stored' \/ (Merged \in DOMAIN stored' /\ i \in stored'[Merged])
    <2>1. v.files \subseteq rows /\ Merged \notin DOMAIN stored /\ NothingIsLost
      BY <1>1, <1>9 DEF ColdInv
    <2>2. Covers(w, stored', copies, engine) /\ Merges(w, stored', putting')
      BY <1>5, <1>6, <2>1 DEF Covers, Merges, Gathering
    <2>. QED
      BY <1>6, <2>1, <2>2 DEF NothingIsLost
  <1>. QED
    BY <1>2, <1>4, <1>5, <1>6, <1>7, <1>8, <1>9, StoreMoves

LEMMA PutsKeeps == ASSUME ColdInv, Puts \/ Publishes PROVE ColdInv'
  <1>1. PICK v : v = work["compact"]
    OBVIOUS
  <1>2. /\ v \in WorkState /\ Linked(v, stored) /\ v.files \subseteq Batch /\ v.rows \subseteq 1 .. Inputs
        /\ v.step \in {"ended", "publish"}
    BY <1>1 DEF ColdInv, ColdShape, Task, WorkState, Puts, Publishes, At
  <1>3. UNCHANGED <<engine, copies, temps, lru, bytes, evicted>>
    BY DEF Puts, Publishes
  <1>4. CASE Puts
    <2>1. v.step = "ended"
      BY <1>1, <1>4 DEF Puts, At
    <2>2. ~ evicted => v.files # {} /\ v.files \subseteq v.rows /\ Merged \notin DOMAIN stored
      BY <1>1, <2>1, MergedHasInputs
    <2>3. CASE v.rows = {}
      <3>1. PICK w : w = [v EXCEPT !.step = "delete", !.todo = v.files]
        OBVIOUS
      <3>2. work' = [work EXCEPT !["compact"] = w] /\ UNCHANGED <<stored, putting>>
        BY <1>1, <1>2, <1>4, <2>3, <3>1 DEF Puts, Does, Deleting, WorkState
      <3>3. /\ w \in WorkState /\ w.step = "delete" /\ w.files = v.files /\ Linked(w, stored)
        BY <1>2, <3>1 DEF WorkState, Linked
      <3>4. evicted
        BY <2>2, <2>3
      <3>. QED
        BY <1>1, <1>2, <1>3, <3>2, <3>3, <3>4, StoreMoves DEF ColdInv, ColdShape
    <2>4. CASE v.rows # {} /\ engine.remote
      <3>1. Adds(v.rows) /\ Does("compact", Deleting) /\ UNCHANGED putting
        BY <1>1, <1>4, <2>4 DEF Puts
      <3>. QED
        BY <1>1, <1>2, <1>3, <2>2, <3>1, AddsKeeps DEF ColdInv, ColdShape
    <2>5. CASE v.rows # {} /\ ~ engine.remote
      <3>1. PICK w : w = [v EXCEPT !.step = "publish"]
        OBVIOUS
      <3>2. work' = [work EXCEPT !["compact"] = w] /\ UNCHANGED stored /\ putting' = v.rows
        BY <1>1, <1>2, <1>4, <2>5, <3>1 DEF Puts, Does, Compacting, WorkState
      <3>3. w \in WorkState /\ w.step = "publish" /\ w.files = v.files /\ Linked(w, stored)
        BY <1>2, <3>1 DEF WorkState, Linked
      <3>4. ~ evicted => Covers(w, stored, copies, engine) /\ Merges(w, stored, putting')
        <4>1. ~ evicted => Merges(v, stored, putting)
          BY <1>1 DEF ColdInv, NothingIsLost
        <4>. QED
          BY <2>1, <2>2, <3>2, <3>3, <4>1 DEF Covers, Merges, Gathering
      <3>. QED
        BY <1>1, <1>2, <1>3, <3>2, <3>3, <3>4, PlainMoves DEF ColdInv, ColdShape, Task
    <2>. QED
      BY <2>3, <2>4, <2>5
  <1>5. CASE Publishes
    <2>1. v.step = "publish" /\ Adds(putting) /\ putting' = {} /\ Does("compact", Deleting)
      BY <1>1, <1>5 DEF Publishes, At
    <2>2. ~ evicted => v.files \subseteq putting /\ Merged \notin DOMAIN stored
      BY <1>1, <2>1 DEF ColdInv, NothingIsLost, Merges
    <2>3. putting \subseteq 1 .. Inputs
      BY DEF ColdInv, ColdShape
    <2>. QED
      BY <1>1, <1>3, <2>1, <2>2, <2>3, AddsKeeps
  <1>. QED
    BY <1>4, <1>5

\* Inputs that are merged are deleted.
LEMMA RemovesKeeps ==
  ASSUME ColdInv, NEW gone, work["compact"].step = "delete", gone \subseteq work["compact"].files,
         Removes(gone), NEW w \in WorkState, work' = [work EXCEPT !["compact"] = w],
         w.step \in {"delete", "idle"}, w.files \subseteq work["compact"].files, Linked(w, stored),
         putting' = putting, UNCHANGED <<engine, copies, temps, lru, bytes, evicted>>
  PROVE  ColdInv'
  <1>1. PICK v : v = work["compact"]
    OBVIOUS
  <1>2. v \in WorkState /\ v.files \subseteq Batch /\ v.step = "delete"
    BY <1>1 DEF ColdInv, ColdShape, Task
  <1>3. Merged \notin gone /\ Merged \notin w.files
    <2>1. Batch \subseteq 1 .. Inputs
      BY ColdFilesAssumption
    <2>2. Merged \notin Batch
      BY <2>1, ColdFilesAssumption DEF Merged
    <2>3. gone \subseteq v.files /\ w.files \subseteq v.files
      BY <1>1
    <2>. QED
      BY <1>2, <2>2, <2>3
  <1>4. DOMAIN stored' = DOMAIN stored \ gone /\ \A f \in DOMAIN stored' : stored'[f] = stored[f]
    BY DEF Removes
  <1>5. /\ DOMAIN stored' \subseteq Name
        /\ \A f \in DOMAIN stored' : stored'[f] \subseteq 1 .. Inputs /\ (f # Merged => stored'[f] = {f})
    BY <1>4 DEF ColdInv, ColdShape
  <1>6. Linked(w, stored')
    BY <1>3 DEF Linked
  <1>7. ASSUME ~ evicted
        PROVE  /\ Covers(w, stored', copies, engine) /\ Merges(w, stored', putting')
               /\ \A i \in 1 .. Inputs :
                    i \in DOMAIN stored' \/ (Merged \in DOMAIN stored' /\ i \in stored'[Merged])
    <2>1. NothingIsLost /\ Merges(v, stored, putting)
      BY <1>1, <1>7 DEF ColdInv, NothingIsLost
    <2>2. Merged \in DOMAIN stored' /\ stored'[Merged] = stored[Merged] /\ v.files \subseteq stored[Merged]
      BY <1>2, <1>3, <1>4, <2>1 DEF Merges
    <2>3. Covers(w, stored', copies, engine)
      BY DEF Covers, Gathering
    <2>4. Merges(w, stored', putting')
      BY <1>1, <2>2 DEF Merges, Gathering
    <2>5. ASSUME NEW i \in 1 .. Inputs PROVE i \in DOMAIN stored' \/ i \in stored'[Merged]
      BY <1>1, <1>4, <2>1, <2>2 DEF NothingIsLost
    <2>. QED
      BY <2>2, <2>3, <2>4, <2>5
  <1>8. putting' \subseteq 1 .. Inputs /\ (Merged \in DOMAIN stored => Merged \in DOMAIN stored')
    BY <1>3, <1>4 DEF ColdInv, ColdShape
  <1>9. w.files \subseteq Batch /\ w.step # "evict" /\ work["compact"].step # "evict"
    BY <1>1, <1>2
  <1>. QED
    BY <1>4, <1>5, <1>6, <1>7, <1>8, <1>9, StoreMoves

LEMMA DeletesKeeps == ASSUME ColdInv, Deletes PROVE ColdInv'
  <1>1. PICK v : v = work["compact"]
    OBVIOUS
  <1>2. /\ v \in WorkState /\ Linked(v, stored) /\ v.step = "delete" /\ v.todo \in SUBSET Nat
    BY <1>1, NamesAreNatural
       DEF ColdInv, ColdShape, Task, WorkState, Deletes, DeletesOne, DeletesAll, At
  <1>3. UNCHANGED <<engine, putting, copies, temps, lru, bytes, evicted>>
    BY DEF Deletes
  <1>4. PICK idle : idle = Idle
    OBVIOUS
  <1>5. idle \in WorkState /\ idle.step = "idle" /\ idle.files = {} /\ Linked(idle, stored)
    BY <1>4, IdleIsPlain
  <1>6. CASE DeletesOne
    <2>1. CASE v.todo = {}
      <3>1. work' = [work EXCEPT !["compact"] = idle] /\ UNCHANGED stored
        BY <1>1, <1>4, <1>6, <2>1 DEF DeletesOne, Does
      <3>2. idle.files \subseteq Batch /\ idle.step # "evict" /\ v.step # "evict"
        BY <1>2, <1>5
      <3>3. Covers(idle, stored, copies, engine) /\ Merges(idle, stored, putting)
        BY <1>4, IdleIsPlain
      <3>. QED
        BY <1>1, <1>3, <1>5, <3>1, <3>2, <3>3, PlainMoves DEF ColdInv, ColdShape, Task
    <2>2. CASE v.todo # {}
      <3>1. PICK f : f = LowestOf(v.todo)
        OBVIOUS
      <3>2. f \in v.todo
        BY <1>2, <2>2, <3>1, LowestIsIn
      <3>3. PICK w : w = [v EXCEPT !.todo = @ \ {f}]
        OBVIOUS
      <3>4. Removes({f}) /\ work' = [work EXCEPT !["compact"] = w]
        BY <1>1, <1>6, <2>2, <3>1, <3>3 DEF DeletesOne, Does
      <3>5. w \in WorkState /\ w.step = "delete" /\ w.files = v.files /\ Linked(w, stored)
        BY <1>2, <3>3 DEF WorkState, Linked
      <3>6. {f} \subseteq v.files
        BY <1>2, <3>2 DEF Linked
      <3>. QED
        BY <1>1, <1>2, <1>3, <3>4, <3>5, <3>6, RemovesKeeps
    <2>. QED
      BY <2>1, <2>2
  <1>7. CASE DeletesAll
    <2>1. CASE Removes(v.todo) /\ Does("compact", Idle)
      <3>1. v.todo \subseteq v.files
        BY <1>2 DEF Linked
      <3>2. work' = [work EXCEPT !["compact"] = idle]
        BY <1>4, <2>1 DEF Does
      <3>. QED
        BY <1>1, <1>2, <1>3, <1>5, <2>1, <3>1, <3>2, RemovesKeeps
    <2>2. CASE UNCHANGED <<stored, work>>
      BY <1>3, <2>2 DEF ColdInv, ColdShape, CacheIsBounded, NothingIsLost
    <2>. QED
      BY <1>1, <1>7, <2>1, <2>2 DEF DeletesAll
  <1>. QED
    BY <1>6, <1>7 DEF Deletes

LEMMA CompactionFailsKeeps == ASSUME ColdInv, CompactionFails PROVE ColdInv'
  <1>1. PICK v : v = work["compact"]
    OBVIOUS
  <1>2. /\ v \in WorkState /\ Linked(v, stored) /\ v.files \subseteq Batch /\ v.step # "evict"
    BY <1>1 DEF ColdInv, ColdShape, Task, CompactionFails
  <1>3. PICK w : w = [v EXCEPT !.step = "failed"]
    OBVIOUS
  <1>4. /\ work' = [work EXCEPT !["compact"] = w] /\ putting' = {}
        /\ UNCHANGED <<engine, stored, copies, temps, lru, bytes, evicted>>
    BY <1>1, <1>3 DEF CompactionFails, Gives, Does
  <1>5. w \in WorkState /\ w.step = "failed" /\ w.files = v.files /\ Linked(w, stored)
    BY <1>2, <1>3 DEF WorkState, Linked
  <1>6. Covers(w, stored, copies, engine) /\ Merges(w, stored, putting')
    BY <1>5 DEF Covers, Merges, Gathering
  <1>. QED
    BY <1>1, <1>2, <1>4, <1>5, <1>6, PlainMoves DEF ColdInv, ColdShape, Task

\* After a restart nothing is in hand and nothing known; copies and files are as they were.
LEMMA RestartsKeeps == ASSUME ColdInv, Restarts PROVE ColdInv'
  <1>1. /\ lru' = <<>> /\ bytes' = 0 /\ putting' = {} /\ temps' = [f \in Name |-> "none"]
        /\ UNCHANGED <<engine, stored, copies, evicted>>
    BY DEF Restarts
  <1>2. \A t \in Task : work'[t] = Idle
    BY DEF Restarts
  <1>3. lru' \in Seq(Name) /\ Len(lru') = 0
    BY <1>1
  <1>4. work' \in [Task -> WorkState]
    BY IdleIsPlain DEF Restarts
  <1>5. ColdShape'
    BY <1>1, <1>3, <1>4 DEF ColdInv, ColdShape, CopyState
  <1>6. CacheIsBounded'
    BY <1>1, <1>3 DEF CacheIsBounded
  <1>7. \A t \in Task : Linked(work'[t], stored')
    BY <1>2, IdleIsPlain
  <1>8. work'["compact"].files \subseteq Batch
    BY <1>2, IdleIsPlain DEF Task
  <1>9. ASSUME ~ evicted' PROVE NothingIsLost'
    <2>1. \A t \in Task : work'[t].step # "evict" /\ Covers(work'[t], stored', copies', engine')
      BY <1>2, IdleIsPlain
    <2>2. Merges(work'["compact"], stored', putting')
      BY <1>2, IdleIsPlain DEF Task
    <2>3. \A i \in 1 .. Inputs :
            i \in DOMAIN stored' \/ (Merged \in DOMAIN stored' /\ i \in stored'[Merged])
      BY <1>1, <1>9 DEF ColdInv, NothingIsLost
    <2>4. \A i \in 1 .. Len(lru') : copies'[lru'[i]] # "none"
      BY <1>3
    <2>. QED
      BY <2>1, <2>2, <2>3, <2>4 DEF NothingIsLost
  <1>. QED
    BY <1>5, <1>6, <1>7, <1>8, <1>9 DEF ColdInv

LEMMA ColdKeeps == ASSUME ColdInv, ColdNext PROVE ColdInv'
  BY BeginningsKeep, PutsKeeps, DeletesKeeps, CompactionFailsKeeps, RestartsKeeps, CacheHitKeeps,
     FetchesAndWritesKeep, StatsKeeps, RenamesKeeps, EvictsKeeps, AnswersKeeps, ScansKeeps,
     ReadsFileKeeps DEF ColdNext

LEMMA ColdBegins == ColdInit => ColdInv
  <1>. SUFFICES ASSUME ColdInit PROVE ColdInv
    OBVIOUS
  <1>1. lru = <<>> /\ lru \in Seq(Name) /\ Len(lru) = 0 /\ bytes = 0 /\ ~ evicted /\ putting = {}
    BY DEF ColdInit
  <1>2. \A t \in Task : work[t] = Idle
    BY DEF ColdInit
  <1>3. DOMAIN stored = 1 .. Inputs /\ \A f \in 1 .. Inputs : stored[f] = {f}
    BY DEF ColdInit
  <1>4. engine \in [name : {"hyparquet", "duckdb"}, remote : BOOLEAN, budget : Nat]
    BY ColdFilesAssumption DEF ColdInit
  <1>5. work \in [Task -> WorkState]
    BY IdleIsPlain DEF ColdInit
  <1>6. copies \in [Name -> CopyState] /\ temps \in [Name -> CopyState]
    BY DEF ColdInit, CopyState
  <1>7. ColdShape
    <2>1. evicted \in BOOLEAN
      BY DEF ColdInit
    <2>2. bytes \in Nat /\ putting \subseteq 1 .. Inputs
      BY <1>1
    <2>3. DOMAIN stored \subseteq Name
      <3>1. 1 .. Inputs \subseteq Name
        BY ColdFilesAssumption DEF Name, Merged
      <3>. QED
        BY <1>3, <3>1
    <2>4. \A f \in DOMAIN stored : stored[f] \subseteq 1 .. Inputs /\ (f # Merged => stored[f] = {f})
      BY <1>3
    <2>. QED
      BY <1>1, <1>4, <1>5, <1>6, <2>1, <2>2, <2>3, <2>4 DEF ColdShape
  <1>8. CacheIsBounded
    BY <1>1 DEF CacheIsBounded
  <1>9. (\A t \in Task : Linked(work[t], stored)) /\ work["compact"].files \subseteq Batch
    BY <1>2, IdleIsPlain DEF Task
  <1>10. NothingIsLost
    <2>1. \A t \in Task : work[t].step # "evict" /\ Covers(work[t], stored, copies, engine)
      BY <1>2, IdleIsPlain
    <2>2. Merges(work["compact"], stored, putting)
      BY <1>2, IdleIsPlain DEF Task
    <2>. QED
      BY <1>1, <1>3, <2>1, <2>2 DEF NothingIsLost
  <1>. QED
    BY <1>7, <1>8, <1>9, <1>10 DEF ColdInv

LEMMA FilesAreWhole == ColdInv => ColdFilesAreWhole
  <1>. SUFFICES ASSUME ColdInv PROVE ColdFilesAreWhole
    OBVIOUS
  <1>1. ASSUME ~ evicted
        PROVE  /\ 1..Inputs \subseteq RowsOf(DOMAIN stored)
               /\ work["read"].step = "ended" => RowsOf(work["read"].files) \subseteq work["read"].rows
    <2>1. NothingIsLost
      BY <1>1 DEF ColdInv
    <2>2. ASSUME NEW i \in 1 .. Inputs, i \in DOMAIN stored PROVE i \in stored[i]
      <3>1. i # Merged
        BY ColdFilesAssumption DEF Merged
      <3>2. stored[i] = {i}
        BY <2>2, <3>1 DEF ColdInv, ColdShape
      <3>. QED
        BY <3>2
    <2>3. 1..Inputs \subseteq RowsOf(DOMAIN stored)
      BY <2>1, <2>2 DEF NothingIsLost, RowsOf
    <2>4. Covers(work["read"], stored, copies, engine)
      BY <2>1 DEF NothingIsLost, Task
    <2>5. work["read"].step = "ended" => RowsOf(work["read"].files) \subseteq work["read"].rows
      BY <2>4 DEF Covers, RowsOf
    <2>. QED
      BY <2>3, <2>5
  <1>2. ASSUME \A t \in Task : ~ At(t, "evict")
        PROVE  Len(lru) <= 1 \/ Len(lru) <= engine.budget
    <2>1. Len(lru) \in Nat /\ bytes \in Nat /\ engine.budget \in Nat
      BY LenProperties DEF ColdInv, ColdShape
    <2>2. Len(lru) <= bytes /\ (Len(lru) <= 1 \/ bytes <= engine.budget)
      BY <1>2 DEF ColdInv, CacheIsBounded, At
    <2>. QED
      BY <2>1, <2>2
  <1>. QED
    BY <1>1, <1>2 DEF ColdFilesAreWhole

LEMMA FilesOrNot == [HostNext]_<<busy, hostServiceVars>> => ColdNext \/ UNCHANGED coldVars
  BY DEF HostNext, Diagnosing, Pruning, Capturing, Alerting, Streaming, Limiting, Reading, hostServiceVars

\* For any number of files, batch and budget, whichever engine and location, and whatever fails
\* or restarts: as long as no local copy was evicted a compaction loses no row and a read that
\* succeeds has the rows of what it listed and is still there, and the cache is within its budget
\* once nobody evicts (parquet.ts, duckdb_engine.ts, local_file_cache.ts).
THEOREM FilesStayWhole == HostSpec => []ColdFilesAreWhole
  <1>1. HostInit => ColdInv
    BY ColdBegins DEF HostInit
  <1>2. ColdInv /\ [HostNext]_<<busy, hostServiceVars>> => ColdInv'
    <2>1. ASSUME ColdInv, UNCHANGED coldVars PROVE ColdInv'
      BY <2>1 DEF coldVars, ColdInv, ColdShape, CacheIsBounded, NothingIsLost
    <2>. QED
      BY <2>1, FilesOrNot, ColdKeeps
  <1>. QED
    BY <1>1, <1>2, FilesAreWhole, PTL DEF HostSpec
=============================================================================

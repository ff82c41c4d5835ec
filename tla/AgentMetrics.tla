---------------------------- MODULE AgentMetrics ----------------------------
(***************************************************************************)
(* What the agent library publishes on its diagnostics channels: the       *)
(* observations read from it, the registry of series with its cap, the     *)
(* OpenTelemetry instruments, and the AI screen that is computed from the  *)
(* entries the generic watcher records of the same events.                 *)
(***************************************************************************)
EXTENDS Integers, Sequences, SequencesExt, FiniteSets, FiniteSetsExt, Functions, TLC

CONSTANTS Payloads,  \* usage payloads: cost, source, feature, actor and calls
          MaxSeries, \* maxSeriesPerMetric
          MaxEvents, \* bound: events published
          Probed     \* entries the probe of the AI screen reads

\* No call has a price below zero; -1 is a call without a price.
ASSUME AgentAssumption ==
  /\ {MaxSeries, MaxEvents, Probed} \subseteq Nat
  /\ \A p \in Payloads : p.cost \in Nat \cup {-1} /\ p.requests \in Int

NoCost == -1
PLATFORM == "@platform"

VARIABLES ledger,    \* the diagnostic entries of the library, oldest first
          series,    \* registry: feature and source -> calls, cost and points of that series
          dropped,   \* registry: points of a series that found no room
          exported,  \* points the instruments of the exporter took
          exporting, \* the exporter: off, on or stopped
          passed,    \* history: usage events published while each was subscribed
          aiRead     \* getAi(): reads under way, and what they brought

agentVars == <<ledger, series, dropped, exported, exporting, passed, aiRead>>

Resting == [step |-> "idle", pending |-> {}, got |-> {}, probe |-> FALSE, copies |-> 0]

AgentInit ==
  /\ ledger = <<>> /\ series = <<>> /\ dropped = 0 /\ exported = 0 /\ exporting = "off"
  /\ passed = [registry |-> 0, exporter |-> 0] /\ aiRead = Resting

\* AGENT_METRIC_EVENTS, and one of a library too old to publish them.
UsageEvent == "usage.recorded"
RunEvents == {"run.finished", "run.failed", "run.cancelled"}
MetricEvents == {UsageEvent} \cup RunEvents
LegacyEvent == "step.done"

\* readUsage(): the source of a cost nobody stated is "none"; calls below zero are one call.
ReadUsage(p) ==
  [kind |-> "usage", cost |-> p.cost, feature |-> p.feature, actor |-> p.actor,
   source |-> IF p.cost = NoCost THEN "none"
              ELSE IF p.source \in {"provider", "estimate"} THEN p.source ELSE "provider",
   platform |-> p.actor = PLATFORM,
   requests |-> IF p.requests >= 0 THEN p.requests ELSE 1]

RunStatus == ("run.finished" :> "completed") @@ ("run.failed" :> "failed")
               @@ ("run.cancelled" :> "cancelled")

\* readAgentEvent(), as a set of at most one observation.
ReadAgentEvent(event, payload) ==
  IF event = UsageEvent THEN {ReadUsage(payload)}
  ELSE IF event \in RunEvents THEN {[kind |-> "run", status |-> RunStatus[event]]} ELSE {}

Cost(u) == IF u.cost = NoCost THEN 0 ELSE u.cost

\* Mutant: the cap is looked at before the series is looked up.
AddCapped(u) ==
  LET key == <<u.feature, u.source>>
  IN  IF Cardinality(DOMAIN series) >= MaxSeries THEN dropped' = dropped + 1 /\ UNCHANGED series
      ELSE /\ series' = (key :> [calls |-> u.requests, points |-> 1]) @@ series
           /\ UNCHANGED dropped

\* add(): a series that exists takes the point; a new one needs room.
AddPoint(u) ==
  LET key == <<u.feature, u.source>>
  IN  IF key \in DOMAIN series
        THEN /\ series' = [series EXCEPT ![key] = [calls |-> @.calls + u.requests,
                                                   points |-> @.points + 1]]
             /\ UNCHANGED dropped
      ELSE IF Cardinality(DOMAIN series) >= MaxSeries
        THEN dropped' = dropped + 1 /\ UNCHANGED series
      ELSE /\ series' = [k \in DOMAIN series \cup {key} |->
                           IF k = key THEN [calls |-> u.requests, points |-> 1] ELSE series[k]]
           /\ UNCHANGED dropped

\* One event on its channel: the watcher records the entry, the registry and the exporter,
\* when it is subscribed, observe it.
Publish(event, payload) ==
  /\ Len(ledger) < MaxEvents
  /\ ledger' = Append(ledger, [id |-> Len(ledger) + 1, event |-> event, payload |-> payload])
  /\ IF event = UsageEvent
       THEN /\ AddPoint(ReadUsage(payload))
            /\ exported' = IF exporting = "on" THEN exported + 1 ELSE exported
            /\ passed' = [registry |-> passed.registry + 1,
                          exporter |-> passed.exporter + IF exporting = "on" THEN 1 ELSE 0]
       ELSE UNCHANGED <<series, dropped, exported, passed>>
  /\ UNCHANGED <<exporting, aiRead>>

\* createOtelMetricsExporter(), once the SDK is loaded, and its shutdown().
ExporterStarts == exporting = "off" /\ exporting' = "on"
                    /\ UNCHANGED <<ledger, series, dropped, exported, passed, aiRead>>
ExporterStops == exporting = "on" /\ exporting' = "stopped"
                   /\ UNCHANGED <<ledger, series, dropped, exported, passed, aiRead>>

-----------------------------------------------------------------------------
(* The AI screen                                                           *)

\* getAi(): one read per event, all under way at once.
AiBegins ==
  /\ aiRead.step = "idle"
  /\ aiRead' = [Resting EXCEPT !.step = "reading", !.pending = MetricEvents]
  /\ UNCHANGED <<ledger, series, dropped, exported, exporting, passed>>

AiReads(event) ==
  /\ aiRead.step = "reading" /\ event \in aiRead.pending
  /\ LET own == {e \in ToSet(ledger) : e.event = event}
     IN  aiRead' = [aiRead EXCEPT !.pending = @ \ {event}, !.got = @ \cup own,
                      !.copies = @ + Cardinality(own),
                      !.probe = IF event = UsageEvent THEN own = {} ELSE @]
  /\ UNCHANGED <<ledger, series, dropped, exported, exporting, passed>>

\* Mutant: what the probe finds is added without looking at what is there.
ProbedAgain(found, seen) == Cardinality(found)

NewOnes(found, seen) == Cardinality(found \ seen)

\* No usage at all in the window: the newest entries of the library, those not seen yet.
AiProbes ==
  /\ aiRead.step = "reading" /\ aiRead.pending = {}
  /\ LET found == IF aiRead.probe
                    THEN ToSet(SubSeq(ledger, Max({1, Len(ledger) - Probed + 1}), Len(ledger)))
                    ELSE {}
     IN  aiRead' = [aiRead EXCEPT !.step = "done", !.got = @ \cup found,
                      !.copies = @ + NewOnes(found, aiRead.got)]
  /\ UNCHANGED <<ledger, series, dropped, exported, exporting, passed>>

AiLeaves ==
  /\ aiRead.step = "done" /\ aiRead' = Resting
  /\ UNCHANGED <<ledger, series, dropped, exported, exporting, passed>>

\* addTo(): the row of a feature, a model or an actor.
SpendRow(us, key) ==
  [key |-> key, cost |-> MapThenSumSet(LAMBDA e : Cost(ReadUsage(e.payload)), us),
   calls |-> MapThenSumSet(LAMBDA e : ReadUsage(e.payload).requests, us),
   unpriced |-> MapThenSumSet(LAMBDA e : ReadUsage(e.payload).requests, {e \in us : e.payload.cost = NoCost})]

\* summarizeAiUsage() of the entries read.
Summary ==
  LET us == {e \in aiRead.got : e.event = UsageEvent}
      Usage(e) == ReadUsage(e.payload)
      By(Key(_)) == {SpendRow({e \in us : Key(e) = k}, k) : k \in {Key(e) : e \in us}}
  IN  [spend |-> SpendRow(us, "all"),
       platform |-> MapThenSumSet(LAMBDA e : Cost(Usage(e)), {e \in us : Usage(e).platform}),
       estimated |-> MapThenSumSet(LAMBDA e : Cost(Usage(e)), {e \in us : Usage(e).source = "estimate"}),
       byFeature |-> By(LAMBDA e : Usage(e).feature), byActor |-> By(LAMBDA e : Usage(e).actor),
       unpriced |-> {SpendRow({e \in us : Usage(e).source = "none" /\ Usage(e).feature = f}, f) :
                       f \in {Usage(e).feature : e \in {x \in us : Usage(x).source = "none"}}},
       runs |-> Cardinality({e \in aiRead.got : e.event \in RunEvents}),
       legacy |-> aiRead.got # {} /\ us = {}]

AgentNext ==
  \/ \E p \in Payloads : Publish(UsageEvent, p)
  \/ \E event \in RunEvents \cup {LegacyEvent} : Publish(event, [cost |-> NoCost])
  \/ ExporterStarts \/ ExporterStops
  \/ AiBegins \/ AiProbes \/ AiLeaves \/ \E event \in MetricEvents : AiReads(event)

AgentSpec == AgentInit /\ [][AgentNext]_agentVars

-----------------------------------------------------------------------------
(* Properties                                                              *)

\* The points of all series.
PointsIn(s) == MapThenSumSet(LAMBDA k : s[k].points, DOMAIN s)

\* Nothing observed is lost silently: every point is in a series or counted as dropped, there
\* are never more series than the cap, and the exporter took what was published while it was
\* subscribed (agent_metrics.ts, otel_metrics_exporter.ts).
PointsAreAccounted ==
  /\ passed.registry = dropped + PointsIn(series)
  /\ Cardinality(DOMAIN series) <= MaxSeries
  /\ exported = passed.exporter
  /\ \A e \in ToSet(ledger) : e.event = UsageEvent
       => LET u == ReadUsage(e.payload)
          IN  dropped > 0 \/ <<u.feature, u.source>> \in DOMAIN series

\* The AI screen counts each event once although its reads see different moments, and its
\* breakdowns add up to its totals: by feature, by actor, and the calls nobody priced.
SpendAddsUp ==
  aiRead.step = "done" =>
    LET s == Summary
        Whole(rows) == /\ MapThenSumSet(LAMBDA r : r.cost, rows) = s.spend.cost
                       /\ MapThenSumSet(LAMBDA r : r.calls, rows) = s.spend.calls
    IN  /\ aiRead.copies = Cardinality(aiRead.got)
        /\ Whole(s.byFeature) /\ Whole(s.byActor)
        /\ MapThenSumSet(LAMBDA r : r.calls, s.unpriced) = s.spend.unpriced
        /\ s.platform <= s.spend.cost /\ s.estimated <= s.spend.cost
        /\ s.legacy => s.spend.calls = 0

\* No usage is lost or counted twice, in the registry, the exporter or the AI screen.
UsageIsAccounted == PointsAreAccounted /\ SpendAddsUp
=============================================================================

---------------------------- MODULE HostServices ----------------------------
(***************************************************************************)
(* The background services of one host process side by side: diagnosis,     *)
(* pruner, profiler, threshold alerts, live stream, the endpoint of the     *)
(* browser and the files of the cold tier.  They share the process and no   *)
(* state: a behaviour exercises one of them, the others stay as they began, *)
(* so that the states explored are the sum of theirs and not the product.   *)
(***************************************************************************)
EXTENDS Diagnosis, Pruner, Profiling, MetricAlerts, LiveStream, ClientErrors, ColdFiles

VARIABLE busy  \* the service that this behaviour exercises

hostServiceVars == <<diagVars, prunerVars, profVars, alertVars, streamVars, limitVars, coldVars>>

HostInit ==
  /\ busy \in {"diagnosis", "pruner", "profiler", "alerts", "stream", "limiter", "files"}
  /\ DiagInit /\ PrunerInit /\ ProfInit /\ AlertsInit /\ StreamInit /\ LimitInit /\ ColdInit
  /\ busy = "files" \/ engine = [name |-> "hyparquet", remote |-> FALSE, budget |-> LowestOf(Budgets)]

Diagnosing ==
  /\ busy = "diagnosis" /\ DiagNext
  /\ UNCHANGED <<busy, prunerVars, profVars, alertVars, streamVars, limitVars, coldVars>>

Pruning ==
  /\ busy = "pruner" /\ PrunerNext
  /\ UNCHANGED <<busy, diagVars, profVars, alertVars, streamVars, limitVars, coldVars>>

Capturing ==
  /\ busy = "profiler" /\ ProfNext
  /\ UNCHANGED <<busy, diagVars, prunerVars, alertVars, streamVars, limitVars, coldVars>>

Alerting ==
  /\ busy = "alerts" /\ AlertsNext
  /\ UNCHANGED <<busy, diagVars, prunerVars, profVars, streamVars, limitVars, coldVars>>

Streaming ==
  /\ busy = "stream" /\ StreamNext
  /\ UNCHANGED <<busy, diagVars, prunerVars, profVars, alertVars, limitVars, coldVars>>

Limiting ==
  /\ busy = "limiter" /\ LimitNext
  /\ UNCHANGED <<busy, diagVars, prunerVars, profVars, alertVars, streamVars, coldVars>>

Reading ==
  /\ busy = "files" /\ ColdNext
  /\ UNCHANGED <<busy, diagVars, prunerVars, profVars, alertVars, streamVars, limitVars>>

HostNext == Diagnosing \/ Pruning \/ Capturing \/ Alerting \/ Streaming \/ Limiting \/ Reading

HostSpec == HostInit /\ [][HostNext]_<<busy, hostServiceVars>> /\ DiagFairness

-----------------------------------------------------------------------------
(* Properties                                                              *)

\* Work that callers share is done once at a time: the task of a diagnosis, the cycle of
\* one pruner (diagnosis_coordinator.ts, pruner.ts), and each gets the answer of its own.
WorkIsShared == CallersCoalesce /\ DiagnosesMatch /\ OneCycleAtATime

\* What is taken is given back or kept within its bound, and what is left over is named:
\* profiler slots, sessions and armed captures, subscribers and heartbeats, the tokens of an
\* address (profiler_service.ts, cpu-profiler.ts, stream_handler.ts, rate_limiter.ts).
TakenIsReturned == SlotsAreGivenBack /\ ArmedIsCaptured /\ StreamsAreCleaned /\ BudgetIsKept

\* The pages of a rule alternate and a raise keeps its cooldown, however slow the store and
\* the channels are (alerter_service.ts).
RulePagesAreSound == PagesAlternate /\ RaisesKeepCooldown
=============================================================================

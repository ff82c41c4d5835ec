------------------------------- MODULE Pruner -------------------------------
(***************************************************************************)
(* One TelescopePruner: the interval that starts scheduled cycles, manual  *)
(* cycles on demand, the cycle in flight they share, and the ring of       *)
(* recent runs.  What a cycle deletes is the store's business; here it     *)
(* takes as long as the store likes and ends with a count or an error.     *)
(*                                                                         *)
(* A host may build a pruner of its own beside the provider's: each has    *)
(* its own cycle in flight, and their cycles do overlap.  What two cycles  *)
(* at once do to the tiers is in TieredStore, whose pods are such cycles.  *)
(***************************************************************************)
EXTENDS Integers, Sequences, FiniteSets

CONSTANTS Asker,        \* callers of pruneNow(), each asks once
          MaxPruneRuns, \* MAX_PRUNE_RUNS
          MaxCycles     \* bound: cycles begun

ASSUME PrunerAssumption == MaxPruneRuns \in Nat \ {0} /\ MaxCycles \in Nat

VARIABLES timer,     \* the interval is armed
          running,   \* cycles inside store.prune(), with their trigger
          inFlightCycle, \* this.inFlight, as a set
          begun,     \* cycles begun, which numbers them
          runs,      \* this.runs, newest first
          askedFor,  \* caller -> the cycle it waits for, 0 before it asks
          outcome    \* cycle -> what it resolved to, -1 while it runs

prunerVars == <<timer, running, inFlightCycle, begun, runs, askedFor, outcome>>

PrunerInit ==
  /\ timer = FALSE /\ running = {} /\ inFlightCycle = {} /\ begun = 0
  /\ runs = <<>>
  /\ askedFor = [a \in Asker |-> 0]
  /\ outcome = [n \in 1 .. MaxCycles |-> -1]

\* start() and stop(): a cycle in flight is left alone.
StartPruner ==
  /\ ~ timer /\ timer' = TRUE
  /\ UNCHANGED <<running, inFlightCycle, begun, runs, askedFor, outcome>>

StopPruner ==
  /\ timer /\ timer' = FALSE
  /\ UNCHANGED <<running, inFlightCycle, begun, runs, askedFor, outcome>>

\* runExclusive(), up to the await of the store.
Begin(trigger) ==
  /\ begun < MaxCycles
  /\ begun' = begun + 1
  /\ running' = running \cup {<<begun + 1, trigger>>}
  /\ inFlightCycle' = {begun + 1}

\* Mutant: the interval does not look whether a cycle is in flight.
TickRegardless == timer

\* The interval's guard.
MayTick == timer /\ inFlightCycle = {}

ScheduledCycle ==
  /\ MayTick
  /\ Begin("scheduled")
  /\ UNCHANGED <<timer, runs, askedFor, outcome>>

\* pruneNow(): share the cycle in flight, or begin one.
PruneNow(a) ==
  /\ askedFor[a] = 0
  /\ IF inFlightCycle # {}
       THEN /\ askedFor' = [askedFor EXCEPT ![a] = CHOOSE n \in inFlightCycle : TRUE]
            /\ UNCHANGED <<running, inFlightCycle, begun>>
       ELSE Begin("manual") /\ askedFor' = [askedFor EXCEPT ![a] = begun + 1]
  /\ UNCHANGED <<timer, runs, outcome>>

\* recordRun(): newest first, the oldest leaves past the cap.
RecordRun(run) ==
  runs' = SubSeq(<<run>> \o runs, 1,
                 IF Len(runs) < MaxPruneRuns THEN Len(runs) + 1 ELSE MaxPruneRuns)

\* The store answers or throws: the run is recorded, the promise resolves with what was
\* deleted (nothing, after an error), and finally{} frees the slot.
CycleEnds ==
  \E cycle \in running, deleted \in 0 .. 1, failed \in BOOLEAN :
    /\ failed => deleted = 0
    /\ running' = running \ {cycle}
    /\ RecordRun([number |-> cycle[1], trigger |-> cycle[2], deleted |-> deleted,
                  failed |-> failed])
    /\ outcome' = [outcome EXCEPT ![cycle[1]] = deleted]
    /\ inFlightCycle' = {}
    /\ UNCHANGED <<timer, begun, askedFor>>

PrunerNext ==
  \/ StartPruner \/ StopPruner \/ ScheduledCycle \/ CycleEnds
  \/ \E a \in Asker : PruneNow(a)

-----------------------------------------------------------------------------
(* Properties                                                              *)

\* Two cycles of one pruner never run together, whoever asked for them: the second would
\* copy the same entries to the cold tier (pruner.ts); and a manual caller is given the
\* outcome of a cycle that was running after it asked.  Cycles of two pruners may overlap.
OneCycleAtATime ==
  /\ Cardinality(running) <= 1
  /\ inFlightCycle = {c[1] : c \in running}
  /\ \A a \in Asker : askedFor[a] # 0 =>
       (outcome[askedFor[a]] = -1 <=> askedFor[a] \in inFlightCycle)
  /\ \A i \in DOMAIN runs : /\ outcome[runs[i].number] = runs[i].deleted
                            /\ runs[i].number = runs[1].number - i + 1
=============================================================================

------------------------------ MODULE Diagnosis ------------------------------
(***************************************************************************)
(* The diagnosis of exceptions by a language model: the coordinator, which  *)
(* lets concurrent callers of one family share a task and bounds its wait,  *)
(* the diagnoser with its model call, and the cache it reads and writes.    *)
(*                                                                         *)
(* Every caller asks once.  A task has the name of the caller that began it,*)
(* a diagnosis that of the task whose model call wrote it.                  *)
(***************************************************************************)
EXTENDS Integers, Sequences, SequencesExt, FiniteSets

CONSTANTS Caller,     \* an alert, an MCP request, a click on the dashboard
          Family,     \* family hashes of exceptions
          NoFamily,   \* an exception without one
          CacheCap,   \* maxEntries of the cache
          CacheTtl,   \* ttlMs of the cache
          MaxDiagTime \* the clock stops here

ASSUME DiagnosisAssumption ==
  /\ NoFamily \notin Family /\ "idle" \notin Family \cup {NoFamily}
  /\ CacheCap \in Nat \ {0} /\ CacheTtl \in Nat \ {0} /\ MaxDiagTime \in Nat

VARIABLES about,    \* caller -> the family it asks about, "idle" before it asks
          joined,   \* caller -> the task whose promise it holds
          task,     \* task -> none, pending or settled
          call,     \* task -> its model call: none, open or ended
          result,   \* task -> the diagnosis it settled with, or "null"
          inFlight, \* family -> the task in flight
          cache,    \* <<family, diagnosis, storedAt>>, the coldest first
          diagNow

diagVars == <<about, joined, task, call, result, inFlight, cache, diagNow>>

DiagInit ==
  /\ about = [c \in Caller |-> "idle"] /\ joined = [c \in Caller |-> c]
  /\ task = [c \in Caller |-> "none"] /\ call = [c \in Caller |-> "none"]
  /\ result = [c \in Caller |-> "null"]
  /\ inFlight = [f \in {} |-> 0]
  /\ cache = <<>> /\ diagNow = 0

-----------------------------------------------------------------------------
(* The cache                                                               *)

\* The position of the row of a family, as a set, and the cache without that row.
RowOf(f) == {i \in DOMAIN cache : cache[i][1] = f}
Without(f) == IF RowOf(f) = {} THEN cache ELSE RemoveAt(cache, CHOOSE i \in RowOf(f) : TRUE)
Cached(f) == {cache[i] : i \in RowOf(f)}
Fresh(row) == diagNow - row[3] < CacheTtl

\* get(): an expired row is dropped, one that is served becomes the warmest.
CacheGet(f) ==
  cache' = IF \E row \in Cached(f) : Fresh(row)
           THEN Append(Without(f), CHOOSE row \in Cached(f) : TRUE) ELSE Without(f)

\* set(): the row becomes the warmest, the coldest leave beyond the cap.
CacheSet(f, diagnosis) ==
  LET rows == Append(Without(f), <<f, diagnosis, diagNow>>)
  IN  cache' = IF Len(rows) > CacheCap THEN SubSeq(rows, Len(rows) - CacheCap + 1, Len(rows)) ELSE rows

-----------------------------------------------------------------------------
(* The coordinator                                                         *)

Pending(c) == task[c] = "pending"

\* Mutant: the task is put in flight when its model call ends.
JoinNobody(c, f) == FALSE

\* A task in flight for the family is shared, whatever the caller forces.
Joins(c, f) == f \in DOMAIN inFlight

\* The task resolves; its finally takes it out of flight before any caller sees it.
Leaves(c, f) == inFlight' = [g \in {h \in DOMAIN inFlight : inFlight[h] # c} |-> inFlight[g]]

\* diagnose(): join, be served from the cache, or begin a task with a model call.
Diagnose(c) ==
  /\ about[c] = "idle"
  /\ \E f \in Family \cup {NoFamily}, force \in BOOLEAN :
       /\ about' = [about EXCEPT ![c] = f]
       /\ IF Joins(c, f)
            THEN /\ joined' = [joined EXCEPT ![c] = inFlight[f]]
                 /\ UNCHANGED <<task, call, result, inFlight, cache>>
            ELSE /\ UNCHANGED joined
                 /\ IF f # NoFamily /\ ~ force THEN CacheGet(f) ELSE UNCHANGED cache
                 /\ IF ~ force /\ \E row \in Cached(f) : Fresh(row)
                      THEN /\ task' = [task EXCEPT ![c] = "settled"]
                           /\ result' = [result EXCEPT ![c] = (CHOOSE row \in Cached(f) : TRUE)[2]]
                           /\ UNCHANGED <<call, inFlight>>
                      ELSE /\ task' = [task EXCEPT ![c] = "pending"]
                           /\ call' = [call EXCEPT ![c] = "open"]
                           /\ inFlight' = IF f = NoFamily THEN inFlight
                                          ELSE [g \in DOMAIN inFlight \cup {f} |->
                                                  IF g = f THEN c ELSE inFlight[g]]
                           /\ UNCHANGED result
  /\ UNCHANGED diagNow

Settle(c, diagnosis) ==
  /\ task' = [task EXCEPT ![c] = "settled"]
  /\ result' = [result EXCEPT ![c] = diagnosis]
  /\ Leaves(c, about[c])

\* The model answers: the diagnosis is cached even when nobody waits for it any more.
ModelAnswers(c) ==
  /\ call[c] = "open"
  /\ call' = [call EXCEPT ![c] = "ended"]
  /\ IF about[c] = NoFamily THEN UNCHANGED cache ELSE CacheSet(about[c], c)
  /\ IF Pending(c) THEN Settle(c, c) ELSE UNCHANGED <<task, result, inFlight>>
  /\ UNCHANGED <<about, joined, diagNow>>

\* The call fails or its answer cannot be parsed: the task resolves to null.
ModelFails(c) ==
  /\ call[c] = "open"
  /\ call' = [call EXCEPT ![c] = "ended"]
  /\ IF Pending(c) THEN Settle(c, "null") ELSE UNCHANGED <<task, result, inFlight>>
  /\ UNCHANGED <<about, joined, cache, diagNow>>

\* Mutant: the timeout is not raced.
NeverTimesOut(c) == FALSE /\ UNCHANGED diagVars

\* The timer wins the race: the callers get null, the model call goes on.
TimesOut(c) ==
  /\ Pending(c)
  /\ Settle(c, "null")
  /\ UNCHANGED <<about, joined, call, cache, diagNow>>

DiagTick ==
  /\ diagNow < MaxDiagTime
  /\ diagNow' = diagNow + 1
  /\ UNCHANGED <<about, joined, task, call, result, inFlight, cache>>

DiagNext ==
  \/ \E c \in Caller : Diagnose(c) \/ ModelAnswers(c) \/ ModelFails(c) \/ TimesOut(c)
  \/ DiagTick

\* setTimeout fires; the model need not answer.
DiagFairness == \A c \in Caller : WF_diagVars(TimesOut(c))

-----------------------------------------------------------------------------
(* Properties                                                              *)

Answered(c) == about[c] # "idle" /\ task[joined[c]] = "settled"

\* Two callers of one family never wait for two model calls: whoever waits for a task of
\* the family waits for the one in flight.  Two calls may be open only because the timeout
\* settled the task of the others (diagnosis_coordinator.ts).
CallersCoalesce ==
  /\ \A c, d \in Caller :
       about[c] = about[d] /\ about[c] \in Family /\ ~ Answered(c) /\ ~ Answered(d)
         => joined[c] = joined[d]
  /\ \A f \in DOMAIN inFlight : Pending(inFlight[f]) /\ about[inFlight[f]] = f

\* A caller gets a diagnosis of the family it asked about, or null, and what the cache
\* holds was written by a call for that family within the cap.
DiagnosesMatch ==
  /\ \A c \in Caller :
       Answered(c) /\ result[joined[c]] # "null" => about[result[joined[c]]] = about[c]
  /\ \A row \in Range(cache) : about[row[2]] = row[1] /\ call[row[2]] = "ended"
  /\ Len(cache) <= CacheCap /\ \A f \in Family : Cardinality(Cached(f)) <= 1

\* Every caller is answered although the model may never be: the alert that waits for a
\* probable cause is sent (diagnosis_coordinator.ts: "a per-call timeout bounds the wait").
CallersAreAnswered == \A c \in Caller : about[c] # "idle" ~> Answered(c)
=============================================================================

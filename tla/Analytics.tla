----------------------------- MODULE Analytics -----------------------------
(***************************************************************************)
(* What is computed over data: reads of the store, the metrics of agents,   *)
(* the flame graph of a profile and the redaction of an entry.  They share  *)
(* no state: a behaviour is about one of them.                             *)
(***************************************************************************)
EXTENDS MetricsReads, AgentMetrics, FlameGraph, Redaction

VARIABLE subject \* what this behaviour is about

AnalyticsInit ==
  /\ subject \in {"store", "agents", "profile", "redaction"}
  /\ ReadsInit /\ AgentInit /\ FlameInit /\ redacted = <<>>
  /\ subject # "store" => topic = "reads"
  /\ subject # "store" \/ topic = "spans" => omits
  /\ subject # "profile" => rooted /\ \A n \in DOMAIN parent : parent[n] = n - 1
  /\ IF subject = "redaction" THEN RedactionInit ELSE content = Mask

Reading == subject = "store" /\ ReadsNext
             /\ UNCHANGED <<subject, agentVars, flameVars, redactionVars>>
Observing == subject = "agents" /\ AgentNext
               /\ UNCHANGED <<subject, memoryVars, readVars, flameVars, redactionVars>>
Sampling == subject = "profile" /\ FlameNext
               /\ UNCHANGED <<subject, memoryVars, readVars, agentVars, redactionVars>>
Redacting == subject = "redaction" /\ Redact
               /\ UNCHANGED <<subject, memoryVars, readVars, agentVars, flameVars>>

AnalyticsNext == Reading \/ Observing \/ Sampling \/ Redacting

AnalyticsSpec ==
  AnalyticsInit
    /\ [][AnalyticsNext]_<<subject, memoryVars, readVars, agentVars, flameVars, redactionVars>>

-----------------------------------------------------------------------------
(* Properties                                                              *)

\* What is computed from an input loses, doubles and shows nothing it should not: the answers
\* that take several turns, the summaries of one list, the time of a profile, the redacted
\* copy of a content.
DerivedIsExact ==
  /\ subject = "store" => AnswersHoldTogether /\ (topic = "spans" => SummariesAgree)
  /\ subject = "profile" => TimeIsConserved
  /\ subject = "redaction" => RedactionIsExact
=============================================================================

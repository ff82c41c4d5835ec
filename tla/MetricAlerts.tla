---------------------------- MODULE MetricAlerts ----------------------------
(***************************************************************************)
(* The stateful threshold rules: an interval begins an evaluation whether   *)
(* or not the one before is over; each walks the rules in order, waits for  *)
(* the store at every rule and for the channels at every page, and reads    *)
(* and writes the set of rules that fire in between.                       *)
(***************************************************************************)
EXTENDS Integers, FiniteSets

CONSTANTS Evaluation,   \* evaluations that can be in progress at once
          Rules,        \* rules are 1 .. Rules
          FlapCooldown, \* cooldownMs
          MaxAlertTime, \* bound: the clock stops there
          MaxPages      \* bound: pages sent per rule

\* Without rules of its own, a deployment has the default ones.
ASSUME MetricAlertsAssumption ==
  Rules \in Nat \ {0} /\ FlapCooldown \in Nat /\ MaxAlertTime \in Nat /\ MaxPages \in Nat

VARIABLES eval,         \* evaluation -> its step, rule, clock and measurement
          firing,       \* this.active
          resolvedAt,   \* this.lastResolvedAt, -1 when there is none
          sent,         \* history: rule -> pages handed to the channels
          lastPage,     \* history: rule -> the kind and stamp of the last of them
          alertNow

alertVars == <<eval, firing, resolvedAt, sent, lastPage, alertNow>>

Rule == 1 .. Rules

\* computeMetric() and the minimum of samples: too little data decides nothing.
Measurement == {"crosses", "clears", "undecided"}

Resting == [step |-> "idle", rule |-> 0, at |-> 0, value |-> "undecided"]

AlertsInit ==
  /\ eval = [e \in Evaluation |-> Resting]
  /\ firing = {} /\ resolvedAt = [r \in Rule |-> -1]
  /\ sent = [r \in Rule |-> 0]
  /\ lastPage = [r \in Rule |-> [status |-> "resolved", at |-> -1]]
  /\ alertNow = 0

AtRule(e, r) ==
  eval' = [eval EXCEPT ![e] = IF r > Rules THEN Resting
                              ELSE [@ EXCEPT !.step = "measuring", !.rule = r]]

\* The interval: evaluateOnce() up to the first await; the clock is read once.  A host
\* that sheds load (runtime.paused) skips it, as an interval that does not fire.
Evaluate(e) ==
  /\ eval[e].step = "idle"
  /\ eval' = [eval EXCEPT ![e] = [step |-> "measuring", rule |-> 1, at |-> alertNow,
                                  value |-> "undecided"]]
  /\ UNCHANGED <<firing, resolvedAt, sent, lastPage, alertNow>>

\* The store reads the window, whatever it holds by now; its answer is on the way.
Measure(e) ==
  /\ eval[e].step = "measuring"
  /\ \E v \in Measurement : eval' = [eval EXCEPT ![e].step = "deciding", ![e].value = v]
  /\ UNCHANGED <<firing, resolvedAt, sent, lastPage, alertNow>>

\* The store fails: the rule is skipped.
MeasureFails(e) ==
  /\ eval[e].step = "measuring"
  /\ AtRule(e, eval[e].rule + 1)
  /\ UNCHANGED <<firing, resolvedAt, sent, lastPage, alertNow>>

InCooldown(r, at) == resolvedAt[r] # -1 /\ at - resolvedAt[r] < FlapCooldown

\* Mutant: a rule that fires is not told from one that does not.
MayRaiseAgain(e, r) == eval[e].value = "crosses" /\ ~ InCooldown(r, eval[e].at)

MayRaise(e, r) ==
  eval[e].value = "crosses" /\ r \notin firing /\ ~ InCooldown(r, eval[e].at)

MayResolve(e, r) == eval[e].value = "clears" /\ r \in firing

\* Every channel is called before the first of them answers.
Page(e, r, status) ==
  /\ sent[r] < MaxPages
  /\ sent' = [sent EXCEPT ![r] = @ + 1]
  /\ lastPage' = [lastPage EXCEPT ![r] = [status |-> status, at |-> eval[e].at]]
  /\ eval' = [eval EXCEPT ![e].step = "paging"]

\* The answer is compared with what fires now, in one turn up to the dispatch.
Raise(e) ==
  LET r == eval[e].rule IN
      /\ eval[e].step = "deciding" /\ MayRaise(e, r)
      /\ firing' = firing \cup {r}
      /\ Page(e, r, "firing")
      /\ UNCHANGED <<resolvedAt, alertNow>>

Resolve(e) ==
  LET r == eval[e].rule
  IN  /\ eval[e].step = "deciding" /\ MayResolve(e, r)
      /\ firing' = firing \ {r}
      /\ resolvedAt' = [resolvedAt EXCEPT ![r] = eval[e].at]
      /\ Page(e, r, "resolved")
      /\ UNCHANGED <<alertNow>>

Stay(e) ==
  LET r == eval[e].rule
  IN  /\ eval[e].step = "deciding" /\ ~ MayRaise(e, r) /\ ~ MayResolve(e, r)
      /\ AtRule(e, r + 1)
      /\ UNCHANGED <<firing, resolvedAt, sent, lastPage, alertNow>>

\* Promise.allSettled(): every channel delivered, or failed and was warned about.
ChannelsSettle(e) ==
  /\ eval[e].step = "paging"
  /\ AtRule(e, eval[e].rule + 1)
  /\ UNCHANGED <<firing, resolvedAt, sent, lastPage, alertNow>>

AlertTick ==
  /\ alertNow < MaxAlertTime /\ alertNow' = alertNow + 1
  /\ UNCHANGED <<eval, firing, resolvedAt, sent, lastPage>>

AlertsNext ==
  \/ \E e \in Evaluation :
       \/ Evaluate(e) \/ Measure(e) \/ MeasureFails(e)
       \/ Raise(e) \/ Resolve(e) \/ Stay(e) \/ ChannelsSettle(e)
  \/ AlertTick

-----------------------------------------------------------------------------
(* Properties                                                              *)

\* However evaluations overlap, the pages of a rule alternate: nobody is paged twice for one
\* breach, told of the end of one that did not begin, or left with a page that says "firing"
\* for a rule that does not (alerter_service.ts: dedup, raise and resolve).
PagesAlternate ==
  \A r \in Rule : /\ r \in firing <=> lastPage[r].status = "firing"
                  /\ r \in firing <=> sent[r] % 2 = 1

\* A rule that was resolved is not raised again within the cooldown, by the clocks of the
\* evaluations that paged, although one of them may have begun long before it paged.
RaisesKeepCooldown ==
  \A r \in Rule : r \in firing /\ resolvedAt[r] # -1
                    => lastPage[r].at - resolvedAt[r] >= FlapCooldown
=============================================================================

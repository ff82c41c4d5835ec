--------------------------- MODULE ExceptionAlerts ---------------------------
(***************************************************************************)
(* Exceptions on their way to the alert channels.  The poller reads the    *)
(* store for each kind of exception entry above a watermark and hands what *)
(* it found to the alerter, which runs its three rules over it.  The       *)
(* interval timer does not wait for the poll before, so polls overlap.     *)
(*                                                                         *)
(* Everything runs on one JavaScript thread: `thread` is the poll that     *)
(* keeps it until its next await.                                          *)
(*                                                                         *)
(*   idle -> listing -> new (each entry) -> every (each entry) -> rate     *)
(***************************************************************************)
EXTENDS Integers, FiniteSets, SequencesExt, Functions

CONSTANTS Kind,          \* EXCEPTION_ENTRY_TYPES
          Family,        \* family hashes
          Poll,          \* polls that can be in progress at once
          ScanCap,       \* POLL_SCAN_CAP
          Window,        \* new-exception: window
          RateWindow,    \* exception-rate: window
          Threshold,     \* exception-rate: threshold
          Cooldown,      \* cooldownMs
          MaxFamilies,   \* the tracker's cap
          MaxExc,        \* bound: exceptions recorded
          MaxTime        \* bound: the clock stops there

ASSUME AlertsAssumption ==
  /\ ScanCap \in Nat \ {0} /\ MaxFamilies \in Nat \ {0} /\ Threshold \in Nat \ {0}
  /\ Window \in Nat /\ RateWindow \in Nat /\ Cooldown \in Nat
  /\ MaxExc \in Nat /\ MaxTime \in Nat

VARIABLES now,
          log,      \* the exceptions recorded, in the order of their createdAt
          stored,   \* those that the store shows: a buffered row or another pod's comes later
          since,    \* the poller's high-water mark
          poll,     \* poll -> its step, kinds still to list, entries, stamp, entries left
          thread,   \* the poll that holds the thread, as a set
          recent,   \* recentExceptions: createdAt of the entries handed over
          seen,     \* the tracker: <<family, last seen>>, oldest insertion first
          fired,    \* lastFiredFamily and lastFiredAt: rule -> {} or {stamp}
          handed,   \* history: exceptions the alerter was given
          passed,   \* history: exceptions that came too late for the watermark, or over the cap
          pages     \* history: <<rule, stamp>> of every alert, in order

storeVars == <<now, log, stored>>
alertVars == <<recent, seen, fired, handed, pages>>
vars == <<storeVars, since, poll, thread, passed, alertVars>>

\* What has a cooldown clock of its own: two rules per family, the rate rule once.
RateRule == <<"exception-rate">>
Clock == ({"new-exception", "every-exception"} \X Family) \cup {RateRule}

Exc == 1 .. Len(log)
Rest == [step |-> "idle", kinds |-> {}, got |-> {}, stamp |-> 0, left |-> <<>>]

Init ==
  /\ now = 0
  /\ log = <<>> /\ stored = {} /\ passed = {}
  /\ since = 0
  /\ poll = [k \in Poll |-> Rest]
  /\ thread = {}
  /\ recent = <<>>
  /\ seen = <<>>
  /\ fired = [c \in Clock |-> {}]
  /\ handed = {}
  /\ pages = <<>>

-----------------------------------------------------------------------------
(* The store.                                                               *)

\* record(): the entry is stamped.
Record ==
  /\ thread = {}
  /\ Len(log) < MaxExc
  /\ \E kind \in Kind, f \in Family :
       log' = Append(log, [at |-> now, kind |-> kind, family |-> f])
  /\ UNCHANGED <<now, stored, since, poll, thread, passed, alertVars>>

\* No poll from now on will look where e is, or one that is under way has looked already.
TooLate(e) ==
  \/ log[e].at <= since
  \/ \E k \in Poll : /\ poll[k].step = "listing"
                     /\ log[e].at <= poll[k].stamp \/ log[e].kind \notin poll[k].kinds

\* The entry can be listed: at once in memory, when its buffer is flushed in the SQL store.
Store(e) ==
  /\ thread = {}
  /\ e \notin stored
  /\ stored' = stored \cup {e}
  /\ passed' = IF TooLate(e) THEN passed \cup {e} ELSE passed
  /\ UNCHANGED <<now, log, since, poll, thread, alertVars>>

\* Nobody reads the clock while a poll keeps the thread.
Tick ==
  /\ thread = {}
  /\ now < MaxTime
  /\ now' = now + 1
  /\ UNCHANGED <<log, stored, since, poll, thread, passed, alertVars>>

-----------------------------------------------------------------------------
(* pollOnce()                                                               *)

\* Mutant: exceptions of one kind only are polled.
PollsOneKind(k) ==
  /\ poll[k] = Rest
  /\ thread = {}
  /\ \E kind \in Kind :
       poll' = [poll EXCEPT ![k] = [@ EXCEPT !.step = "listing", !.kinds = {kind}, !.stamp = since]]
  /\ UNCHANGED <<storeVars, since, thread, passed, alertVars>>

\* The timer fires: one list() per kind is issued, all against the same watermark.
PollStarts(k) ==
  /\ poll[k] = Rest
  /\ thread = {}
  /\ poll' = [poll EXCEPT ![k] = [@ EXCEPT !.step = "listing", !.kinds = Kind, !.stamp = since]]
  /\ UNCHANGED <<storeVars, since, thread, passed, alertVars>>

\* The newest ScanCap entries of one kind above the watermark, and the ones that are cut.
Matching(kind, after) == {e \in stored : log[e].kind = kind /\ log[e].at > after}
Page(kind, after) ==
  {e \in Matching(kind, after) : Cardinality({d \in Matching(kind, after) : d > e}) < ScanCap}
Cut(kind, after) == Matching(kind, after) \ Page(kind, after)

\* The lists are answered one at a time, in either order.
ListKind(k) ==
  /\ poll[k].step = "listing"
  /\ thread = {}
  /\ \E kind \in poll[k].kinds :
       /\ poll' = [poll EXCEPT ![k].kinds = @ \ {kind},
                               ![k].got = @ \cup Page(kind, poll[k].stamp)]
       /\ passed' = passed \cup Cut(kind, poll[k].stamp)
  /\ UNCHANGED <<storeVars, since, thread, alertVars>>

\* Mutant: a failed list loses the entries of the window it was for.
ListFailsAdvancing(k) ==
  /\ poll[k].step = "listing"
  /\ poll[k].kinds # {}
  /\ thread = {}
  /\ poll' = [poll EXCEPT ![k] = Rest]
  /\ since' = now
  /\ UNCHANGED <<storeVars, thread, passed, alertVars>>

\* A list fails: the watermark is left alone.
ListFails(k) ==
  /\ poll[k].step = "listing"
  /\ poll[k].kinds # {}
  /\ thread = {}
  /\ poll' = [poll EXCEPT ![k] = Rest]
  /\ UNCHANGED <<storeVars, since, thread, passed, alertVars>>

OldestFirst(S) ==
  CHOOSE s \in [1 .. Cardinality(S) -> S] : \A i, j \in 1 .. Cardinality(S) : i < j => s[i] < s[j]

\* The mark: the newest of the entries.
Mark(got) == IF got = {} THEN since ELSE log[Max(got)].at

\* All lists are in: the mark moves and the alerter takes over, which reads nowMs and
\* notes every createdAt for the rate rule.
Evaluate(k) ==
  LET got == poll[k].got
  IN  /\ poll[k].step = "listing"
      /\ poll[k].kinds = {}
      /\ thread = {}
      /\ since' = Mark(got)
      /\ recent' = recent \o [i \in 1 .. Cardinality(got) |-> log[OldestFirst(got)[i]].at]
      /\ handed' = handed \cup got
      /\ poll' = [poll EXCEPT ![k] =
                   [@ EXCEPT !.step = "new", !.stamp = now, !.left = OldestFirst(got)]]
      /\ thread' = {k}
      /\ UNCHANGED <<storeVars, seen, fired, passed, pages>>

-----------------------------------------------------------------------------
(* evaluate(): the rules, one entry at a time.                              *)

Runs(k, step) == poll[k].step = step /\ thread \subseteq {k}

\* Within the cooldown of the last alert, when there was one.
InCooldown(c, stamp) == \E t \in fired[c] : stamp - t < Cooldown

\* Mutant: the alert goes out without the clock being set.
PageUnnoted(c, k) ==
  /\ pages' = Append(pages, <<c, poll[k].stamp>>)
  /\ fired' = [fired EXCEPT ![c] = {}]
  /\ thread' = {}

\* The clock is set, the alert goes out, and the thread is let go while it does.
Alert(c, k) ==
  /\ pages' = Append(pages, <<c, poll[k].stamp>>)
  /\ fired' = [fired EXCEPT ![c] = {poll[k].stamp}]
  /\ thread' = {}

AlertIf(due, c, k) ==
  \/ due /\ ~ InCooldown(c, poll[k].stamp) /\ Alert(c, k)
  \/ (~ due \/ InCooldown(c, poll[k].stamp)) /\ thread' = {k} /\ UNCHANGED <<fired, pages>>

\* NewExceptionTracker.observe(): the family moves to the end, the oldest are evicted.
Observed(f, stamp) ==
  LET kept == Append(SelectSeq(seen, LAMBDA s : s[1] # f), <<f, stamp>>)
  IN  SubSeq(kept, Max({1, Len(kept) - MaxFamilies + 1}), Len(kept))
IsNew(f, stamp) == \A s \in ToSet(seen) : s[1] = f => stamp - s[2] >= Window

NextEntry(k) == poll' = [poll EXCEPT ![k].left = Tail(@)]

NewException(k) ==
  LET f == log[Head(poll[k].left)].family
  IN  /\ Runs(k, "new")
      /\ poll[k].left # <<>>
      /\ seen' = Observed(f, poll[k].stamp)
      /\ AlertIf(IsNew(f, poll[k].stamp), <<"new-exception", f>>, k)
      /\ NextEntry(k)
      /\ UNCHANGED <<storeVars, since, recent, passed, handed>>

\* The next rule goes over the same entries; an async function was awaited in between.
NextRule(k) ==
  /\ Runs(k, "new")
  /\ poll[k].left = <<>>
  /\ poll' = [poll EXCEPT ![k] = [@ EXCEPT !.step = "every", !.left = OldestFirst(poll[k].got)]]
  /\ thread' = {}
  /\ UNCHANGED <<storeVars, since, passed, alertVars>>

EveryException(k) ==
  LET f == log[Head(poll[k].left)].family
  IN  /\ Runs(k, "every")
      /\ poll[k].left # <<>>
      /\ AlertIf(TRUE, <<"every-exception", f>>, k)
      /\ NextEntry(k)
      /\ UNCHANGED <<storeVars, since, recent, seen, passed, handed>>

LastRule(k) ==
  /\ Runs(k, "every")
  /\ poll[k].left = <<>>
  /\ poll' = [poll EXCEPT ![k] = [@ EXCEPT !.step = "rate"]]
  /\ thread' = {}
  /\ UNCHANGED <<storeVars, since, passed, alertVars>>

\* Mutant: a timestamp exactly at the edge of the window is dropped too.
InWindowOpen(stamp) ==
  LET kept == {i \in 1 .. Len(recent) : recent[i] > stamp - RateWindow}
  IN  IF kept = {} THEN <<>> ELSE SubSeq(recent, Min(kept), Len(recent))

\* recentExceptions without its leading timestamps that left the window.
InWindow(stamp) ==
  LET kept == {i \in 1 .. Len(recent) : recent[i] >= stamp - RateWindow}
  IN  IF kept = {} THEN <<>> ELSE SubSeq(recent, Min(kept), Len(recent))

ExceptionRate(k) ==
  /\ Runs(k, "rate")
  /\ recent' = InWindow(poll[k].stamp)
  /\ AlertIf(Len(recent') >= Threshold, RateRule, k)
  /\ poll' = [poll EXCEPT ![k] = [@ EXCEPT !.step = "done"]]
  /\ UNCHANGED <<storeVars, since, seen, passed, handed>>

\* The last await of the poll settles.
PollEnds(k) ==
  /\ Runs(k, "done")
  /\ poll' = [poll EXCEPT ![k] = Rest]
  /\ thread' = {}
  /\ UNCHANGED <<storeVars, since, passed, alertVars>>

PollStep(k) ==
  \/ ListKind(k) \/ Evaluate(k) \/ NewException(k) \/ NextRule(k)
  \/ EveryException(k) \/ LastRule(k) \/ ExceptionRate(k) \/ PollEnds(k)

Next ==
  \/ Tick
  \/ Record
  \/ \E e \in Exc : Store(e)
  \/ \E k \in Poll : PollStarts(k) \/ PollStep(k) \/ ListFails(k)

LastList(k) == ListKind(k) /\ poll'[k].kinds = {}

\* The interval timer keeps firing, every await settles, and the store is not for ever down
\* before all the lists of a poll are in.
Fairness ==
  \A k \in Poll : WF_vars(PollStarts(k)) /\ SF_vars(PollStep(k)) /\ SF_vars(LastList(k))

Spec == Init /\ [][Next]_vars /\ Fairness

-----------------------------------------------------------------------------
(* Properties                                                               *)

\* The types; the tracker holds a family once and never more than its cap.
TypeOK ==
  /\ now \in 0 .. MaxTime /\ since \in 0 .. now
  /\ \A e \in Exc : log[e] \in [at : 0 .. now, kind : Kind, family : Family]
  /\ poll \in [Poll -> [step : {"idle", "listing", "new", "every", "rate", "done"},
                        kinds : SUBSET Kind, got : SUBSET Exc, stamp : 0 .. now,
                        left : Seq(Exc)]]
  /\ thread \in SUBSET Poll /\ Cardinality(thread) <= 1
  /\ \A i \in DOMAIN recent : recent[i] \in 0 .. now
  /\ IsInjective([i \in DOMAIN seen |-> seen[i][1]])
  /\ \A i \in DOMAIN seen : seen[i] \in Family \X (0 .. now)
  /\ Len(seen) <= MaxFamilies
  /\ fired \in [Clock -> {{}} \cup {{t} : t \in 0 .. now}]
  /\ handed \subseteq stored /\ passed \subseteq stored /\ stored \subseteq Exc

\* No exception is skipped, whatever polls overlap and fail: what the store shows and the
\* alerter was not given is still above the one watermark of both kinds (pollOnce).  Two sorts
\* are passed over: those that a list of ScanCap cuts off, and those that the store shows when
\* the mark, or a poll under way, has gone by their createdAt.  So "neither starves the other"
\* (exception_source.ts) is not so of rows that are stored later than stamped.
NothingSkipped == \A e \in stored : e \in handed \/ log[e].at > since \/ e \in passed

\* And so the alerter has been given every exception in the end.
ReachesAlerter == <>[](stored \subseteq handed \cup passed)

PagesAreSpaced ==
  \A i, j \in DOMAIN pages :
    i < j /\ pages[i][1] = pages[j][1] => pages[j][2] - pages[i][2] >= Cooldown

\* Neither too many alerts nor too few.  Two alerts of one rule, for one family, are a cooldown
\* apart by the times they carry, although overlapping polls evaluate with stamps out of order
\* (inCooldown); and a breach of the rate is never missed: when the rule ran and the exceptions
\* inside the window at this moment reach the threshold, an alert younger than the cooldown is
\* out, whatever other polls pruned the timestamps meanwhile (evaluateExceptionRate).
PagesAreDue ==
  [][/\ PagesAreSpaced'
     /\ \A k \in Poll :
          /\ poll[k].step = "rate" /\ poll'[k].step = "done"
          /\ Cardinality({e \in handed : log[e].at >= now - RateWindow}) >= Threshold
          => \E t \in fired'[RateRule] : t = poll[k].stamp \/ poll[k].stamp - t < Cooldown]_vars
=============================================================================

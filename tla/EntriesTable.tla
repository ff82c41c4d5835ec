---------------------------- MODULE EntriesTable ----------------------------
(***************************************************************************)
(* The entries section in the browser: its filter, page and live tail, the  *)
(* cache of answers its reads are keyed in, and the server-sent frames that *)
(* are collected before they are shown.  Type and search are one `filter`:  *)
(* the section treats them alike.                                          *)
(***************************************************************************)
EXTENDS DashboardApi

CONSTANTS Fitting,    \* filter -> rows the server finds for it
          Seen,       \* filter -> rows the browser finds it in the summary of
          TailCap,    \* rows the live tail keeps
          MaxPage     \* bound: pages turned to

ASSUME EntriesTableAssumption ==
  /\ DOMAIN Seen = DOMAIN Fitting
  /\ \A f \in DOMAIN Fitting : Seen[f] \subseteq Fitting[f] /\ Fitting[f] \subseteq Row
  /\ TailCap \in Nat \ {0} /\ MaxPage \in Nat \ {0}

VARIABLES section,  \* what the section holds while it is on screen
          answers,  \* key -> the last answer, with the page it was asked for (0: none yet)
          flight,   \* key -> page asked for by the read in flight, or 0
          tail      \* the event source, its frames on the wire, and the tail of rows

tableVars == <<section, answers, flight, tail>>

Filter == DOMAIN Fitting
Key == [filter : Filter, page : 0..MaxPage]
NoAnswer == [rows |-> <<>>, more |-> FALSE, asked |-> 0, failed |-> FALSE]
NoTail == [status |-> "idle", wire |-> <<>>, buffered |-> <<>>, timer |-> FALSE,
           entries |-> <<>>, heard |-> <<>>]
Closed == [open |-> FALSE, filter |-> "all", page |-> 1, live |-> FALSE]

TableInit ==
  /\ section = Closed /\ tail = NoTail
  /\ answers = [k \in Key |-> NoAnswer] /\ flight = [k \in Key |-> 0]

First(n, s) == SubSeq(s, 1, IF n < Len(s) THEN n ELSE Len(s))

\* What stands at these positions, in the order it stands there.
At(s, places) ==
  LET Nth(n) == CHOOSE i \in places : Cardinality({j \in places : j <= i}) = n
  IN [n \in 1..Cardinality(places) |-> s[Nth(n)]]

Within(s, found) == At(s, {i \in DOMAIN s : s[i] \in found})
Each(s) == At(s, {i \in DOMAIN s : \A j \in 1..(i - 1) : s[j] # s[i]})

-----------------------------------------------------------------------------
(* The keyed reads                                                         *)

\* queryKey(): the filter and the size; the page is not part of it.
QueryKey(s) == [filter |-> s.filter, page |-> 0]

\* A read begins, unless one is in flight for the key.
Fetches(k, page) ==
  IF flight[k] # 0 THEN UNCHANGED <<answers, flight>>
  ELSE /\ flight' = [flight EXCEPT ![k] = page]
       /\ answers' = [answers EXCEPT ![k].failed = @ /\ answers[k].asked # 0]

\* useQuery: a key that the section did not show before is read, cached or not.
Shows(s) ==
  IF section.open /\ QueryKey(s) = QueryKey(section) THEN UNCHANGED <<answers, flight>>
  ELSE Fetches(QueryKey(s), s.page)

\* listEntriesPage(): the page and whether a row follows it; a failure keeps the rows.
Lands(k, outcome) ==
  /\ flight[k] # 0
  /\ LET found == Within(rows, Fitting[k.filter])
         from == (flight[k] - 1) * RowsPerPage IN
     answers' = [answers EXCEPT ![k] =
       IF outcome = "fails" THEN [@ EXCEPT !.failed = TRUE]
       ELSE [rows |-> SubSeq(First(from + RowsPerPage, found), from + 1, Len(First(from + RowsPerPage, found))),
             more |-> Len(found) > from + RowsPerPage, asked |-> flight[k], failed |-> FALSE]]
  /\ flight' = [flight EXCEPT ![k] = 0]
  /\ UNCHANGED <<section, tail>>

\* The cache drops an answer that nothing shows.
Forgets(k) ==
  /\ answers[k].asked # 0 /\ flight[k] = 0
  /\ ~ (section.open /\ QueryKey(section) = k)
  /\ answers' = [answers EXCEPT ![k] = NoAnswer]
  /\ UNCHANGED <<section, flight, tail>>

-----------------------------------------------------------------------------
(* The live tail                                                           *)

Flushed(t) == [t EXCEPT !.timer = FALSE, !.buffered = <<>>,
                        !.entries = First(TailCap, t.buffered \o t.entries)]

\* Mutant: closing the source drops what the timer was about to commit.
CleanupDropping(t) == [t EXCEPT !.timer = FALSE, !.buffered = <<>>, !.wire = <<>>, !.status = "idle"]

\* The effect's cleanup: the source is closed and a pending timer's frames are committed.
Cleanup(t) == [(IF t.timer THEN Flushed(t) ELSE t) EXCEPT !.wire = <<>>, !.status = "idle"]

Enabled(s) == s.open /\ s.live /\ s.page = 1

\* useLiveTail(live && page === 1): its effect runs when that changes.
TailFollows(s) ==
  tail' = IF Enabled(s) = Enabled(section) THEN tail
          ELSE IF Enabled(s) THEN [tail EXCEPT !.status = "connecting"] ELSE Cleanup(tail)

SourceOpens ==
  /\ tail.status \in {"connecting", "error"}
  /\ tail' = [tail EXCEPT !.status = "live"]
  /\ UNCHANGED <<section, answers, flight>>

\* The connection breaks; the browser opens it again by itself.
SourceFails ==
  /\ tail.status \in {"connecting", "live"}
  /\ tail' = [tail EXCEPT !.status = "error", !.wire = <<>>]
  /\ UNCHANGED <<section, answers, flight>>

\* Mutant: a timer that is running is taken for no reason to keep the frame.
BufferOnce(f, t) == IF t.timer THEN t.buffered ELSE <<f>>

Buffer(f, t) == First(TailCap, <<f>> \o t.buffered)

FrameArrives ==
  /\ tail.wire # <<>>
  /\ LET f == Head(tail.wire) IN
     tail' = [tail EXCEPT !.wire = Tail(@), !.status = "live", !.timer = TRUE,
                          !.buffered = Buffer(f, tail), !.heard = <<f>> \o @]
  /\ UNCHANGED <<section, answers, flight>>

TimerFires ==
  /\ tail.timer
  /\ tail' = Flushed(tail)
  /\ UNCHANGED <<section, answers, flight>>

-----------------------------------------------------------------------------
(* What is on screen                                                       *)

Answer == answers[QueryKey(section)]

\* Mutants: the tail is shown whatever the filter, and an entry of it again in the page.
OnScreenUnfiltered == IF ~ Enabled(section) THEN Answer.rows ELSE Each(tail.entries \o Answer.rows)
OnScreenTwice == IF ~ Enabled(section) THEN Answer.rows
              ELSE Within(tail.entries, Seen[section.filter]) \o Answer.rows

\* rows: the tail that fits the filter, ahead of the page, each entry once.
OnScreen == IF ~ Enabled(section) THEN Answer.rows
         ELSE Each(Within(tail.entries, Seen[section.filter]) \o Answer.rows)

Listed == section.open /\ ~ Answer.failed /\ Answer.asked # 0

-----------------------------------------------------------------------------
(* What the user does                                                      *)

Turns(s) == section' = s /\ Shows(s) /\ TailFollows(s)

OpensTable(f) ==
  /\ ~ section.open
  /\ section' = [Closed EXCEPT !.open = TRUE, !.filter = f] /\ tail' = NoTail
  /\ Fetches(QueryKey([Closed EXCEPT !.filter = f]), 1)

\* Another section: what the component held is gone, what the cache holds is not.
LeavesTable ==
  /\ section.open
  /\ section' = Closed /\ tail' = NoTail
  /\ UNCHANGED <<answers, flight>>

\* changeType() and changeSearch() restart at page 1.
ChangesFilter(f) == section.open /\ Turns([section EXCEPT !.filter = f, !.page = 1])

TogglesLive == section.open /\ Turns([section EXCEPT !.live = ~ @])

\* The pager: Next while the answer has more, Prev from page 2 on.
TurnsPage(page) ==
  /\ Listed /\ OnScreen # <<>>
  /\ \/ page = section.page + 1 /\ Answer.more
     \/ page = section.page - 1
  /\ page \in 1..MaxPage
  /\ Turns([section EXCEPT !.page = page])

\* refetch() asks for what the section shows now; with rows on screen it replaces a read in flight.
Refreshes ==
  /\ section.open
  /\ LET k == QueryKey(section) IN
     IF flight[k] # 0 /\ answers[k].asked # 0
     THEN flight' = [flight EXCEPT ![k] = section.page] /\ UNCHANGED answers
     ELSE Fetches(k, section.page)
  /\ UNCHANGED <<section, tail>>

\* An entry is stored, and written to the stream if the source is connected; or the oldest goes.
StoreFeeds ==
  /\ StoreMoves
  /\ tail' = IF born' # born /\ tail.status = "live"
             THEN [tail EXCEPT !.wire = Append(@, born')] ELSE tail
  /\ UNCHANGED <<section, answers, flight>>

TableNext ==
  \/ \E f \in Filter : OpensTable(f) \/ ChangesFilter(f)
  \/ LeavesTable \/ TogglesLive \/ Refreshes
  \/ \E page \in 1..MaxPage : TurnsPage(page)
  \/ \E k \in Key : Forgets(k) \/ \E outcome \in {"works", "fails"} : Lands(k, outcome)
  \/ SourceOpens \/ SourceFails \/ FrameArrives \/ TimerFires

-----------------------------------------------------------------------------
(* Properties                                                              *)

\* What the section shows.  Every row is one the filter finds, and is there once, whichever
\* answer and frames it came with; and the tail holds the newest frames that arrived since the
\* section was opened, up to its cap, shown or about to be: none is lost by a toggle, by a
\* turn of the page or by a filter in between (EntriesSection, useLiveTail).
TableIsSound ==
  /\ Listed =>
       /\ \A i \in DOMAIN OnScreen : OnScreen[i] \in Fitting[section.filter]
       /\ \A i, j \in DOMAIN OnScreen : OnScreen[i] = OnScreen[j] => i = j
  /\ First(TailCap, tail.buffered \o tail.entries) = First(TailCap, tail.heard)
  /\ tail.buffered # <<>> => tail.timer
  /\ tail.wire # <<>> \/ tail.timer => Enabled(section)

\* A page shows the rows that were asked for as that page, once nothing is in flight: "the list
\* would be lying about what page 3 contains" otherwise (EntriesSection.tsx:50-52).  It does
\* not hold: queryKey() leaves the page out, so a turned page shows the rows of the one before.
PageShowsItsRows ==
  Listed /\ flight[QueryKey(section)] = 0 => Answer.asked = section.page
=============================================================================

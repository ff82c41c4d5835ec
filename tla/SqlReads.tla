------------------------------ MODULE SqlReads ------------------------------
(***************************************************************************)
(* What the SQL store reads for the dashboard.  Pages, buckets and families *)
(* are one statement each; tags are JSON text, counted here from pages of   *)
(* rows in the order of their random ids, while other processes insert and  *)
(* delete between two pages.                                               *)
(***************************************************************************)
EXTENDS Integers, Sequences, FiniteSets, FiniteSetsExt

CONSTANTS Rows,       \* the rows there may be: id, at, seq, type, trace and family (0: none), tags
          ScanRows,   \* TAG_SCAN_PAGE_ROWS
          Limit       \* how many keys, or rows of a page, the caller asks for

ASSUME SqlReadsAssumption ==
  /\ ScanRows \in Nat \ {0} /\ Limit \in Nat \ {0}
  /\ IsFiniteSet(Rows)
  /\ \A r \in Rows : /\ r.id \in Nat \ {0} /\ r.at \in Nat /\ r.seq \in Nat
                     /\ r.trace \in Nat /\ r.family \in Nat /\ IsFiniteSet(r.tags)
  /\ \A r, s \in Rows : r.id = s.id => r = s

VARIABLES fate,    \* row -> none, there or gone
          scan,    \* countTags() under way: the id it is past, what it counted
          steady,  \* history: the rows that have been there since it began
          met      \* history: the rows that were there at some time since then

sqlVars == <<fate, scan, steady, met>>

Tags == UNION {r.tags : r \in Rows}
Shelf == {r \in Rows : fate[r] = "there"}
NoScan == [step |-> "idle", wanted |-> {}, after |-> 0,
           uses |-> [t \in Tags |-> 0], newest |-> [t \in Tags |-> <<-1, -1>>], top |-> <<>>]

SqlInit == fate \in [Rows -> {"none", "there"}] /\ scan = NoScan /\ steady = {} /\ met = {}

Place(r) == <<r.at, r.seq>>
Newer(a, b) == a[1] > b[1] \/ (a[1] = b[1] /\ a[2] > b[2])
Latest(S) == CHOOSE a \in S : \A b \in S : ~ Newer(b, a)

\* The sequences an ORDER BY may answer, for a set of pairs: what these leave open comes as it
\* comes.
Sorted(S, before) ==
  {s \in [1 .. Cardinality(S) -> S] :
     \A i, j \in DOMAIN s : i < j => s[i] # s[j] /\ <<s[j], s[i]>> \notin before}

\* LIMIT size OFFSET (page - 1) * size.
Cut(s, page, size) == SubSeq(s, (page - 1) * size + 1, IF page * size < Len(s) THEN page * size ELSE Len(s))

-----------------------------------------------------------------------------
(* One statement                                                           *)

Window(after, before) == {r \in Shelf : r.at > after /\ r.at <= before}

\* The filters of list(): each a set, empty when the caller does not ask for it; an empty
\* list of traces is one that asks for no trace.
Matches(q) ==
  {r \in Shelf : /\ \A k \in q.type : r.type = k
                 /\ \A T \in q.traces : r.trace \in T
                 /\ \A t \in q.tag : t \in r.tags
                 /\ \A n \in q.before : r.at < n
                 /\ \A n \in q.after : r.at > n}

\* Mutant: rows of one millisecond come as they come.
ByTimeOnly(r, s) == r.at > s.at

\* created_at desc, sequence desc.
NewestFirst(r, s) == Newer(Place(r), Place(s))

\* list(): the answers there may be for a page.
List(q, page, size) ==
  {Cut(s, page, size) : s \in Sorted(Matches(q), {rt \in Shelf \X Shelf : NewestFirst(rt[1], rt[2])})}

\* listTraceIds(): the traces by the time each was last seen, and by nothing else.
ListTraces(page, size) ==
  LET traces == {r.trace : r \in Shelf} \ {0}
      lastAt == [t \in traces |-> Max({r.at : r \in {s \in Shelf : s.trace = t}})]
      later == {tu \in traces \X traces : lastAt[tu[1]] > lastAt[tu[2]]}
  IN  {Cut(s, page, size) : s \in Sorted(traces, later)}

\* Mutant: the groups are cut from the epoch, not from the start of the window.
GroupAtEpoch(r, after, bucketMs) == <<r.at - (r.at % bucketMs), r.type>>

\* GROUP BY (created_at - start) - ((created_at - start) % bucketMs), type.
GroupKey(r, after, bucketMs) == <<(r.at - after) - ((r.at - after) % bucketMs), r.type>>

\* countByBucket(): the index is computed from the newest row of each group; equal ones add up.
CountByBucket(after, before, bucketMs) ==
  LET found == Window(after, before)
      groups == {{r \in found : GroupKey(r, after, bucketMs) = k} :
                   k \in {GroupKey(r, after, bucketMs) : r \in found}}
      Key(g) == <<(Max({r.at : r \in g}) - after) \div bucketMs, (CHOOSE r \in g : TRUE).type>>
  IN  [k \in {Key(g) : g \in groups} |->
         MapThenSumSet(Cardinality, {g \in groups : Key(g) = k})]

\* countFamilies(): the busiest, the larger created_at and the larger sequence each by itself.
CountFamilies(limit) ==
  LET families == {r.family : r \in Shelf} \ {0}
      Of(f) == {r \in Shelf : r.family = f}
      Last(f) == <<Max({r.at : r \in Of(f)}), Max({r.seq : r \in Of(f)})>>
      Busier(f, g) == \/ Cardinality(Of(f)) > Cardinality(Of(g))
                      \/ Cardinality(Of(f)) = Cardinality(Of(g)) /\ Newer(Last(f), Last(g))
      busier == {fg \in families \X families : Busier(fg[1], fg[2])}
  IN  {Cut([i \in DOMAIN s |-> <<s[i], Cardinality(Of(s[i]))>>], 1, limit) : s \in Sorted(families, busier)}

-----------------------------------------------------------------------------
(* countTags(), and what the other processes do meanwhile                   *)

Moves(life) ==
  /\ fate' = life
  /\ steady' = {r \in steady : life[r] = "there"}
  /\ met' = met \cup (IF scan.step = "page" THEN {r \in Rows : life[r] = "there"} ELSE {})
  /\ UNCHANGED scan

Stores(r) == fate[r] = "none" /\ Moves([fate EXCEPT ![r] = "there"])
Removes(r) == fate[r] = "there" /\ Moves([fate EXCEPT ![r] = "gone"])

\* A prefix keeps some of the tags.
TagsBegins(wanted) ==
  /\ scan.step = "idle"
  /\ scan' = [NoScan EXCEPT !.step = "page", !.wanted = wanted]
  /\ steady' = Shelf /\ met' = Shelf
  /\ UNCHANGED fate

\* Mutant: a page skips as many rows as were read, wherever they are now.
NextByOffset(after) ==
  {r \in Shelf : Cardinality({s \in Shelf : s.id <= r.id}) > Cardinality({s \in met : s.id <= after})}

\* The rows past the last id.
NextRows(after) == {r \in Shelf : r.id > after}

\* The tally of a page added to what was counted.
Counted(page) ==
  [scan EXCEPT
     !.uses = [t \in Tags |-> @[t] + IF t \in scan.wanted
                                     THEN Cardinality({r \in page : t \in r.tags}) ELSE 0],
     !.newest = [t \in Tags |-> Latest({@[t]} \cup {Place(r) : r \in {s \in page : t \in s.tags}})]]

\* Most used first, then the one seen last; tags of one row tie for good.
Commoner(s, t, u) == s.uses[t] > s.uses[u] \/ (s.uses[t] = s.uses[u] /\ Newer(s.newest[t], s.newest[u]))

TagsPage ==
  LET page == {r \in NextRows(scan.after) : Cardinality({s \in NextRows(scan.after) : s.id < r.id}) < ScanRows}
      so == Counted(page)
      commoner == {tu \in Tags \X Tags : Commoner(so, tu[1], tu[2])}
  IN  /\ scan.step = "page"
      /\ IF Cardinality(page) < ScanRows
         THEN \E s \in Sorted({t \in Tags : so.uses[t] > 0}, commoner) :
                scan' = [so EXCEPT !.step = "done", !.top = [i \in DOMAIN Cut(s, 1, Limit) |-> <<s[i], so.uses[s[i]]>>]]
         ELSE scan' = [so EXCEPT !.after = Max({r.id : r \in page})]
      /\ UNCHANGED <<fate, steady, met>>

\* The answer is taken.
TagsAnswered == scan.step = "done" /\ scan' = NoScan /\ steady' = {} /\ met' = {} /\ UNCHANGED fate

SqlNext ==
  \/ \E r \in Rows : Stores(r) \/ Removes(r)
  \/ \E wanted \in {Tags} \cup {{t} : t \in Tags} : TagsBegins(wanted)
  \/ TagsPage \/ TagsAnswered

-----------------------------------------------------------------------------
(* Properties                                                              *)

Uses(t, S) == Cardinality({r \in S : t \in r.tags})

\* A tag is counted once for every row that stayed, and at most once for any row there was,
\* though rows come and go between two pages; the tags answered are the commonest of those
\* counted, and when nothing moved they are those of the table, the one seen last first.
TagsHold ==
  scan.step = "done" =>
    /\ \A t \in scan.wanted : Uses(t, steady) <= scan.uses[t] /\ scan.uses[t] <= Uses(t, met)
    /\ Len(scan.top) = Min({Limit, Cardinality({t \in scan.wanted : scan.uses[t] > 0})})
    /\ steady = met =>
         \A i \in DOMAIN scan.top :
           LET t == scan.top[i][1]
               Seen(u) == Latest({Place(r) : r \in {s \in steady : u \in s.tags}})
           IN  /\ scan.top[i][2] = Uses(t, steady)
               /\ \A u \in scan.wanted \ {scan.top[j][1] : j \in 1 .. i} :
                    Uses(u, steady) > 0 =>
                      \/ Uses(t, steady) > Uses(u, steady)
                      \/ Uses(t, steady) = Uses(u, steady) /\ ~ Newer(Seen(u), Seen(t))

Horizon == Max({r.at : r \in Rows})
Unfiltered == [type |-> {}, traces |-> {}, tag |-> {}, before |-> {}, after |-> {}]
Queries ==
  {Unfiltered} \cup {[Unfiltered EXCEPT !.type = {r.type}, !.traces = {{r.trace}}] : r \in Rows}
    \cup {[Unfiltered EXCEPT !.tag = {t}, !.before = {Horizon}] : t \in Tags}
    \cup {[Unfiltered EXCEPT !.traces = {{}}]}

\* The pages of a list, while nothing moves, are its rows once each and newest first, though
\* every page is another statement: provided no two rows share a position.
PagesHold ==
  (\A r, s \in Shelf : r # s => Place(r) # Place(s)) =>
    \A q \in Queries :
      LET found == Matches(q)
          pages == 1 .. Cardinality(found) \div Limit + 1
      IN  \A p \in pages :
            {{s[i] : i \in DOMAIN s} : s \in List(q, p, Limit)} =
              {{r \in found : LET n == Cardinality({s \in found : NewestFirst(s, r)})
                              IN  (p - 1) * Limit <= n /\ n < p * Limit}}

\* A grouped count is the count of the rows a reader would put in that bucket, the rows at the
\* end of the window included and those at its start not; it adds up to the window's rows.
BucketsHold ==
  \A after \in 0 .. 2, bucketMs \in 1 .. 3 :
    LET count == CountByBucket(after, Horizon, bucketMs)
        Index(r) == (r.at - after) \div bucketMs
    IN  /\ DOMAIN count = {<<Index(r), r.type>> : r \in Window(after, Horizon)}
        /\ \A k \in DOMAIN count :
             count[k] = Cardinality({r \in Window(after, Horizon) : <<Index(r), r.type>> = k})

\* Clock and sequence agree, as they do for the rows of one process.
InStep == \A r, s \in Shelf : r.at < s.at => r.seq < s.seq

\* The busiest families are counted in full, the one seen last first where counts are equal, and
\* traces are listed by when each was last seen: provided the rows are one process's.
GroupsHold ==
  InStep =>
    /\ \A s \in CountFamilies(Limit) : \A i \in DOMAIN s :
         LET Of(f) == {r \in Shelf : r.family = f}
         IN  /\ s[i][2] = Cardinality(Of(s[i][1]))
             /\ \A f \in {r.family : r \in Shelf} \ {0} :
                  (\A j \in 1 .. i : s[j][1] # f) =>
                    \/ s[i][2] > Cardinality(Of(f))
                    \/ /\ s[i][2] = Cardinality(Of(f))
                       /\ ~ Newer(Latest({Place(r) : r \in Of(f)}), Latest({Place(r) : r \in Of(s[i][1])}))
    /\ \A s \in ListTraces(1, Limit) : \A i \in DOMAIN s : \A r \in Shelf :
         r.trace \notin {0} \cup {s[j] : j \in 1 .. i} =>
           \E m \in Shelf : m.trace = s[i] /\ m.at >= r.at

\* What the dashboard is told the table holds: the pages, buckets, families, traces and tags
\* of the store's own statements are those of its rows, whatever is recorded and pruned while
\* they are read (list, listTraceIds, countByBucket, countFamilies, countTags).
\* One statement reads the table in one piece, so they are looked at when it has rows and no count
\* of tags is under way.
SqlReadsHold == TagsHold /\ (scan.step = "idle" /\ Shelf # {} => PagesHold /\ BucketsHold /\ GroupsHold)
=============================================================================

---------------------------- MODULE MemoryStore ----------------------------
(***************************************************************************)
(* The in-memory store: a ring of slots with a head index, an index by id, *)
(* and the reads the dashboard makes of it.  Every call runs in one turn.  *)
(* An entry is a record whose content is summed up by `outcome`; ordered   *)
(* names (types, families, traces) are numbers, 0 is null.                 *)
(***************************************************************************)
EXTENDS Integers, Sequences, SequencesExt, FiniteSets, FiniteSetsExt, TLC

CONSTANTS MaxEntries, \* maxEntries
          MaxRecords, \* bound: entries recorded
          MaxClock    \* bound: the clock stops there

ASSUME MemoryAssumption == MaxEntries \in Nat \ {0} /\ MaxRecords \in Nat /\ MaxClock \in Nat

VARIABLES slots,    \* this.slots
          head,     \* this.head: slots before it are holes
          byId,     \* this.byId, as the set of the entries it maps
          sequence, \* this.sequence
          clock

memoryVars == <<slots, head, byId, sequence, clock>>

MemoryInit == slots = <<>> /\ head = 0 /\ byId = {} /\ sequence = 0 /\ clock = 0

Hole == [sequence |-> -1]

\* newestFirst().
NewestFirst == Reverse(SubSeq(slots, head + 1, Len(slots)))

\* Mutant: what is evicted stays reachable by its id.
EvictKeepingId(ring, ids) ==
  LET over == Len(ring) - head - MaxEntries
      first == IF over > 0 THEN head + over ELSE head
  IN  slots' = SubSeq(ring, first + 1, Len(ring)) /\ head' = 0 /\ byId' = ids

\* evictOverflow(): holes for the oldest, and the prefix of holes is cut off once it is half
\* of the ring.
EvictOverflow(ring, ids) ==
  LET over == Len(ring) - head - MaxEntries
      first == IF over > 0 THEN head + over ELSE head
      holed == [i \in DOMAIN ring |-> IF i <= first THEN Hole ELSE ring[i]]
      cut == first > 0 /\ first >= Len(ring) - first
  IN  /\ slots' = IF cut THEN SubSeq(ring, first + 1, Len(ring)) ELSE holed
      /\ head' = IF cut THEN 0 ELSE first
      /\ byId' = {e \in ids : \A i \in head + 1 .. first : ring[i].sequence # e.sequence}

\* The entry of an input: what was given, with its sequence and its time.
EntryOf(input) ==
  [f \in DOMAIN input \cup {"sequence", "at"} |->
     IF f = "sequence" THEN sequence ELSE IF f = "at" THEN clock ELSE input[f]]

\* record().
Record1(input) ==
  /\ sequence < MaxRecords
  /\ EvictOverflow(Append(slots, EntryOf(input)), byId \cup {EntryOf(input)})
  /\ sequence' = sequence + 1
  /\ UNCHANGED clock

\* A set as a sequence, by a total order.
InOrder(S, Before(_, _)) ==
  [i \in 1 .. Cardinality(S) |-> CHOOSE x \in S : Cardinality({y \in S : Before(y, x)}) = i - 1]

\* prune(): of the entries older than the cutoff, all but the newest keepLast.
Prune1(olderThan, keepLast) ==
  LET live == {i \in head + 1 .. Len(slots) : slots[i] # Hole}
      doomed == {i \in live : slots[i].at < olderThan}
      deleted == {i \in doomed : Cardinality({j \in doomed : j > i}) >= keepLast}
      kept == InOrder(live \ deleted, LAMBDA i, j : i < j)
  IN  /\ deleted # {}
      /\ slots' = [n \in DOMAIN kept |-> slots[kept[n]]]
      /\ head' = 0 /\ byId' = byId \ {slots[i] : i \in deleted}
      /\ UNCHANGED <<sequence, clock>>

\* clear().
Clear1 ==
  /\ slots # <<>> /\ slots' = <<>> /\ head' = 0 /\ byId' = {}
  /\ UNCHANGED <<sequence, clock>>

MemoryTick == clock < MaxClock /\ clock' = clock + 1 /\ UNCHANGED <<slots, head, byId, sequence>>

-----------------------------------------------------------------------------
(* Reads                                                                   *)

\* get(), as a set of at most one entry.
Found(seq) == {e \in byId : e.sequence = seq}

PageOf(s, size, page) == SubSeq(s, (page - 1) * size + 1, Min({page * size, Len(s)}))

\* list() of what a filter finds, with a page size and a page.
List1(found, size, page) == PageOf(SelectSeq(NewestFirst, LAMBDA e : e \in found), size, page)

Since(after) == List1({e \in ToSet(NewestFirst) : e.at > after}, MaxRecords, 1)

\* A sort that leaves equals in the order they had, as Array.prototype.sort does.
StableSort(s, Before(_, _)) ==
  LET order == InOrder(DOMAIN s, LAMBDA i, j :
                 Before(s[i], s[j]) \/ (~ Before(s[j], s[i]) /\ i < j))
  IN  [i \in DOMAIN s |-> s[order[i]]]

\* The values of a sequence in the order they are first met, as a Map has its keys.
Met(s) == SelectSeq([i \in DOMAIN s |-> IF \E j \in 1 .. i - 1 : s[j] = s[i] THEN 0 ELSE s[i]],
                    LAMBDA v : v # 0)
TracesOf(entries) == Met([i \in DOMAIN entries |-> entries[i].trace])

LastAt(trace) == Max({e.at : e \in {x \in ToSet(NewestFirst) : x.trace = trace}})

\* listTraceIds(): a page of traces, the one with the latest entry first; equals in the
\* order they were met.
ListTraceIds(size, page) ==
  PageOf(StableSort(TracesOf(NewestFirst), LAMBDA a, b : LastAt(a) > LastAt(b)), size, page)

\* countByBucket(), as a function of the rows that have a count.
CountByBucket(after, before, bucketMs) ==
  LET live == {e \in ToSet(NewestFirst) : e.at > after /\ e.at <= before}
      Key(e) == <<(e.at - after) \div bucketMs, e.type>>
  IN  [k \in {Key(e) : e \in live} |-> Cardinality({e \in live : Key(e) = k})]

\* topCounts() over what each entry counts for, one key at most: the most used first and, of
\* equals, the one met first.  countTags() is the same with every tag of an entry.
TopCounts(of, limit) ==
  LET walk == NewestFirst
      MetAt(k) == {i \in DOMAIN walk : k \in of[walk[i]]}
      keys == UNION {of[e] : e \in ToSet(walk)}
      Above(a, b) == \/ Cardinality(MetAt(a)) > Cardinality(MetAt(b))
                     \/ Cardinality(MetAt(a)) = Cardinality(MetAt(b)) /\ Min(MetAt(a)) < Min(MetAt(b))
  IN  SubSeq(InOrder(keys, Above), 1, Min({limit, Cardinality(keys)}))

CountFamilies(limit) == TopCounts([e \in ToSet(NewestFirst) |-> {e.family} \ {0}], limit)

-----------------------------------------------------------------------------
(* Properties                                                              *)

\* The ring and the index by id hold the same entries, the newest maxEntries at most, in the
\* order they were recorded; holes are never met by a read and never outnumber the entries
\* (the compaction that keeps the ring from growing for ever), memory.ts.
RingIsSound ==
  LET live == SubSeq(slots, head + 1, Len(slots))
  IN  /\ byId = ToSet(live) /\ Hole \notin byId
      /\ Len(live) <= MaxEntries /\ head <= Len(live)
      /\ \A i \in 1 .. head : slots[i] = Hole
      /\ \A i, j \in DOMAIN live : i < j => live[i].sequence < live[j].sequence
=============================================================================

---------------------------- MODULE MetricsReads ----------------------------
(***************************************************************************)
(* The reads of the dashboard that take several turns: the pulse (one list, *)
(* then the contents it needs, then its samples), a page of traces (ids,   *)
(* entries, a probe for the next page) and the labels of query families.   *)
(* The host records, prunes and clears in between.                         *)
(***************************************************************************)
EXTENDS Metrics

CONSTANTS Inputs,    \* what the host records, by topic: reads, or spans of a trace
          ScanCap,   \* scanCap
          TopN,      \* topN
          Threshold, \* nPlusOneThreshold
          SlowRouteMs, \* slowRouteMs
          PageSize,  \* size of a page of traces
          Window     \* windowMs

ASSUME ReadsAssumption ==
  {ScanCap, TopN, Threshold, PageSize, Window} \subseteq Nat \ {0} /\ SlowRouteMs \in Nat

VARIABLES topic,  \* what this behaviour is about, "reads" or "spans"
          omits,  \* the store leaves contents out when asked to (SQL does, the ring does not)
          reader, \* the read in progress: kind, step and what it holds
          moved   \* history: the store changed since the read began

readVars == <<topic, omits, reader, moved>>

Idle == [kind |-> "none", step |-> "idle"]

ReadsInit ==
  /\ MemoryInit /\ topic \in DOMAIN Inputs /\ omits \in BOOLEAN
  /\ reader = Idle /\ moved = FALSE

Live(e) == e \in byId
Recorded == ToSet(NewestFirst)
Shown(s) == IF omits THEN [i \in DOMAIN s |-> [s[i] EXCEPT !.full = FALSE]] ELSE s

\* A page of the list with everything the filter lets through, newest first.
Scan(found) == List1(found, ScanCap, 1)

Step(next) == reader' = next /\ UNCHANGED <<memoryVars, topic, omits, moved>>
Begin(next) ==
  /\ topic = "reads" /\ reader = Idle /\ moved' = FALSE /\ reader' = next
  /\ UNCHANGED <<memoryVars, topic, omits>>

-----------------------------------------------------------------------------
(* The pulse                                                               *)

\* getHealth(): the first list, without contents.
PulseBegins ==
  LET scanned == Shown(Scan({e \in Recorded : e.at > clock - Window}))
      missing == {e.type : e \in {x \in ToSet(scanned) : ~ x.full}} \cap {Request, ExceptionType}
  IN  Begin([kind |-> "pulse", step |-> "contents", start |-> clock - Window, end |-> clock,
             scanned |-> scanned, missing |-> missing, full |-> {}, samples |-> {}])

\* withContentFor(): one list for each type whose content a card reads, all under way at once.
ReadType(t) ==
  /\ reader.step = "contents" /\ t \in reader.missing
  /\ Step([reader EXCEPT !.missing = @ \ {t}, !.full = @ \cup
             ToSet(Scan({e \in Recorded : e.type = t /\ e.at > reader.start}))])

\* Mutant: the second list replaces the first.
JoinedAnew(entries, full) ==
  SelectSeq(entries, LAMBDA e : \A x \in full : x.type # e.type)
    \o InOrder(full, LAMBDA a, b : a.sequence > b.sequence)

\* An entry of the first list with its content, when the second still found it.
Joined(entries, full) ==
  [i \in DOMAIN entries |->
     LET same == {x \in full : x.sequence = entries[i].sequence}
     IN  IF same = {} THEN entries[i] ELSE CHOOSE x \in same : TRUE]

Slower(a, b) == a.duration > b.duration \/ (a.duration = b.duration /\ a.sequence < b.sequence)

\* toHotspots() of the requests: the families that are slow enough, the slowest first.  The
\* cards of outgoing calls and of jobs (without the threshold) are the same of other types.
ToHotspots(entries) ==
  SelectSeq(ComputeFamilies(Of(Timed(entries), LAMBDA e : e.type = Request), TopN),
            LAMBDA family : family.p99 >= SlowRouteMs)

\* The queries of each trace, and the families repeated in one of them.
Hotspots(entries) ==
  LET traces == {e.trace : e \in ToSet(entries)} \ {0}
      In(t) == DetectNPlusOne(Of(entries, LAMBDA e : e.trace = t), Threshold)
      flagged == UNION {DOMAIN In(t) : t \in traces}
      Counts(f) == {<<t, In(t)[f]>> : t \in {u \in traces : f \in DOMAIN In(u)}}
      Row(f) == [family |-> f, traces |-> Cardinality(Counts(f)),
                 total |-> FoldSet(LAMBDA c, sum : sum + c[2], 0, Counts(f)),
                 perRequest |-> Max({c[2] : c \in Counts(f)})]
  IN  {Row(f) : f \in flagged}

\* draftPulse(): every card but the two that show samples.
DraftPulse(entries) ==
  LET asked == Of(entries, LAMBDA e : e.type = Request)
      status == ComputeStatus(asked)
  IN  [counts |-> [t \in {e.type : e \in ToSet(entries)} |->
                     Len(Of(entries, LAMBDA e : e.type = t))],
       total |-> Len(asked), status |-> status, failed |-> status["4xx"] + status["5xx"],
       slowRoutes |-> ToHotspots(entries),
       exceptions |-> ComputeExceptions(Of(entries, LAMBDA e : e.type = ExceptionType), TopN),
       nPlusOne |-> Hotspots(entries),
       overTime |-> BucketTimeseries(entries, reader.start, reader.end, 2),
       slowest |-> SubSeq(InOrder(ToSet(Timed(entries)), Slower), 1,
                          Min({TopN, Len(Timed(entries))})),
       scanned |-> Len(entries)]

\* The contents are here; the samples whose content is still missing are asked for by id.
PulseDrafts ==
  /\ reader.kind = "pulse" /\ reader.step = "contents" /\ reader.missing = {}
  /\ LET draft == DraftPulse(Joined(reader.scanned, reader.full))
     IN  Step([kind |-> "pulse", step |-> "samples", scanned |-> reader.scanned,
               draft |-> draft, labels |-> {},
               missing |-> {e.sequence : e \in {x \in ToSet(draft.slowest) : ~ x.full}}])

\* withContentById(): one get per sample, all under way at once.
ReadSample(seq) ==
  /\ reader.step = "samples" /\ seq \in reader.missing
  /\ Step([reader EXCEPT !.missing = @ \ {seq}, !.labels = @ \cup Found(seq)])

\* finishPulse(): a sample that was not found is labelled without its content.
PulseAnswers ==
  /\ reader.kind = "pulse" /\ reader.step = "samples" /\ reader.missing = {}
  /\ Step([reader EXCEPT !.step = "done"])

-----------------------------------------------------------------------------
(* A page of traces                                                        *)

\* getTracesPage(): the page of ids.
TracesBegin ==
  \E page \in 1 .. 2 :
    LET ids == ListTraceIds(PageSize, page)
    IN  Begin([kind |-> "traces", step |-> IF ids = <<>> THEN "done" ELSE "entries",
               page |-> page, ids |-> ids, rows |-> <<>>, hasMore |-> FALSE])

\* The entries of those traces.
ReadTraces ==
  /\ reader.step = "entries"
  /\ LET entries == Scan({e \in Recorded : e.trace # 0 /\ Contains(reader.ids, e.trace)})
         rows == SummarizeTraces(entries, PageSize)
     IN  Step([reader EXCEPT !.rows = rows,
                             !.step = IF Len(rows) < PageSize THEN "done" ELSE "probe"])

\* Mutant: the probe asks for the last row of this page.
ProbesThisPage(page) == ListTraceIds(1, PageSize * page) # <<>>

\* The probe: the first row after this page, as a page of one.
HasNext(page) == ListTraceIds(1, PageSize * page + 1) # <<>>

Probe ==
  /\ reader.step = "probe"
  /\ Step([reader EXCEPT !.hasMore = HasNext(reader.page), !.step = "done"])

-----------------------------------------------------------------------------
(* The labels of query families                                            *)

\* getStats() of queries: without contents, the newest entry of each family is its sample.
StatsBegin ==
  LET entries == Shown(Scan({e \in Recorded : e.type = Query /\ e.at > clock - Window}))
      families == ComputeFamilies(entries, TopN)
      Sample(f) == CHOOSE e \in ToSet(entries) :
                     e.family = f /\ \A x \in ToSet(entries) : x.family = f => x.sequence <= e.sequence
  IN  Begin([kind |-> "stats", step |-> "labels", entries |-> entries, families |-> families,
             labels |-> {}, missing |-> {Sample(families[i].family).sequence : i \in
               {k \in DOMAIN families : ~ Sample(families[k].family).full}}])

\* labelFamilies(): one get per family, all under way at once.
ReadLabel(seq) ==
  /\ reader.step = "labels" /\ seq \in reader.missing
  /\ Step([reader EXCEPT !.missing = @ \ {seq}, !.labels = @ \cup Found(seq)])

StatsAnswers ==
  /\ reader.step = "labels" /\ reader.missing = {}
  /\ Step([reader EXCEPT !.step = "done"])

-----------------------------------------------------------------------------

ReaderLeaves == reader.step = "done" /\ Step(Idle)

\* The host between two turns of a read; its answer leaves at once.
HostMoves ==
  /\ reader.step # "done"
  /\ \/ \E input \in Inputs[topic] : Record1(input)
     \/ \E keepLast \in 0 .. 1 : Prune1(clock, keepLast)
     \/ Clear1
     \/ MemoryTick
  /\ moved' = (reader # Idle)
  /\ UNCHANGED <<topic, omits, reader>>

ReadsNext ==
  \/ HostMoves \/ ReaderLeaves
  \/ PulseBegins \/ PulseDrafts \/ PulseAnswers
  \/ TracesBegin \/ ReadTraces \/ Probe
  \/ StatsBegin \/ StatsAnswers
  \/ \E t \in {Request, ExceptionType} : ReadType(t)
  \/ \E seq \in 0 .. MaxRecords - 1 : ReadSample(seq) \/ ReadLabel(seq)

ReadsSpec == ReadsInit /\ [][ReadsNext]_<<memoryVars, readVars>>

-----------------------------------------------------------------------------
(* Properties                                                              *)

\* All the numbers of a pulse are of its first list, whatever was recorded, pruned or
\* evicted while its contents were read: the classes add up, a content is unknown only for
\* an entry that is gone, and failures are never overstated (pulse.ts).
PulseIsOneSnapshot ==
  reader.kind = "pulse" /\ reader.step \in {"samples", "done"} =>
    LET d == reader.draft
        first == ToSet(reader.scanned)
        Same(e) == {x \in first : x.sequence = e.sequence}
    IN  /\ FoldFunction(+, 0, d.counts) = d.scanned /\ d.scanned = Cardinality(first)
        /\ FoldFunction(+, 0, d.status) = d.total
        /\ d.total = Cardinality({e \in first : e.type = Request})
        /\ d.failed <= Cardinality({e \in first : e.type = Request
                                                    /\ e.outcome \in {"4xx", "5xx"}})
        /\ \A i \in DOMAIN d.slowest :
             /\ Same(d.slowest[i]) # {}
             /\ \A e \in first : e.duration > d.slowest[i].duration
                                   => \E k \in 1 .. i - 1 : d.slowest[k].sequence = e.sequence
             /\ reader.step = "done" /\ ~ d.slowest[i].full =>
                  (\E l \in reader.labels : l.sequence = d.slowest[i].sequence)
                    \/ ~ \E e \in byId : e.sequence = d.slowest[i].sequence
        /\ \A h \in d.nPlusOne : h.perRequest >= Threshold /\ h.total >= h.traces * Threshold
        /\ ~ moved => d.failed = Cardinality({e \in byId : Same(e) # {} /\ e.type = Request
                                                    /\ e.outcome \in {"4xx", "5xx"}})

\* A page of traces shows only traces of its page of ids, each once and the latest first;
\* when the store stood still it is the page of the whole list, and hasMore is right
\* (metrics_service.ts).
TracePagesAreSound ==
  reader.kind = "traces" /\ reader.step = "done" =>
    LET all == SummarizeTraces(NewestFirst, MaxRecords)
        from == (reader.page - 1) * PageSize
    IN  /\ \A i \in DOMAIN reader.rows : Contains(reader.ids, reader.rows[i].traceId)
        /\ \A i, j \in DOMAIN reader.rows :
             i < j => /\ reader.rows[i].traceId # reader.rows[j].traceId
                      /\ reader.rows[i].lastAt >= reader.rows[j].lastAt
        /\ ~ moved => /\ reader.rows = PageOf(all, PageSize, reader.page)
                      /\ reader.hasMore <=> Len(all) > from + PageSize

\* A family of queries is left without a label only when its newest entry is gone.
FamiliesAreLabelled ==
  reader.kind = "stats" /\ reader.step = "done" /\ omits =>
    \A i \in DOMAIN reader.families :
      \/ \E l \in reader.labels : l.family = reader.families[i].family
      \/ \E e \in ToSet(reader.entries) :
           e.family = reader.families[i].family /\ ~ \E x \in byId : x.sequence = e.sequence

\* What takes several turns still answers about one moment.
AnswersHoldTogether == PulseIsOneSnapshot /\ TracePagesAreSound /\ FamiliesAreLabelled
=============================================================================

--------------------------- MODULE RecordersProofs ---------------------------
(***************************************************************************)
(* What stands between the host and the store, for any sets of watchers,    *)
(* channels, rules and contributions: the taps leave the host as they found *)
(* it and record an operation once, channels are followed, failures survive *)
(* sampling, requests keep their bounds, what is contributed has one owner; *)
(* nothing leaves the process unmasked and no failure goes uncounted.        *)
(***************************************************************************)
EXTENDS Recorders, Recording, SequenceLemmas

-----------------------------------------------------------------------------
(* Invariants                                                              *)

Wrappers == App \cup {"other"}
Stages == {"off", "logger", "redis", "queue", "up", "idle", "down"}
Events == {"query", "mail", "cache", "jobs", "any"}

\* Nothing, or one method that was put away.
MaybeMethod(k) == k = <<>> \/ (k = <<k[1]>> /\ k[1] \in Seq(Wrappers))

TapsTypes ==
  /\ boot \in [App -> Stages]
  /\ heard \subseteq App \X Events /\ teed \subseteq App /\ wrapped \subseteq App
  /\ log \in Seq(Wrappers) /\ sender \in Seq(Wrappers) /\ flight \in Seq(Wrappers)
  /\ MaybeMethod(saved)
  /\ kept = [s \in {"log", "redis"} |-> kept[s]]
  /\ MaybeMethod(kept["log"]) /\ MaybeMethod(kept["redis"])
  /\ client \in BOOLEAN /\ meddled \in BOOLEAN /\ armed \in Seq(App)
  /\ slot \in App \cup {"none"} /\ manager \in App \cup {"none"}
  /\ flood \in [App -> [count : Nat, over : BOOLEAN, warned : BOOLEAN]]
  /\ work \in [by : App \cup {"none"}, settled : BOOLEAN, n : {0, 1}]

\* Whatever a set of watchers holds of the host, it is at a stage of its boot where it has
\* asked for it and not yet given it back.
HeldByRunning ==
  /\ \A h \in heard : boot[h[1]] \in {"logger", "redis", "queue", "up"}
  /\ \A a \in teed : boot[a] \in {"redis", "queue", "up"}
  /\ \A i \in DOMAIN armed : boot[armed[i]] \in {"queue", "up"}
  /\ \A a \in wrapped : boot[a] \in {"queue", "up"}
  /\ slot # "none" => boot[slot] \in {"queue", "up"}
  /\ manager # "none" => boot[manager] = "up"

ArmedOnce == \A i, j \in DOMAIN armed : armed[i] = armed[j] => i = j

\* What a method is without the watchers: the third party's wrapper, while it has one.
Plain(s) == IF kept[s] = <<>> THEN <<>> ELSE <<"other">>

\* A method is the plain one, or that under the one tap of the one set that holds it.
Tapped(layers, s, by) ==
  \/ by = {} /\ layers = Plain(s)
  \/ \E a \in App : by = {a} /\ layers = Append(Plain(s), a)

TapsNest ==
  ~ meddled =>
    /\ \A s \in {"log", "redis"} : kept[s] = <<>> \/ kept[s] = << <<>> >>
    /\ Tapped(log, "log", teed)
    /\ Tapped(sender, "redis", wrapped)
    /\ saved = IF wrapped = {} THEN <<>> ELSE <<Plain("redis")>>
    /\ Cardinality(Recorders(flight)) <= 1

WorkOnce == ~ work.settled => work.n = 0

TapsInv ==
  TapsTypes /\ HeldByRunning /\ ArmedOnce /\ TapsNest /\ WorkOnce /\ OncePerOperation

\* A watcher that did not start follows nothing; one that did listens exactly when it found
\* the registry.
ChannelsInv ==
  /\ claims \in [Channel -> 0..2] /\ registry \in BOOLEAN
  /\ ~ started => ~ deaf
  /\ started => (listening <=> ~ deaf)
  /\ ChannelsAreLeft /\ EveryChannelIsFollowed

\* What was built is the entry of the operation, what was exported the mapping of that entry,
\* and only what no rule keeps was dropped.
EntriesInv ==
  subject = "entries" =>
    /\ operation \in Operations
    /\ entry = {} \/ entry = {EntryOf(operation)}
    /\ entry = {} => fate = "none"
    /\ fate = "dropped" => ~ AlwaysPasses(EntryOf(operation))
    /\ export = {} \/ export = Mapped(EntryOf(operation), operation)

Requests ==
  {RequestWith(s, b, u, st, tags) :
     s \in Shapes, b \in Bodies, u \in Sources, st \in Statuses, tags \in TagLists}

RequestInv == request \in Requests /\ RequestsAreBounded

ContributionsInv ==
  /\ extensions \in UNION {[1..n -> Extension] : n \in 0..2}
  /\ ContributionsAreOwned /\ OfferedIsSupported

RecordersInv ==
  TapsInv /\ ChannelsInv /\ EntriesInv /\ RequestInv /\ ContributionsInv
-----------------------------------------------------------------------------
(* Contributions                                                           *)

\* What is contributed is a finite set, and its ids are as many exactly when none is shared.
LEMMA IdsAreCounted ==
  ASSUME extensions \in UNION {[1..n -> Extension] : n \in 0..2}
  PROVE  /\ Cardinality(Contributed) \in Nat /\ Cardinality(Ids) \in Nat
         /\ Collides <=> Cardinality(Contributed) > Cardinality(Ids)
         /\ ~ Collides <=> Cardinality(Contributed) = Cardinality(Ids)
  <1>1. PICK n \in 0..2 : extensions \in [1..n -> Extension]
    OBVIOUS
  <1>2. IsFiniteSet(Contributed)
    <2>1. IsFiniteSet(1 .. n) /\ IsFiniteSet({1, 2})
      <3>1. IsFiniteSet(1 .. n)
        BY FS_Interval
      <3>2. IsFiniteSet({1})
        BY FS_Singleton
      <3>3. IsFiniteSet({1} \cup {2})
        BY <3>2, FS_AddElement
      <3>4. {1, 2} = {1} \cup {2}
        OBVIOUS
      <3>. QED
        BY <3>1, <3>3, <3>4
    <2>2. IsFiniteSet((1 .. n) \X {1, 2})
      BY <2>1, FS_Product
    <2>3. Contributed \in SUBSET ((1 .. n) \X {1, 2})
      BY <1>1 DEF Contributed
    <2>. QED
      BY <2>2, <2>3, FS_Subset
  <1>3. PICK f : f = [p \in Contributed |-> IdOf(p)]
    OBVIOUS
  <1>4. f \in Surjection(Contributed, Ids)
    BY <1>3 DEF Surjection, Ids
  <1>5. /\ IsFiniteSet(Ids) /\ Cardinality(Ids) <= Cardinality(Contributed)
        /\ Cardinality(Ids) = Cardinality(Contributed) <=> f \in Injection(Contributed, Ids)
    BY <1>2, <1>4, FS_Surjection
  <1>6. f \in Injection(Contributed, Ids) <=> ~ Collides
    <2>1. f \in [Contributed -> Ids]
      BY <1>4 DEF Surjection
    <2>2. f \in Injection(Contributed, Ids) <=> \A p, q \in Contributed : f[p] = f[q] => p = q
      BY <2>1 DEF Injection, IsInjective
    <2>3. \A p \in Contributed : f[p] = IdOf(p)
      BY <1>3
    <2>. QED
      BY <2>2, <2>3 DEF Collides
  <1>7. Cardinality(Contributed) \in Nat /\ Cardinality(Ids) \in Nat
    BY <1>2, <1>5, FS_CardinalityType
  <1>. QED
    BY <1>5, <1>6, <1>7

\* No extension before the owner of a schedule could give it.
LEMMA OwnerIsFirst ==
  ASSUME extensions \in UNION {[1..n -> Extension] : n \in 0..2},
         NEW t \in TaskName, NEW i \in OwnerOf(t), NEW j \in 1..(i - 1)
  PROVE  extensions[j].tasks.fails \/ t \notin extensions[j].tasks.names
  <1>1. PICK n \in 0..2 : extensions \in [1..n -> Extension]
    OBVIOUS
  <1>2. PICK able : able = {k \in DOMAIN extensions : ~ extensions[k].tasks.fails
                                                       /\ t \in extensions[k].tasks.names}
    OBVIOUS
  <1>3. able \in SUBSET Nat /\ able \in SUBSET (1 .. n)
    BY <1>1, <1>2
  <1>4. able # {} /\ i = CHOOSE k \in able : \A l \in able : k <= l
    BY <1>2 DEF OwnerOf
  <1>5. \E k \in able : \A l \in able : k <= l
    BY <1>3, <1>4, NaturalsHaveMin
  <1>6. i \in able /\ \A l \in able : i <= l
    BY <1>4, <1>5
  <1>7. j \in 1 .. n /\ ~ (i <= j)
    BY <1>3, <1>6
  <1>. QED
    BY <1>1, <1>2, <1>6, <1>7

\* A step of the registry or of the queue manager keeps what holds of both.
LEMMA ContributingKeeps ==
  ASSUME ContributionsInv, ContributionsNext
  PROVE  ContributionsInv'
  <1>. USE DEF ContributionsInv
  <1>1. CASE BuildRegistry
    <2>1. extensions' = extensions /\ answer' = answer /\ service' = service
      BY <1>1 DEF BuildRegistry
    <2>2. OfferedIsSupported'
      BY <2>1 DEF OfferedIsSupported, Capabilities, HasAdapter
    <2>3. Contributed' = Contributed /\ Ids' = Ids
      BY <2>1 DEF Contributed, Ids, IdOf
    <2>4. ContributionsAreOwned'
      <3>1. CASE Collides
        BY <1>1, <2>3, <3>1, IdsAreCounted DEF BuildRegistry, ContributionsAreOwned
      <3>2. CASE ~ Collides
        <4>1. registered' = <<"built", Ids, [t \in TaskName |-> OwnerOf(t)]>>
          BY <1>1, <3>2 DEF BuildRegistry
        <4>2. \A t \in TaskName : registered'[3][t] = OwnerOf(t)
          BY <4>1
        <4>3. registered'[1] = "built" /\ registered'[2] = Ids
          BY <4>1
        <4>4. Cardinality(Contributed') = Cardinality(registered'[2])
          BY <2>3, <3>2, <4>3, IdsAreCounted
        <4>5. \A t \in TaskName : \A i \in registered'[3][t] :
                \A j \in 1..(i - 1) : extensions'[j].tasks.fails \/ t \notin extensions'[j].tasks.names
          BY <2>1, <4>2, OwnerIsFirst
        <4>. QED
          BY <4>3, <4>4, <4>5 DEF ContributionsAreOwned
      <3>. QED
        BY <3>1, <3>2
    <2>. QED
      BY <2>1, <2>2, <2>4
  <1>2. CASE ListQueues \/ GetJob \/ Retry \/ Enqueue \/ NextQuestion
    <2>1. UNCHANGED <<extensions, registered, service>>
      BY <1>2 DEF ListQueues, GetJob, Retry, Enqueue, NextQuestion
    <2>2. ContributionsAreOwned'
      BY <2>1 DEF ContributionsAreOwned, Contributed, Ids, IdOf
    <2>3. Capabilities' = Capabilities
      BY <2>1 DEF Capabilities, HasAdapter
    <2>4. OfferedIsSupported'
      <3>1. CASE ListQueues
        BY <3>1 DEF ListQueues, OfferedIsSupported
      <3>2. CASE GetJob
        BY <3>2 DEF GetJob, OfferedIsSupported
      <3>3. CASE Retry
        BY <2>3, <3>3 DEF Retry, OfferedIsSupported, Capabilities
      <3>4. CASE Enqueue
        BY <2>3, <3>4 DEF Enqueue, OfferedIsSupported, Capabilities
      <3>5. CASE NextQuestion
        BY <3>5 DEF NextQuestion, OfferedIsSupported
      <3>. QED
        BY <1>2, <3>1, <3>2, <3>3, <3>4, <3>5
    <2>. QED
      BY <2>1, <2>2, <2>4
  <1>. QED
    BY <1>1, <1>2 DEF ContributionsNext
-----------------------------------------------------------------------------
(* Requests                                                                *)

\* The first numbers are finitely many.
LEMMA UptoIsFinite == ASSUME NEW n \in Nat PROVE IsFiniteSet(1 .. n)
  BY FS_Interval

\* The tags of the hook are bounded in number and length, and none when it throws.
LEMMA TagsAreBounded ==
  ASSUME NEW r, NEW n \in Nat, r.tags \in [1..n -> 0..(MaxTagLength + 1)]
  PROVE  /\ Len(EnrichmentTags(r)) <= MaxTags
         /\ \A i \in DOMAIN EnrichmentTags(r) : EnrichmentTags(r)[i] \in 1..MaxTagLength
         /\ r.sources.enriched = "throws" => EnrichmentTags(r) = <<>>
  <1>0. MaxTags \in Nat /\ MaxTagLength \in Nat /\ 1 <= MaxTagLength
    BY RequestEntriesAssumption
  <1>. DEFINE given == {i \in DOMAIN r.tags : r.tags[i] > 0}
              count == IF Cardinality(given) < MaxTags THEN Cardinality(given) ELSE MaxTags
              Nth(k) == CHOOSE i \in given : Cardinality({j \in given : j <= i}) = k
              cut(len) == IF len > MaxTagLength THEN MaxTagLength ELSE len
  <1>1. given \in SUBSET (1 .. n) /\ \A i \in given : r.tags[i] \in 1..(MaxTagLength + 1)
    BY <1>0
  <1>2. Cardinality(given) \in Nat
    <2>1. IsFiniteSet(1 .. n)
      BY UptoIsFinite
    <2>2. IsFiniteSet(given)
      BY <1>1, <2>1, FS_Subset
    <2>. QED
      BY <2>2, FS_CardinalityType
  <1>3. count \in Nat /\ count <= MaxTags /\ count <= Cardinality(given)
    BY <1>0, <1>2
  <1>4. ASSUME NEW k \in 1 .. count
        PROVE  Nth(k) \in given
    <2>1. k \in 1 .. Cardinality(given)
      BY <1>2, <1>3
    <2>2. \E i \in given : Cardinality({j \in given : j <= i}) = k
      BY <1>1, <2>1, RanksAreTaken
    <2>. QED
      BY <2>2
  <1>5. ASSUME NEW k \in 1 .. count
        PROVE  cut(r.tags[Nth(k)]) \in 1 .. MaxTagLength
    <2>1. r.tags[Nth(k)] \in 1..(MaxTagLength + 1)
      BY <1>1, <1>4
    <2>. QED
      BY <1>0, <2>1
  <1>6. EnrichmentTags(r) = IF r.sources.enriched = "throws" THEN <<>>
                            ELSE [k \in 1 .. count |-> cut(r.tags[Nth(k)])]
    BY DEF EnrichmentTags
  <1>. HIDE DEF given, count, Nth, cut
  <1>7. PICK t : t = [k \in 1 .. count |-> cut(r.tags[Nth(k)])]
    OBVIOUS
  <1>8. DOMAIN t = 1 .. count /\ Len(t) = count /\ \A k \in 1 .. count : t[k] \in 1 .. MaxTagLength
    BY <1>3, <1>5, <1>7
  <1>9. CASE r.sources.enriched = "throws"
    BY <1>0, <1>6, <1>9
  <1>10. CASE r.sources.enriched # "throws"
    <2>1. EnrichmentTags(r) = t
      BY <1>6, <1>7, <1>10
    <2>. QED
      BY <1>3, <1>8, <1>10, <2>1
  <1>. QED
    BY <1>9, <1>10

\* What is told of a request keeps its bounds.
LEMMA TellingKeeps ==
  ASSUME RequestInv, RecordRequest
  PROVE  RequestInv'
  <1>1. request' = request /\ request \in Requests
    BY DEF RequestInv, RecordRequest
  <1>2. PICK s \in Shapes, b \in Bodies, u \in Sources, st \in Statuses, tags \in TagLists :
          request = RequestWith(s, b, u, st, tags)
    BY <1>1 DEF Requests
  <1>3. request.body = b /\ request.sources = u /\ request.tags = tags
    BY <1>2 DEF RequestWith
  <1>4. PICK n \in Nat : tags \in [1..n -> 0..(MaxTagLength + 1)]
    BY RequestEntriesAssumption DEF TagLists
  <1>5. PICK t : t = EnrichmentTags(request)
    OBVIOUS
  <1>6. /\ Len(t) <= MaxTags /\ \A i \in DOMAIN t : t[i] \in 1..MaxTagLength
        /\ u.enriched = "throws" => t = <<>>
    BY <1>3, <1>4, <1>5, TagsAreBounded
  <1>7. told' = <<[kind |-> Classify(request.shape),
                   body |-> IF b.captured THEN GateBody(b) ELSE "none",
                   status |-> ResolveStatus(request.status),
                   user |-> UserOf(u), tags |-> t]>>
    BY <1>3, <1>5 DEF RecordRequest
  <1>8. PICK e : e = told'[1]
    OBVIOUS
  <1>9. /\ e.body = IF b.captured THEN GateBody(b) ELSE "none"
        /\ e.user = UserOf(u) /\ e.tags = t
    BY <1>7, <1>8
  <1>10. e.body = "body" => /\ b.captured /\ ~ b.skipped
                            /\ b.limited => \A k \in EstimatedBytes(b) : k <= MaxBodyBytes
    <2>1. \A k \in EstimatedBytes(b) : k \in Nat
      BY DEF EstimatedBytes, Bodies
    <2>2. ASSUME e.body = "body" PROVE b.captured /\ GateBody(b) = "body"
      BY <1>9, <2>2
    <2>3. ASSUME GateBody(b) = "body"
          PROVE  ~ b.skipped /\ ~ (b.limited /\ \E k \in EstimatedBytes(b) : k > MaxBodyBytes)
      BY <2>3 DEF GateBody
    <2>. QED
      BY <2>1, <2>2, <2>3, RequestEntriesAssumption
  <1>11. u.enriched = "throws" /\ u.given = "absent" => e.user = ResolveUser(u) /\ e.tags = <<>>
    BY <1>6, <1>9 DEF UserOf
  <1>12. e.user = "guard" => u.given = "absent" /\ u.enriched \notin {"null", "user"}
    BY <1>9 DEF UserOf
  <1>13. RequestsAreBounded'
    BY <1>1, <1>3, <1>6, <1>8, <1>9, <1>10, <1>11, <1>12 DEF RequestsAreBounded, EstimatedBytes, ResolveUser
  <1>. QED
    BY <1>1, <1>13 DEF RequestInv
-----------------------------------------------------------------------------
(* Entries                                                                 *)

\* What the operations of the host are like: a duration is one number or absent, only a call
\* has a status and only a line or a diagnostic a level; what failed says so by its kind.
LEMMA OperationFacts ==
  ASSUME NEW o \in Operations
  PROVE  /\ o.ms = {} \/ \E m \in Measured : o.ms = {m}
         /\ o.kind \notin {"fetch", "request"} => o.status = {}
         /\ o.kind = "fetch" => o.level = {} /\ \A s \in o.status : s \in {200, 404, 499, 500, 503}
         /\ o.kind \in {"log", "diagnostic"} \/ o.level = {}
         /\ o.outcome \in {"failed", "retrying"} /\ o.kind \notin Unmarked => FailedTag(o)
         /\ o.kind \in Unmarked => o.level = {}
         /\ o.kind = "diagnostic" => o.ts \in Nat
  <1>0. \A S : \A m \in Optional(S) : m = {} \/ \E x \in S : m = {x}
    BY DEF Optional
  <1>1. CASE o \in {JobOf(c, m) : c \in {"completed", "failed", "retrying"}, m \in Optional(Measured)}
    <2>1. PICK c \in {"completed", "failed", "retrying"}, m \in Optional(Measured) :
            o = JobOf(c, m)
      BY <1>1
    <2>2. o.kind = "job" /\ o.outcome = c /\ o.ms = m /\ o.status = {} /\ o.level = {}
      BY <2>1 DEF JobOf, Blank
    <2>. QED
      BY <1>0, <2>1, <2>2 DEF FailedTag
  <1>2. CASE o \in {RunOf(k, c, m) :
                      k \in {"task", "profile"}, c \in {"completed", "failed"}, m \in Measured}
    <2>1. PICK k \in {"task", "profile"}, c \in {"completed", "failed"}, m \in Measured :
            o = RunOf(k, c, m)
      BY <1>2
    <2>2. o.kind = k /\ o.outcome = c /\ o.ms = {m} /\ o.status = {} /\ o.level = {}
      BY <2>1 DEF RunOf, Blank
    <2>. QED
      BY <1>0, <2>1, <2>2 DEF FailedTag
  <1>3. CASE o \in {CallOf(s, m) : s \in Optional({200, 404, 499, 500, 503}), m \in Measured}
    <2>1. PICK s \in Optional({200, 404, 499, 500, 503}), m \in Measured : o = CallOf(s, m)
      BY <1>3
    <2>2. o.kind = "fetch" /\ o.status = s /\ o.ms = {m} /\ o.level = {}
          /\ o.outcome = IF s = {} THEN "failed" ELSE "completed"
      BY <2>1 DEF CallOf, Blank
    <2>. QED
      BY <1>0, <2>1, <2>2 DEF FailedTag
  <1>4. CASE o \in {TimedOf(k, m) : k \in {"query", "command"}, m \in Optional(Measured)}
    <2>1. PICK k \in {"query", "command"}, m \in Optional(Measured) : o = TimedOf(k, m)
      BY <1>4
    <2>2. o.kind = k /\ o.outcome = "completed" /\ o.ms = m /\ o.status = {} /\ o.level = {}
      BY <2>1 DEF TimedOf, Blank
    <2>. QED
      BY <1>0, <2>1, <2>2 DEF FailedTag
  <1>5. CASE o \in {LineOf(l) : l \in {"debug", "info", "warn", "error", "fatal"}}
    <2>1. PICK l \in {"debug", "info", "warn", "error", "fatal"} : o = LineOf(l)
      BY <1>5
    <2>2. o.kind = "log" /\ o.outcome = "completed" /\ o.ms = {} /\ o.status = {}
      BY <2>1 DEF LineOf, Blank
    <2>. QED
      BY <1>0, <2>1, <2>2 DEF FailedTag, Unmarked
  <1>6. CASE o \in {EventOf(k) : k \in {"mail", "cache", "event"}}
    <2>1. PICK k \in {"mail", "cache", "event"} : o = EventOf(k)
      BY <1>6
    <2>2. o.kind = k /\ o.outcome = "completed" /\ o.ms = {} /\ o.status = {} /\ o.level = {}
      BY <2>1 DEF EventOf, Blank
    <2>. QED
      BY <1>0, <2>1, <2>2 DEF FailedTag
  <1>7. CASE o \in {DiagnosticOf(m, l, e, d, t) :
                      m \in Optional(Measured), l \in Optional({"info", "warn", "fatal"}), e \in BOOLEAN, d \in BOOLEAN, t \in 2..3}
    <2>1. PICK m \in Optional(Measured), l \in Optional({"info", "warn", "fatal"}), e \in BOOLEAN, d \in BOOLEAN, t \in 2..3 :
            o = DiagnosticOf(m, l, e, d, t)
      BY <1>7
    <2>2. o.kind = "diagnostic" /\ o.outcome = "completed" /\ o.ms = m /\ o.status = {} /\ o.ts = t
      BY <2>1 DEF DiagnosticOf, Blank
    <2>. QED
      BY <1>0, <2>1, <2>2 DEF FailedTag, Unmarked
  <1>8. CASE o \in {RequestOf(s, m) : s \in Optional({200, 404, 500}), m \in Measured}
    <2>1. PICK s \in Optional({200, 404, 500}), m \in Measured : o = RequestOf(s, m)
      BY <1>8
    <2>2. o.kind = "request" /\ o.outcome = "completed" /\ o.ms = {m} /\ o.level = {}
      BY <2>1 DEF RequestOf, Blank
    <2>. QED
      BY <1>0, <2>1, <2>2 DEF FailedTag
  <1>9. CASE o \in {ThrownOf(k) : k \in {"exception", "client_exception"}}
    <2>1. PICK k \in {"exception", "client_exception"} : o = ThrownOf(k)
      BY <1>9
    <2>2. o.kind = k /\ o.outcome = "failed" /\ o.ms = {} /\ o.status = {} /\ o.level = {}
      BY <2>1 DEF ThrownOf, Blank
    <2>. QED
      BY <1>0, <2>1, <2>2 DEF FailedTag, Unmarked
  <1>. QED
    BY <1>1, <1>2, <1>3, <1>4, <1>5, <1>6, <1>7, <1>8, <1>9 DEF Operations

\* What was as slow as the rule says is kept whatever the draw, and so is what failed, when it
\* is no request and no exception.
LEMMA FailuresAlwaysPass ==
  ASSUME NEW o \in Operations, ~ AlwaysPasses(EntryOf(o))
  PROVE  (Failed(o) => o.kind \in Unmarked) /\ \A d \in o.ms : d < KeepSlowMs
  <1>1. PICK e : e = EntryOf(o)
    OBVIOUS
  <1>2. /\ "failed" \in e.tags <=> FailedTag(o)
        /\ e.duration = DurationOf(o)
        /\ e.statusCode = IF o.kind = "fetch" THEN o.status ELSE {}
        /\ e.level = IF o.kind = "log" THEN o.level ELSE {}
    BY <1>1 DEF EntryOf
  <1>3. ~ IsErrorEntry(e) /\ \A d \in e.duration : ~ (d >= KeepSlowMs)
    BY <1>1 DEF AlwaysPasses
  <1>4. ~ FailedTag(o)
    BY <1>2, <1>3 DEF IsErrorEntry
  <1>5. o.outcome \notin {"failed", "retrying"} \/ o.kind \in Unmarked
    BY <1>4, OperationFacts
  <1>6. o.status \cap (500..599) = {} \/ o.kind \in Unmarked
    <2>1. CASE o.kind = "fetch"
      BY <2>1, <1>2, <1>3 DEF IsErrorEntry
    <2>2. CASE o.kind # "fetch"
      BY <2>2, OperationFacts DEF Unmarked
    <2>. QED
      BY <2>1, <2>2
  <1>7. ~ (o.kind = "log" /\ o.level \cap {"error", "fatal"} # {})
    BY <1>2, <1>3 DEF IsErrorEntry
  <1>8. \A d \in o.ms : d < KeepSlowMs
    <2>1. TAKE d \in o.ms
    <2>2. d \in Int /\ KeepSlowMs \in Nat
      BY OperationFacts, EntriesAssumption DEF Measured
    <2>3. CASE d < 0
      BY <2>2, <2>3
    <2>4. CASE ~ (d < 0)
      <3>1. d \in DurationOf(o)
        BY <2>4 DEF DurationOf, Clamp
      <3>. QED
        BY <1>2, <1>3, <2>2, <3>1
    <2>. QED
      BY <2>3, <2>4
  <1>. QED
    BY <1>5, <1>6, <1>7, <1>8 DEF Failed

\* A request or an exception never looks like an error to the rules.
LEMMA UnmarkedPassesUnseen ==
  ASSUME NEW o \in Operations, o.kind \in Unmarked
  PROVE  ~ IsErrorEntry(EntryOf(o))
  <1>1. /\ "failed" \in EntryOf(o).tags <=> FailedTag(o)
        /\ EntryOf(o).statusCode = {} /\ EntryOf(o).level = {}
    BY OperationFacts DEF EntryOf, Unmarked
  <1>2. ~ FailedTag(o)
    BY DEF FailedTag, Unmarked
  <1>. QED
    BY <1>1, <1>2 DEF IsErrorEntry

\* Of an outgoing call, what counts as an error is no answer or an answer of the server's own.
LEMMA CallErrors ==
  ASSUME NEW o \in Operations, o.kind = "fetch"
  PROVE  IsErrorEntry(EntryOf(o)) <=> (o.status = {} \/ o.status \cap (500..599) # {})
  <1>1. /\ "failed" \in EntryOf(o).tags <=> FailedTag(o)
        /\ EntryOf(o).statusCode = o.status /\ EntryOf(o).level = {}
    BY DEF EntryOf
  <1>2. FailedTag(o) <=> o.status = {} \/ \E s \in o.status : s >= 500
    BY DEF FailedTag
  <1>3. (\E s \in o.status : s >= 500) <=> o.status \cap (500..599) # {}
    BY OperationFacts
  <1>. QED
    BY <1>1, <1>2, <1>3 DEF IsErrorEntry

\* What is exported ends at the event's own time, after it began, and does not hide an error.
LEMMA MappingAgrees ==
  ASSUME NEW o \in Operations, NEW x \in Mapped(EntryOf(o), o)
  PROVE  /\ x.to = o.ts /\ x.from <= x.to
         /\ x.as = "span" => (x.status = "OK" => ~ o.error)
         /\ x.as = "span" <=> \E d \in o.ms : d >= 0
  <1>1. PICK e : e = EntryOf(o)
    OBVIOUS
  <1>2. o.kind = "diagnostic" /\ e.kind = o.kind /\ e.duration = o.ms
    BY <1>1 DEF Mapped, EntryOf, DurationOf
  <1>3. PICK span : span = SpanLength(e)
    OBVIOUS
  <1>4. span = {d \in o.ms : d >= 0} /\ \A d \in span : d \in Int /\ 0 <= d
    BY <1>2, <1>3, OperationFacts DEF SpanLength, Measured
  <1>5. o.ts \in Nat
    BY <1>2, OperationFacts
  <1>6. CASE span # {}
    <2>1. PICK d : d = CHOOSE n \in span : TRUE
      OBVIOUS
    <2>2. d \in span
      BY <1>6, <2>1
    <2>3. x = [as |-> "span", from |-> o.ts - d, to |-> o.ts,
               status |-> IF LooksFailed(e, o) THEN "ERROR" ELSE "OK"]
      BY <1>1, <1>2, <1>3, <1>6, <2>1 DEF Mapped
    <2>4. o.ts - d <= o.ts
      BY <1>4, <1>5, <2>2
    <2>5. x.to = o.ts /\ x.from <= x.to /\ x.as = "span"
      BY <2>3, <2>4
    <2>6. x.status = "OK" => ~ o.error
      BY <2>3 DEF LooksFailed
    <2>. QED
      BY <1>4, <2>2, <2>5, <2>6
  <1>7. CASE span = {}
    <2>1. x = [as |-> "log", from |-> o.ts, to |-> o.ts, status |-> Severity(o, LooksFailed(e, o))]
      BY <1>1, <1>2, <1>3, <1>7 DEF Mapped
    <2>2. x.to = o.ts /\ x.from = o.ts /\ x.as = "log"
      BY <2>1
    <2>. QED
      BY <1>4, <1>5, <1>7, <2>2
  <1>. QED
    BY <1>6, <1>7

\* The invariant says what the property asks.
LEMMA EntriesTrue ==
  ASSUME EntriesInv, subject = "entries"
  PROVE  FailuresAreKept /\ ExportsAgree
  <1>1. operation \in Operations
    BY DEF EntriesInv
  <1>2. FailuresAreKept
    <2>1. fate = "dropped" => /\ Failed(operation) => operation.kind \in Unmarked
                              /\ \A d \in operation.ms : d < KeepSlowMs
      BY <1>1, FailuresAlwaysPass DEF EntriesInv
    <2>2. \A e \in entry : operation.kind = "fetch" =>
            (IsErrorEntry(e) <=> (operation.status = {} \/ operation.status \cap (500..599) # {}))
      BY <1>1, CallErrors DEF EntriesInv
    <2>3. \A e \in entry : operation.kind \in Unmarked => ~ IsErrorEntry(e)
      BY <1>1, UnmarkedPassesUnseen DEF EntriesInv
    <2>. QED
      BY <2>1, <2>2, <2>3 DEF FailuresAreKept
  <1>3. ExportsAgree
    BY <1>1, MappingAgrees DEF EntriesInv, ExportsAgree
  <1>. QED
    BY <1>2, <1>3

\* Building, sampling and exporting keep the invariant.
LEMMA BuildingKeeps ==
  ASSUME EntriesInv, EntriesNext, subject = "entries", subject' = subject
  PROVE  EntriesInv'
  <1>. USE DEF EntriesInv
  <1>1. CASE Build
    BY <1>1 DEF Build
  <1>2. CASE SampleEntry
    BY <1>2 DEF SampleEntry
  <1>3. CASE Export
    BY <1>3 DEF Export
  <1>. QED
    BY <1>1, <1>2, <1>3 DEF EntriesNext

-----------------------------------------------------------------------------
(* Channels                                                                *)

\* A step of a library, of the registry or of the watcher keeps what holds of the channels.
LEMMA FollowingKeeps ==
  ASSUME ChannelsInv, ChannelsNext
  PROVE  ChannelsInv'
  <1>. USE DEF ChannelsInv, ChannelsAreLeft, EveryChannelIsFollowed
  <1>1. CASE LoadsRegistry
    BY <1>1 DEF LoadsRegistry
  <1>2. CASE StartChannels
    BY <1>2 DEF StartChannels
  <1>3. CASE StopChannels
    BY <1>3 DEF StopChannels
  <1>4. ASSUME NEW c \in Channel, Announces(c) PROVE ChannelsInv'
    BY <1>4 DEF Announces
  <1>5. ASSUME NEW c \in Channel, Claims(c) PROVE ChannelsInv'
    <2>1. claims[c] \in 0..2 /\ claims[c] + 1 \in 0..2
      BY <1>5 DEF Claims
    <2>. QED
      BY <1>5, <2>1 DEF Claims
  <1>6. ASSUME NEW c \in Channel, Releases(c) PROVE ChannelsInv'
    <2>1. claims[c] \in 0..2 /\ claims[c] - 1 \in 0..2
      BY <1>6 DEF Releases
    <2>. QED
      BY <1>6, <2>1 DEF Releases
  <1>7. ASSUME NEW c \in Channel, NEW wellFormed \in BOOLEAN, Emits(c, wellFormed)
        PROVE  ChannelsInv'
    <2>1. UNCHANGED <<registry, announced, claims, started, listening, subscriptions, deaf>>
      BY <1>7 DEF Emits
    <2>2. heardAt'[1] = c /\ heardAt'[2] = wellFormed
          /\ heardAt'[3] = (c \in subscriptions /\ Kept(c, wellFormed))
      BY <1>7 DEF Emits
    <2>3. c \in announced
      BY <1>7 DEF Emits
    <2>. QED
      BY <2>1, <2>2, <2>3 DEF Kept
  <1>. QED
    BY <1>1, <1>2, <1>3, <1>4, <1>5, <1>6, <1>7 DEF ChannelsNext
-----------------------------------------------------------------------------
(* Wrapped methods                                                         *)

\* A plain method carries no tap, and one tap over it is found, on top, counted once, and gone
\* when it is taken off.
LEMMA OneLayer ==
  ASSUME NEW b \in {<<>>, <<"other">>}, NEW a \in App
  PROVE  /\ b \in Seq(Wrappers) /\ ~ Teed(b) /\ ~ OnTop(b) /\ Recorders(b) = {}
         /\ Append(b, a) \in Seq(Wrappers) /\ Teed(Append(b, a)) /\ OnTop(Append(b, a))
         /\ Below(Append(b, a)) = b
         /\ Recorders(Append(b, a)) = {Len(b) + 1} /\ Append(b, a)[Len(b) + 1] = a
         /\ Len(b) + 1 \in DOMAIN Append(b, a)
         /\ \A i \in DOMAIN Append(b, a) : Append(b, a)[i] \in App => Append(b, a)[i] = a
  <1>1. "other" \notin App /\ a \in Wrappers /\ "other" \in Wrappers
    BY TapsAssumption DEF Wrappers
  <1>2. b \in Seq(Wrappers) /\ Len(b) \in Nat
    <2>1. <<>> \in Seq(Wrappers)
      OBVIOUS
    <2>2. <<"other">> \in Seq(Wrappers)
      BY <1>1
    <2>3. b \in Seq(Wrappers)
      BY <2>1, <2>2
    <2>. QED
      BY <2>3, LenProperties
  <1>3. \A i \in DOMAIN b : b[i] \notin App
    BY <1>1
  <1>4. ~ Teed(b) /\ Recorders(b) = {}
    BY <1>3 DEF Teed, Recorders
  <1>5. ~ OnTop(b)
    BY <1>1 DEF OnTop
  <1>6. PICK l : l = Append(b, a)
    OBVIOUS
  <1>7. /\ l \in Seq(Wrappers) /\ Len(l) = Len(b) + 1 /\ DOMAIN l = 1 .. Len(b) + 1
        /\ l[Len(b) + 1] = a /\ \A i \in 1 .. Len(b) : l[i] = b[i]
    BY <1>1, <1>2, <1>6, AppendProperties
  <1>8. \A i \in 1 .. Len(b) : l[i] \notin App
    BY <1>2, <1>3, <1>7
  <1>9. \A i \in DOMAIN l : l[i] \in App => i = Len(b) + 1
    BY <1>2, <1>7, <1>8
  <1>10. Len(b) + 1 \in DOMAIN l
    BY <1>2, <1>7
  <1>11. Recorders(l) = {Len(b) + 1}
    BY <1>7, <1>9, <1>10 DEF Recorders
  <1>12. Teed(l)
    BY <1>7, <1>10 DEF Teed
  <1>13. OnTop(l)
    <2>1. l # <<>>
      BY <1>10
    <2>. QED
      BY <1>7, <2>1 DEF OnTop
  <1>14. Below(l) = b
    <2>1. Len(l) - 1 = Len(b) /\ Len(b) <= Len(l)
      BY <1>2, <1>7
    <2>2. SubSeq(l, 1, Len(b)) \in Seq(Wrappers) /\ Len(SubSeq(l, 1, Len(b))) = Len(b)
          /\ \A i \in 1 .. Len(b) : SubSeq(l, 1, Len(b))[i] = l[i]
      BY <1>2, <1>7, <2>1, CutParts
    <2>3. SubSeq(l, 1, Len(b)) = b
      BY <1>2, <1>7, <2>2, SeqEqual
    <2>. QED
      BY <2>1, <2>3 DEF Below
  <1>. QED
    BY <1>2, <1>4, <1>5, <1>6, <1>7, <1>9, <1>10, <1>11, <1>12, <1>13, <1>14

\* One tap at most records what goes through a method that no third party wrapped over a tap.
LEMMA OneRecorder ==
  ASSUME NEW layers, NEW s, NEW by, Tapped(layers, s, by)
  PROVE  /\ IsFiniteSet(Recorders(layers)) /\ Cardinality(Recorders(layers)) <= 1
         /\ by = {} <=> ~ Teed(layers)
         /\ by = {} <=> ~ OnTop(layers)
         /\ by = {} => layers = Plain(s)
         /\ \A a \in App : a \in by <=> \E i \in DOMAIN layers : layers[i] = a
         /\ \A a \in by : Below(layers) = Plain(s)
  <1>1. Plain(s) \in {<<>>, <<"other">>}
    BY DEF Plain
  <1>2. CASE by = {} /\ layers = Plain(s)
    <2>1. CASE App = {}
      <3>1. layers = <<>> \/ layers = <<"other">>
        BY <1>1, <1>2
      <3>2. Recorders(layers) = {} /\ ~ Teed(layers) /\ ~ OnTop(layers)
        BY <2>1 DEF Recorders, Teed, OnTop
      <3>. QED
        BY <1>2, <2>1, <3>2, FS_EmptySet
    <2>2. CASE App # {}
      <3>1. Recorders(layers) = {} /\ ~ Teed(layers) /\ ~ OnTop(layers)
        BY <1>1, <1>2, <2>2, OneLayer
      <3>2. \A a \in App : ~ \E i \in DOMAIN layers : layers[i] = a
        BY <3>1 DEF Teed
      <3>. QED
        BY <1>2, <3>1, <3>2, FS_EmptySet
    <2>. QED
      BY <2>1, <2>2
  <1>3. ASSUME NEW a \in App, by = {a}, layers = Append(Plain(s), a)
        PROVE  /\ IsFiniteSet(Recorders(layers)) /\ Cardinality(Recorders(layers)) <= 1
               /\ Teed(layers) /\ OnTop(layers) /\ Below(layers) = Plain(s)
               /\ \A b \in App : b \in by <=> \E i \in DOMAIN layers : layers[i] = b
    <2>0. PICK m : m = Plain(s) /\ m \in {<<>>, <<"other">>}
      BY <1>1
    <2>1. /\ Recorders(layers) = {Len(m) + 1} /\ Teed(layers) /\ OnTop(layers)
          /\ Below(layers) = Plain(s)
          /\ layers[Len(m) + 1] = a /\ Len(m) + 1 \in DOMAIN layers
          /\ \A i \in DOMAIN layers : layers[i] \in App => layers[i] = a
      <3>1. layers = Append(m, a)
        BY <1>3, <2>0
      <3>2. /\ Recorders(Append(m, a)) = {Len(m) + 1} /\ Teed(Append(m, a)) /\ OnTop(Append(m, a))
            /\ Below(Append(m, a)) = m
            /\ Append(m, a)[Len(m) + 1] = a /\ Len(m) + 1 \in DOMAIN Append(m, a)
            /\ \A i \in DOMAIN Append(m, a) : Append(m, a)[i] \in App => Append(m, a)[i] = a
        BY <2>0, OneLayer
      <3>. QED
        BY <2>0, <3>1, <3>2
    <2>2. IsFiniteSet(Recorders(layers)) /\ Cardinality(Recorders(layers)) = 1
      BY <2>1, FS_Singleton
    <2>3. \A b \in App : b = a <=> \E i \in DOMAIN layers : layers[i] = b
      BY <2>1
    <2>. QED
      BY <1>3, <2>1, <2>2, <2>3
  <1>. QED
    BY <1>2, <1>3 DEF Tapped

\* The manager forgets exactly the set that leaves.
LEMMA DisarmForgets ==
  ASSUME armed \in Seq(App), ArmedOnce, NEW a \in App, Disarm(a)
  PROVE  /\ armed' \in Seq(App) /\ ArmedOnce'
         /\ \A i \in DOMAIN armed' : armed'[i] # a /\ \E j \in DOMAIN armed : armed'[i] = armed[j]
  <1>0. DOMAIN armed = 1 .. Len(armed) /\ Len(armed) \in Nat
    BY LenProperties
  <1>1. CASE ~ \E i \in DOMAIN armed : armed[i] = a
    BY <1>1 DEF Disarm, ArmedOnce
  <1>2. CASE \E i \in DOMAIN armed : armed[i] = a
    <2>1. PICK k : k = CHOOSE i \in DOMAIN armed : armed[i] = a
      OBVIOUS
    <2>2. k \in 1 .. Len(armed) /\ armed[k] = a
      BY <1>0, <1>2, <2>1
    <2>3. armed' = RemoveAt(armed, k)
      BY <1>2, <2>1 DEF Disarm
    <2>4. PICK r : r = RemoveAt(armed, k)
      OBVIOUS
    <2>5. /\ r \in Seq(App) /\ Len(r) = Len(armed) - 1
          /\ \A j \in 1 .. Len(armed) - 1 : r[j] = IF j < k THEN armed[j] ELSE armed[j + 1]
      BY <2>2, <2>4, RemoveAtParts
    <2>6. DOMAIN r = 1 .. Len(armed) - 1
      BY <2>5, LenProperties
    <2>7. PICK m \in Nat : m = Len(armed)
      BY <1>0
    <2>8. \A j \in 1 .. m - 1 : /\ j \in 1 .. m /\ j + 1 \in 1 .. m
                                /\ j < k => j # k
                                /\ ~ (j < k) => j + 1 # k
      BY <2>2, <2>7
    <2>9. ASSUME NEW j \in 1 .. m - 1
          PROVE  r[j] # a /\ \E i \in DOMAIN armed : r[j] = armed[i]
      <3>1. PICK i \in 1 .. m : i # k /\ i = (IF j < k THEN j ELSE j + 1)
        BY <2>8
      <3>2. r[j] = armed[i]
        BY <2>5, <2>7, <3>1
      <3>3. i \in DOMAIN armed /\ k \in DOMAIN armed
        BY <1>0, <2>2, <2>7, <3>1
      <3>. QED
        BY <2>2, <3>1, <3>2, <3>3 DEF ArmedOnce
    <2>10. ASSUME NEW i \in 1 .. m - 1, NEW j \in 1 .. m - 1, r[i] = r[j]
           PROVE  i = j
      <3>1. PICK p \in 1 .. m : p = (IF i < k THEN i ELSE i + 1)
        BY <2>8
      <3>2. PICK q \in 1 .. m : q = (IF j < k THEN j ELSE j + 1)
        BY <2>8
      <3>3. r[i] = armed[p] /\ r[j] = armed[q]
        BY <2>5, <2>7, <3>1, <3>2
      <3>4. p = q
        BY <1>0, <2>7, <2>10, <3>3 DEF ArmedOnce
      <3>5. k \in Nat
        BY <2>2
      <3>. QED
        BY <3>1, <3>2, <3>4, <3>5
    <2>. QED
      BY <2>3, <2>4, <2>5, <2>6, <2>7, <2>9, <2>10 DEF ArmedOnce
  <1>. QED
    BY <1>1, <1>2
-----------------------------------------------------------------------------
(* Steps of the taps                                                       *)

\* A step that records nothing and starts no window other than an empty one.
LEMMA QuietStep ==
  ASSUME OncePerOperation, rec' = Nothing, flood' = flood
  PROVE  OncePerOperation'
  BY DEF OncePerOperation, Running, Nothing

\* No event is heard by more sets than are starting or up.
LEMMA HearingIsOfRunning ==
  ASSUME HeldByRunning, NEW event
  PROVE  /\ Hearing(event) \in Nat
         /\ 0 <= Cardinality({a \in App : boot[a] \notin {"off", "idle", "down"}})
         /\ Cardinality({a \in App : boot[a] \notin {"off", "idle", "down"}}) \in Nat
         /\ Hearing(event) <= Cardinality({a \in App : boot[a] \notin {"off", "idle", "down"}})
  <1>1. PICK up : up = {a \in App : boot[a] \notin {"off", "idle", "down"}}
    OBVIOUS
  <1>2. PICK by : by = {a \in App : <<a, event>> \in heard}
    OBVIOUS
  <1>3. \A a \in by : a \in App /\ boot[a] \in {"logger", "redis", "queue", "up"}
    BY <1>2 DEF HeldByRunning
  <1>4. by \subseteq up /\ up \subseteq App
    BY <1>1, <1>3
  <1>5. IsFiniteSet(up)
    BY <1>4, TapsAssumption, FS_Subset
  <1>6. IsFiniteSet(by) /\ Cardinality(by) <= Cardinality(up)
    BY <1>4, <1>5, FS_Subset
  <1>7. Cardinality(by) \in Nat /\ Cardinality(up) \in Nat
    BY <1>5, <1>6, FS_CardinalityType
  <1>. QED
    BY <1>1, <1>2, <1>6, <1>7 DEF Hearing

\* A provider that is idle, starts or comes up.
LEMMA BootKeeps ==
  ASSUME TapsInv, NEW a \in App, BootIdle(a) \/ BootBegins(a) \/ BootQueue(a)
  PROVE  TapsInv'
  <1>1. /\ UNCHANGED <<log, teed, client, sender, saved, wrapped, armed, slot, kept, meddled,
                       flight, flood, work>>
        /\ rec' = Nothing
    BY DEF BootIdle, BootBegins, BootQueue
  <1>2. /\ TapsTypes /\ HeldByRunning /\ ArmedOnce /\ TapsNest /\ WorkOnce /\ OncePerOperation
    BY DEF TapsInv
  <1>3. OncePerOperation' /\ ArmedOnce' /\ WorkOnce'
    BY <1>1, <1>2, QuietStep DEF ArmedOnce, WorkOnce
  <1>4. TapsNest'
    BY <1>1, <1>2 DEF TapsNest, Tapped, Plain, Recorders
  <1>5. TapsTypes' /\ HeldByRunning'
    <2>1. CASE BootIdle(a)
      <3>1. boot[a] \in {"off", "down"} /\ boot' = [boot EXCEPT ![a] = "idle"]
            /\ heard' = heard /\ manager' = manager
        BY <2>1 DEF BootIdle
      <3>2. TapsTypes'
        BY <1>1, <1>2, <3>1 DEF TapsTypes, MaybeMethod, Stages
      <3>3. HeldByRunning'
        BY <1>1, <1>2, <3>1 DEF HeldByRunning, TapsTypes
      <3>. QED
        BY <3>2, <3>3
    <2>2. CASE BootBegins(a)
      <3>1. boot[a] \in {"off", "down"} /\ boot' = [boot EXCEPT ![a] = "logger"]
            /\ heard' = heard \cup {<<a, s>> : s \in {"query", "mail", "cache"}}
            /\ manager' = manager
        BY <2>2 DEF BootBegins
      <3>2. TapsTypes'
        BY <1>1, <1>2, <3>1 DEF TapsTypes, MaybeMethod, Stages, Events
      <3>3. HeldByRunning'
        BY <1>1, <1>2, <3>1 DEF HeldByRunning, TapsTypes
      <3>. QED
        BY <3>2, <3>3
    <2>3. CASE BootQueue(a)
      <3>1. boot[a] = "queue" /\ boot' = [boot EXCEPT ![a] = "up"]
            /\ heard' = heard /\ manager' = a
        BY <2>3 DEF BootQueue
      <3>2. TapsTypes'
        BY <1>1, <1>2, <3>1 DEF TapsTypes, MaybeMethod, Stages
      <3>3. HeldByRunning'
        BY <1>1, <1>2, <3>1, TapsAssumption DEF HeldByRunning, TapsTypes
      <3>. QED
        BY <3>2, <3>3
    <2>. QED
      BY <2>1, <2>2, <2>3
  <1>. QED
    BY <1>3, <1>4, <1>5 DEF TapsInv

\* The logger is teed, once, or not there.
LEMMA BootLoggerKeeps ==
  ASSUME TapsInv, NEW a \in App, BootLogger(a)
  PROVE  TapsInv'
  <1>1. /\ UNCHANGED <<client, sender, saved, wrapped, armed, slot, manager, kept, meddled,
                       flight, flood, work>>
        /\ rec' = Nothing /\ boot[a] = "logger" /\ boot' = [boot EXCEPT ![a] = "redis"]
        /\ heard' = heard \cup {<<a, "jobs">>, <<a, "any">>}
    BY DEF BootLogger
  <1>2. \/ UNCHANGED <<log, teed>>
        \/ a \notin teed /\ ~ OnTop(log) /\ log' = Append(log, a) /\ teed' = teed \cup {a}
    BY DEF BootLogger, Tee
  <1>3. /\ TapsTypes /\ HeldByRunning /\ ArmedOnce /\ TapsNest /\ WorkOnce /\ OncePerOperation
    BY DEF TapsInv
  <1>4. OncePerOperation' /\ ArmedOnce' /\ WorkOnce'
    BY <1>1, <1>3, QuietStep DEF ArmedOnce, WorkOnce
  <1>5. log' \in Seq(Wrappers) /\ teed' \subseteq App
    <2>1. log \in Seq(Wrappers) /\ teed \subseteq App /\ a \in Wrappers
      BY <1>3 DEF TapsTypes, Wrappers
    <2>2. Append(log, a) \in Seq(Wrappers)
      BY <2>1, AppendProperties
    <2>. QED
      BY <1>2, <2>1, <2>2
  <1>6. TapsTypes'
    BY <1>1, <1>3, <1>5 DEF TapsTypes, MaybeMethod, Stages, Events
  <1>7. HeldByRunning'
    BY <1>1, <1>2, <1>3 DEF HeldByRunning, TapsTypes
  <1>8. TapsNest'
    <2>1. Plain("log")' = Plain("log") /\ Plain("redis")' = Plain("redis")
          /\ Recorders(flight)' = Recorders(flight)
      BY <1>1 DEF Plain, Recorders
    <2>2. ASSUME ~ meddled PROVE Tapped(log, "log", teed)'
      <3>1. Tapped(log, "log", teed)
        BY <1>3, <2>2 DEF TapsNest
      <3>2. CASE UNCHANGED <<log, teed>>
        BY <2>1, <3>1, <3>2 DEF Tapped
      <3>3. CASE a \notin teed /\ ~ OnTop(log) /\ log' = Append(log, a) /\ teed' = teed \cup {a}
        <4>1. teed = {} /\ log = Plain("log")
          BY <3>1, <3>3, OneRecorder
        <4>2. teed' = {a} /\ log' = Append(Plain("log"), a)
          BY <3>3, <4>1
        <4>. QED
          BY <2>1, <4>2 DEF Tapped
      <3>. QED
        BY <1>2, <3>2, <3>3
    <2>3. ASSUME ~ meddled PROVE Tapped(sender, "redis", wrapped)'
      BY <1>1, <1>3, <2>1, <2>3 DEF TapsNest, Tapped
    <2>. QED
      BY <1>1, <1>3, <2>1, <2>2, <2>3 DEF TapsNest
  <1>. QED
    BY <1>4, <1>6, <1>7, <1>8 DEF TapsInv
\* A patch is put over the method once, and what it covers is put away.
LEMMA WrapCovers ==
  ASSUME TapsTypes, TapsNest, NEW a \in App, Wrap(a), meddled' = meddled, kept' = kept
  PROVE  /\ sender' \in Seq(Wrappers) /\ MaybeMethod(saved)' /\ wrapped' \subseteq wrapped \cup {a}
         /\ ~ meddled => /\ Tapped(sender, "redis", wrapped)'
                         /\ saved' = IF wrapped' = {} THEN <<>> ELSE <<Plain("redis")>>
  <1>1. Plain("redis")' = Plain("redis")
    BY DEF Plain
  <1>2. sender \in Seq(Wrappers) /\ MaybeMethod(saved) /\ a \in Wrappers
    BY DEF TapsTypes, Wrappers
  <1>3. CASE saved # <<>>
    <2>1. UNCHANGED <<sender, saved, wrapped>>
      BY <1>3 DEF Wrap
    <2>2. MaybeMethod(saved)'
      BY <1>2, <2>1 DEF MaybeMethod
    <2>3. ASSUME ~ meddled
          PROVE  Tapped(sender, "redis", wrapped)'
                   /\ saved' = IF wrapped' = {} THEN <<>> ELSE <<Plain("redis")>>
      BY <1>1, <2>1, <2>3 DEF TapsNest, Tapped
    <2>. QED
      BY <1>2, <2>1, <2>2, <2>3
  <1>4. CASE saved = <<>>
    <2>1. saved' = <<sender>> /\ sender' = Append(sender, a) /\ wrapped' = wrapped \cup {a}
      BY <1>4 DEF Wrap
    <2>2. MaybeMethod(saved)'
      <3>1. saved'[1] = sender
        BY <2>1
      <3>. QED
        BY <1>2, <2>1, <3>1 DEF MaybeMethod
    <2>3. ASSUME ~ meddled
          PROVE  Tapped(sender, "redis", wrapped)'
                   /\ saved' = IF wrapped' = {} THEN <<>> ELSE <<Plain("redis")>>
      <3>1. wrapped = {} /\ Tapped(sender, "redis", wrapped)
        BY <1>4, <2>3 DEF TapsNest
      <3>2. sender = Plain("redis")
        BY <3>1 DEF Tapped
      <3>3. wrapped' = {a} /\ sender' = Append(Plain("redis"), a)
        BY <2>1, <3>1, <3>2
      <3>. QED
        BY <1>1, <2>1, <3>2, <3>3 DEF Tapped
    <2>4. sender' \in Seq(Wrappers)
      BY <1>2, <2>1, AppendProperties
    <2>. QED
      BY <2>1, <2>2, <2>3, <2>4
  <1>. QED
    BY <1>3, <1>4

\* The manager's connections are watched, the client that is there is patched; a connection
\* that comes later is patched by the first that subscribed.
LEMMA PatchingKeeps ==
  ASSUME TapsInv, (\E a \in App : BootRedis(a)) \/ RedisConnects
  PROVE  TapsInv'
  <1>1. /\ UNCHANGED <<heard, log, teed, manager, kept, meddled, flight, flood, work>>
        /\ rec' = Nothing /\ client' \in {client, TRUE}
    BY DEF BootRedis, RedisConnects
  <1>2. /\ TapsTypes /\ HeldByRunning /\ ArmedOnce /\ TapsNest /\ WorkOnce /\ OncePerOperation
    BY DEF TapsInv
  <1>3. OncePerOperation' /\ WorkOnce'
    BY <1>1, <1>2, QuietStep DEF WorkOnce
  <1>4. \/ \E b \in App :
             /\ Wrap(b) \/ UNCHANGED <<sender, saved, wrapped>>
             /\ boot'[b] \in {"queue", "up"}
             /\ \/ /\ boot[b] = "redis" /\ boot' = [boot EXCEPT ![b] = "queue"]
                   /\ armed' \in {armed, Append(armed, b)} /\ slot' = b
                \/ UNCHANGED <<boot, armed, slot>>
        \/ UNCHANGED <<sender, saved, wrapped, boot, armed, slot>>
    <2>1. CASE \E a \in App : BootRedis(a)
      <3>1. PICK a \in App : BootRedis(a)
        BY <2>1
      <3>2. /\ boot[a] = "redis" /\ boot' = [boot EXCEPT ![a] = "queue"] /\ slot' = a
            /\ armed' \in {armed, Append(armed, a)}
            /\ Wrap(a) \/ UNCHANGED <<sender, saved, wrapped>>
        BY <3>1 DEF BootRedis
      <3>3. boot'[a] = "queue"
        BY <1>2, <3>2 DEF TapsTypes
      <3>. QED
        BY <3>2, <3>3
    <2>2. CASE RedisConnects /\ armed # <<>>
      <3>1. armed \in Seq(App) /\ Head(armed) = armed[1] /\ 1 \in DOMAIN armed
        BY <1>2, <2>2, LenProperties DEF TapsTypes
      <3>2. armed[1] \in App /\ boot[armed[1]] \in {"queue", "up"}
        BY <1>2, <3>1, ElementOfSeq DEF HeldByRunning
      <3>3. Wrap(armed[1]) /\ UNCHANGED <<boot, armed, slot>>
        BY <2>2, <3>1 DEF RedisConnects
      <3>. QED
        BY <3>2, <3>3
    <2>3. CASE RedisConnects /\ armed = <<>>
      BY <2>3 DEF RedisConnects
    <2>. QED
      BY <2>1, <2>2, <2>3
  <1>5. Plain("log")' = Plain("log") /\ Plain("redis")' = Plain("redis")
        /\ Recorders(flight)' = Recorders(flight)
    BY <1>1 DEF Plain, Recorders
  <1>6. ASSUME ~ meddled PROVE Tapped(log, "log", teed)'
    BY <1>1, <1>2, <1>5, <1>6 DEF TapsNest, Tapped
  <1>7. CASE UNCHANGED <<sender, saved, wrapped, boot, armed, slot>>
    <2>1. TapsTypes' /\ HeldByRunning' /\ ArmedOnce'
      <3>0. /\ MaybeMethod(saved)' /\ MaybeMethod(kept["log"])' /\ MaybeMethod(kept["redis"])'
            /\ kept' = [s \in {"log", "redis"} |-> kept'[s]]
        BY <1>1, <1>2, <1>7 DEF TapsTypes, MaybeMethod
      <3>1. TapsTypes'
        BY <1>1, <1>2, <1>7, <3>0 DEF TapsTypes
      <3>2. HeldByRunning' /\ ArmedOnce'
        BY <1>1, <1>2, <1>7 DEF HeldByRunning, ArmedOnce
      <3>. QED
        BY <3>1, <3>2
    <2>2. TapsNest'
      BY <1>1, <1>2, <1>5, <1>6, <1>7 DEF TapsNest, Tapped
    <2>. QED
      BY <1>3, <2>1, <2>2 DEF TapsInv
  <1>8. ASSUME NEW b \in App,
               Wrap(b) \/ UNCHANGED <<sender, saved, wrapped>>,
               boot'[b] \in {"queue", "up"},
               \/ /\ boot[b] = "redis" /\ boot' = [boot EXCEPT ![b] = "queue"]
                  /\ armed' \in {armed, Append(armed, b)} /\ slot' = b
               \/ UNCHANGED <<boot, armed, slot>>
        PROVE  TapsInv'
    <2>1. /\ sender' \in Seq(Wrappers) /\ MaybeMethod(saved)' /\ wrapped' \subseteq wrapped \cup {b}
          /\ ~ meddled => /\ Tapped(sender, "redis", wrapped)'
                          /\ saved' = IF wrapped' = {} THEN <<>> ELSE <<Plain("redis")>>
      <3>1. CASE Wrap(b)
        BY <1>1, <1>2, <3>1, WrapCovers
      <3>2. CASE UNCHANGED <<sender, saved, wrapped>>
        BY <1>1, <1>2, <1>5, <3>2 DEF TapsTypes, MaybeMethod, TapsNest, Tapped
      <3>. QED
        BY <1>8, <3>1, <3>2
    <2>2. TapsNest'
      BY <1>1, <1>2, <1>5, <1>6, <2>1 DEF TapsNest
    <2>3. \A c \in App : \/ boot'[c] = boot[c]
                         \/ c = b /\ boot[b] = "redis" /\ boot'[b] = "queue"
      BY <1>2, <1>8 DEF TapsTypes
    <2>4. boot' \in [App -> Stages]
      <3>1. boot \in [App -> Stages] /\ "queue" \in Stages
        BY <1>2 DEF TapsTypes, Stages
      <3>. QED
        BY <1>8, <3>1
    <2>5. /\ armed' \in Seq(App) /\ ArmedOnce'
          /\ \A i \in DOMAIN armed' : boot'[armed'[i]] \in {"queue", "up"}
      <3>0. armed \in Seq(App) /\ Len(armed) \in Nat /\ DOMAIN armed = 1 .. Len(armed)
            /\ \A i \in DOMAIN armed : armed[i] \in App
        BY <1>2, LenProperties, ElementOfSeq DEF TapsTypes
      <3>1. CASE armed' = armed
        <4>1. \A i \in DOMAIN armed : boot'[armed[i]] \in {"queue", "up"}
          BY <1>2, <2>3, <3>0 DEF HeldByRunning
        <4>. QED
          BY <1>2, <3>0, <3>1, <4>1 DEF ArmedOnce
      <3>2. CASE armed' = Append(armed, b) /\ boot[b] = "redis"
        <4>1. PICK l : l = Append(armed, b)
          OBVIOUS
        <4>2. /\ l \in Seq(App) /\ Len(l) = Len(armed) + 1 /\ DOMAIN l = 1 .. Len(armed) + 1
              /\ l[Len(armed) + 1] = b /\ \A i \in 1 .. Len(armed) : l[i] = armed[i]
          BY <3>0, <4>1, AppendProperties, LenProperties
        <4>3. \A i \in 1 .. Len(armed) : armed[i] # b /\ boot'[armed[i]] \in {"queue", "up"}
          BY <1>2, <2>3, <3>0, <3>2 DEF HeldByRunning
        <4>4. \A i \in DOMAIN l : i \in 1 .. Len(armed) \/ i = Len(armed) + 1
          BY <3>0, <4>2
        <4>5. \A i \in DOMAIN l : boot'[l[i]] \in {"queue", "up"}
          BY <1>8, <4>2, <4>3, <4>4
        <4>6. \A i, j \in DOMAIN l : l[i] = l[j] => i = j
          BY <1>2, <3>0, <4>2, <4>3, <4>4 DEF ArmedOnce
        <4>. QED
          BY <3>2, <4>1, <4>2, <4>5, <4>6 DEF ArmedOnce
      <3>. QED
        BY <1>8, <3>1, <3>2
    <2>6. slot' \in App \cup {"none"} /\ (slot' # "none" => boot'[slot'] \in {"queue", "up"})
      BY <1>2, <1>8, <2>3 DEF HeldByRunning, TapsTypes
    <2>7. \A a \in wrapped' : a \in App /\ boot'[a] \in {"queue", "up"}
      BY <1>2, <1>8, <2>1, <2>3 DEF HeldByRunning, TapsTypes
    <2>8. TapsTypes'
      BY <1>1, <1>2, <2>1, <2>4, <2>5, <2>6, <2>7 DEF TapsTypes, MaybeMethod
    <2>9. HeldByRunning'
      BY <1>1, <1>2, <2>3, <2>5, <2>6, <2>7 DEF HeldByRunning, TapsTypes
    <2>. QED
      BY <1>3, <2>2, <2>5, <2>8, <2>9 DEF TapsInv
  <1>. QED
    BY <1>4, <1>7, <1>8
\* What a set that shuts down does: it gives back what it holds and touches nothing else.
LEMMA ShutdownKeeps ==
  ASSUME TapsInv, NEW a \in App, Shutdown(a)
  PROVE  TapsInv'
  <1>1. /\ UNCHANGED <<client, kept, meddled, flight, work>>
        /\ rec' = Nothing /\ boot[a] \in {"up", "idle"} /\ boot' = [boot EXCEPT ![a] = "down"]
        /\ heard' = {h \in heard : h[1] # a} /\ manager' = "none"
        /\ slot' = (IF slot = a THEN "none" ELSE slot)
        /\ flood' = [flood EXCEPT ![a] = [count |-> 0, over |-> FALSE, warned |-> FALSE]]
        /\ wrapped' = wrapped \ {a} /\ teed' = teed \ {a} /\ Disarm(a)
        /\ log' = IF a \in teed /\ OnTop(log) THEN Below(log) ELSE log
    BY DEF Shutdown, Untee, Unwrap, LeaveSlot
  <1>2. \/ a \in wrapped /\ saved # <<>> /\ sender' = saved[1] /\ saved' = <<>>
        \/ ~ (a \in wrapped /\ saved # <<>>) /\ UNCHANGED <<sender, saved>>
    BY DEF Shutdown, Unwrap
  <1>3. /\ TapsTypes /\ HeldByRunning /\ ArmedOnce /\ TapsNest /\ WorkOnce /\ OncePerOperation
    BY DEF TapsInv
  <1>4. Plain("log")' = Plain("log") /\ Plain("redis")' = Plain("redis")
        /\ Recorders(flight)' = Recorders(flight)
    BY <1>1 DEF Plain, Recorders
  <1>5. \A c \in App : c # a => boot'[c] = boot[c]
    BY <1>1, <1>3 DEF TapsTypes
  <1>6. /\ armed' \in Seq(App) /\ ArmedOnce'
        /\ \A i \in DOMAIN armed' : armed'[i] # a /\ \E j \in DOMAIN armed : armed'[i] = armed[j]
    BY <1>1, <1>3, DisarmForgets DEF TapsTypes
  <1>7. OncePerOperation' /\ WorkOnce'
    <2>1. \A c \in App : flood'[c].warned <=> FloodAt > 0 /\ flood'[c].count >= FloodAt
      <3>1. TAKE c \in App
      <3>2. CASE c = a
        <4>1. flood'[c].warned = FALSE /\ flood'[c].count = 0
          BY <1>1, <1>3, <3>2 DEF TapsTypes
        <4>. QED
          BY <4>1, TapsAssumption
      <3>3. CASE c # a
        <4>1. flood'[c] = flood[c]
          BY <1>1, <1>3, <3>3 DEF TapsTypes
        <4>. QED
          BY <1>3, <4>1 DEF OncePerOperation, Running
      <3>. QED
        BY <3>2, <3>3
    <2>2. rec'.of = "none"
      BY <1>1 DEF Nothing
    <2>. QED
      BY <1>1, <1>3, <2>1, <2>2 DEF OncePerOperation, Running, WorkOnce
  <1>8. log' \in Seq(Wrappers)
    <2>1. log \in Seq(Wrappers) /\ Len(log) \in Nat
      BY <1>3, LenProperties DEF TapsTypes
    <2>2. ASSUME OnTop(log) PROVE Below(log) \in Seq(Wrappers)
      <3>1. log # <<>>
        BY <2>2 DEF OnTop
      <3>2. Len(log) - 1 \in Nat /\ Len(log) - 1 <= Len(log)
        BY <2>1, <3>1, EmptySeq
      <3>. QED
        BY <2>1, <3>2, CutParts DEF Below
    <2>. QED
      BY <1>1, <2>1, <2>2
  <1>9. sender' \in Seq(Wrappers) /\ MaybeMethod(saved)'
    <2>1. sender \in Seq(Wrappers) /\ MaybeMethod(saved)
      BY <1>3 DEF TapsTypes
    <2>2. CASE a \in wrapped /\ saved # <<>> /\ sender' = saved[1] /\ saved' = <<>>
      BY <2>1, <2>2 DEF MaybeMethod
    <2>3. CASE UNCHANGED <<sender, saved>>
      BY <2>1, <2>3 DEF MaybeMethod
    <2>. QED
      BY <1>2, <2>2, <2>3
  <1>10. flood' \in [App -> [count : Nat, over : BOOLEAN, warned : BOOLEAN]]
    BY <1>1, <1>3 DEF TapsTypes
  <1>11. TapsTypes'
    <2>1. boot' \in [App -> Stages] /\ slot' \in App \cup {"none"} /\ manager' \in App \cup {"none"}
      BY <1>1, <1>3 DEF TapsTypes, Stages
    <2>2. heard' \subseteq App \X Events /\ wrapped' \subseteq App /\ teed' \subseteq App
      BY <1>1, <1>3 DEF TapsTypes
    <2>. QED
      BY <1>1, <1>3, <1>6, <1>8, <1>9, <1>10, <2>1, <2>2 DEF TapsTypes, MaybeMethod
  <1>12. HeldByRunning'
    <2>1. \A h \in heard' : boot'[h[1]] \in {"logger", "redis", "queue", "up"}
      BY <1>1, <1>3, <1>5 DEF HeldByRunning, TapsTypes
    <2>2. \A c \in teed' : boot'[c] \in {"redis", "queue", "up"}
      BY <1>1, <1>3, <1>5 DEF HeldByRunning, TapsTypes
    <2>3. \A c \in wrapped' : boot'[c] \in {"queue", "up"}
      BY <1>1, <1>3, <1>5 DEF HeldByRunning, TapsTypes
    <2>4. \A i \in DOMAIN armed' : boot'[armed'[i]] \in {"queue", "up"}
      <3>1. TAKE i \in DOMAIN armed'
      <3>2. PICK j \in DOMAIN armed : armed'[i] = armed[j] /\ armed[j] # a
        BY <1>6, <3>1
      <3>3. armed[j] \in App
        BY <1>3, <3>2, LenProperties, ElementOfSeq DEF TapsTypes
      <3>. QED
        BY <1>3, <1>5, <3>2, <3>3 DEF HeldByRunning
    <2>5. slot' # "none" => boot'[slot'] \in {"queue", "up"}
      BY <1>1, <1>3, <1>5 DEF HeldByRunning, TapsTypes
    <2>. QED
      BY <1>1, <2>1, <2>2, <2>3, <2>4, <2>5 DEF HeldByRunning
  <1>13. TapsNest'
    <2>1. ASSUME ~ meddled PROVE Tapped(log, "log", teed)'
      <3>1. Tapped(log, "log", teed)
        BY <1>3, <2>1 DEF TapsNest
      <3>2. CASE a \in teed
        <4>1. OnTop(log) /\ Below(log) = Plain("log") /\ teed = {a}
          BY <3>1, <3>2, OneRecorder DEF Tapped
        <4>2. log' = Plain("log") /\ teed' = {}
          BY <1>1, <3>2, <4>1
        <4>. QED
          BY <1>4, <4>2 DEF Tapped
      <3>3. CASE a \notin teed
        <4>1. log' = log /\ teed' = teed
          BY <1>1, <3>3
        <4>. QED
          BY <1>4, <3>1, <4>1 DEF Tapped
      <3>. QED
        BY <3>2, <3>3
    <2>2. ASSUME ~ meddled
          PROVE  Tapped(sender, "redis", wrapped)'
                   /\ saved' = IF wrapped' = {} THEN <<>> ELSE <<Plain("redis")>>
      <3>1. Tapped(sender, "redis", wrapped)
              /\ saved = IF wrapped = {} THEN <<>> ELSE <<Plain("redis")>>
        BY <1>3, <2>2 DEF TapsNest
      <3>2. CASE a \in wrapped
        <4>1. wrapped = {a}
          BY <3>1, <3>2 DEF Tapped
        <4>2. saved # <<>> /\ saved[1] = Plain("redis")
          BY <3>1, <4>1
        <4>3. sender' = Plain("redis") /\ saved' = <<>> /\ wrapped' = {}
          BY <1>1, <1>2, <3>2, <4>1, <4>2
        <4>. QED
          BY <1>4, <4>3 DEF Tapped
      <3>3. CASE a \notin wrapped
        <4>1. sender' = sender /\ wrapped' = wrapped /\ saved' = saved
          BY <1>1, <1>2, <3>3
        <4>. QED
          BY <1>4, <3>1, <4>1 DEF Tapped
      <3>. QED
        BY <3>2, <3>3
    <2>. QED
      BY <1>1, <1>3, <1>4, <2>1, <2>2 DEF TapsNest
  <1>. QED
    BY <1>6, <1>7, <1>11, <1>12, <1>13 DEF TapsInv
\* A third party wraps over what there is, or puts back what it found: over a tap, or one that
\* came since, that is meddling; else the method is plain before and after.
LEMMA OthersKeep ==
  ASSUME TapsInv, NEW s \in {"log", "redis"}, OtherWraps(s) \/ OtherUnwraps(s)
  PROVE  TapsInv'
  <1>1. /\ UNCHANGED <<boot, heard, teed, client, saved, wrapped, armed, slot, manager, flight,
                       flood, work>>
        /\ rec' = Nothing /\ meddled' = (meddled \/ Teed(Layers(s)))
    BY DEF OtherWraps, OtherUnwraps
  <1>2. /\ TapsTypes /\ HeldByRunning /\ ArmedOnce /\ TapsNest /\ WorkOnce /\ OncePerOperation
    BY DEF TapsInv
  <1>3. OncePerOperation' /\ WorkOnce' /\ ArmedOnce' /\ HeldByRunning'
    BY <1>1, <1>2, QuietStep DEF WorkOnce, ArmedOnce, HeldByRunning
  <1>4. /\ log \in Seq(Wrappers) /\ sender \in Seq(Wrappers) /\ Layers(s) \in Seq(Wrappers)
        /\ kept = [t \in {"log", "redis"} |-> kept[t]]
        /\ MaybeMethod(kept["log"]) /\ MaybeMethod(kept["redis"])
    BY <1>2 DEF TapsTypes, Layers
  <1>5. PICK layers : layers = Layers(s)
    OBVIOUS
  <1>6. PICK k, l : /\ kept' = [kept EXCEPT ![s] = k]
                    /\ log' = IF s = "log" THEN l ELSE log
                    /\ sender' = IF s = "log" THEN sender ELSE l
                    /\ \/ kept[s] = <<>> /\ k = <<layers>> /\ l = Append(layers, "other")
                       \/ kept[s] # <<>> /\ k = <<>> /\ l = kept[s][1]
    <2>1. CASE OtherWraps(s)
      <3>1. /\ kept[s] = <<>> /\ kept' = [kept EXCEPT ![s] = <<layers>>]
            /\ log' = IF s = "log" THEN Append(layers, "other") ELSE log
            /\ sender' = IF s = "log" THEN sender ELSE Append(layers, "other")
        BY <1>5, <2>1 DEF OtherWraps, Layers
      <3>. QED
        BY <3>1
    <2>2. CASE OtherUnwraps(s)
      BY <1>5, <2>2 DEF OtherUnwraps
    <2>. QED
      BY <2>1, <2>2
  <1>7. /\ kept' = [t \in {"log", "redis"} |-> IF t = s THEN k ELSE kept[t]]
        /\ \A t \in {"log", "redis"} : kept'[t] = IF t = s THEN k ELSE kept[t]
    BY <1>4, <1>6
  <1>8. l \in Seq(Wrappers) /\ MaybeMethod(k)
    <2>1. CASE kept[s] = <<>> /\ k = <<layers>> /\ l = Append(layers, "other")
      <3>1. "other" \in Wrappers /\ layers \in Seq(Wrappers) /\ k[1] = layers
        BY <1>4, <1>5, <2>1 DEF Wrappers
      <3>. QED
        BY <2>1, <3>1, AppendProperties DEF MaybeMethod
    <2>2. CASE kept[s] # <<>> /\ k = <<>> /\ l = kept[s][1]
      BY <1>4, <2>2 DEF MaybeMethod
    <2>. QED
      BY <1>6, <2>1, <2>2
  <1>9. TapsTypes'
    <2>1. log' \in Seq(Wrappers) /\ sender' \in Seq(Wrappers)
      BY <1>4, <1>6, <1>8
    <2>2. MaybeMethod(kept'["log"]) /\ MaybeMethod(kept'["redis"])
      BY <1>4, <1>7, <1>8
    <2>3. kept' = [t \in {"log", "redis"} |-> kept'[t]]
      BY <1>7
    <2>4. meddled' \in BOOLEAN
      BY <1>1
    <2>. QED
      BY <1>1, <1>2, <2>1, <2>2, <2>3, <2>4 DEF TapsTypes, MaybeMethod
  <1>10. TapsNest'
    <2>1. SUFFICES ASSUME ~ meddled, ~ Teed(layers)
                   PROVE  TapsNest'
      BY <1>1, <1>5 DEF TapsNest
    <2>2. PICK by : by = IF s = "log" THEN teed ELSE wrapped
      OBVIOUS
    <2>3. /\ \A t \in {"log", "redis"} : kept[t] = <<>> \/ kept[t] = << <<>> >>
          /\ Tapped(log, "log", teed) /\ Tapped(sender, "redis", wrapped)
          /\ saved = IF wrapped = {} THEN <<>> ELSE <<Plain("redis")>>
          /\ Cardinality(Recorders(flight)) <= 1
      BY <1>2, <2>1 DEF TapsNest
    <2>4. Tapped(layers, s, by)
      BY <1>5, <2>2, <2>3 DEF Layers
    <2>5. by = {} /\ layers = Plain(s)
      BY <2>1, <2>4, OneRecorder
    <2>6. /\ k = <<>> \/ k = << <<>> >>
          /\ l = IF k = <<>> THEN <<>> ELSE <<"other">>
      <3>1. CASE kept[s] = <<>> /\ k = <<layers>> /\ l = Append(layers, "other")
        BY <2>5, <3>1 DEF Plain
      <3>2. CASE kept[s] # <<>> /\ k = <<>> /\ l = kept[s][1]
        BY <2>3, <3>2
      <3>. QED
        BY <1>6, <3>1, <3>2
    <2>7. Plain(s)' = l
      BY <1>7, <2>6 DEF Plain
    <2>8. \A t \in {"log", "redis"} : t # s => Plain(t)' = Plain(t)
      BY <1>7 DEF Plain
    <2>9. Tapped(log, "log", teed)'
      <3>1. CASE s = "log"
        BY <1>1, <1>6, <2>2, <2>5, <2>7, <3>1 DEF Tapped
      <3>2. CASE s # "log"
        BY <1>1, <1>6, <2>3, <2>8, <3>2 DEF Tapped
      <3>. QED
        BY <3>1, <3>2
    <2>10. /\ Tapped(sender, "redis", wrapped)'
           /\ saved' = IF wrapped' = {} THEN <<>> ELSE <<Plain("redis")'>>
      <3>1. CASE s = "redis"
        BY <1>1, <1>6, <2>2, <2>3, <2>5, <2>7, <3>1 DEF Tapped
      <3>2. CASE s # "redis"
        <4>1. Plain("redis")' = Plain("redis") /\ sender' = sender
          BY <1>6, <2>8, <3>2
        <4>. QED
          BY <1>1, <2>3, <4>1 DEF Tapped
      <3>. QED
        BY <3>1, <3>2
    <2>11. \A t \in {"log", "redis"} : kept'[t] = <<>> \/ kept'[t] = << <<>> >>
      BY <1>7, <2>3, <2>6
    <2>12. Recorders(flight)' = Recorders(flight)
      BY <1>1 DEF Recorders
    <2>. QED
      BY <2>3, <2>9, <2>10, <2>11, <2>12 DEF TapsNest
  <1>. QED
    BY <1>3, <1>9, <1>10 DEF TapsInv

\* What a command leaves in the windows: a warning exactly in a full one.
LEMMA WindowsKeep ==
  ASSUME TapsTypes, OncePerOperation, NEW layers, CommandRecorded(layers)
  PROVE  /\ flood' \in [App -> [count : Nat, over : BOOLEAN, warned : BOOLEAN]]
         /\ \A a \in App : flood'[a].warned <=> FloodAt > 0 /\ flood'[a].count >= FloodAt
  <1>1. flood' = [a \in App |-> IF a \in {layers[i] : i \in Recorders(layers)}
                                THEN Counted(flood[a]) ELSE flood[a]]
    BY DEF CommandRecorded
  <1>2. ASSUME NEW a \in App
        PROVE  /\ Counted(flood[a]) \in [count : Nat, over : BOOLEAN, warned : BOOLEAN]
               /\ Counted(flood[a]).warned <=> FloodAt > 0 /\ Counted(flood[a]).count >= FloodAt
               /\ flood[a] \in [count : Nat, over : BOOLEAN, warned : BOOLEAN]
               /\ flood[a].warned <=> FloodAt > 0 /\ flood[a].count >= FloodAt
    <2>1. /\ flood[a] \in [count : Nat, over : BOOLEAN, warned : BOOLEAN]
          /\ flood[a].warned <=> FloodAt > 0 /\ flood[a].count >= FloodAt
      BY DEF TapsTypes, OncePerOperation, Running
    <2>2. CASE FloodAt = 0 \/ flood[a].warned
      BY <2>1, <2>2 DEF Counted
    <2>3. CASE ~ (FloodAt = 0 \/ flood[a].warned)
      <3>1. PICK n \in Nat : n = (IF flood[a].over THEN 0 ELSE flood[a].count) + 1
        BY <2>1
      <3>2. Counted(flood[a]) = [count |-> n, over |-> FALSE, warned |-> n >= FloodAt]
        BY <2>3, <3>1 DEF Counted
      <3>3. (n >= FloodAt) \in BOOLEAN
        BY TapsAssumption
      <3>4. /\ Counted(flood[a]).count = n /\ Counted(flood[a]).warned = (n >= FloodAt)
            /\ Counted(flood[a]) \in [count : Nat, over : BOOLEAN, warned : BOOLEAN]
        BY <3>2, <3>3
      <3>5. FloodAt > 0
        BY <2>3, TapsAssumption
      <3>. QED
        BY <2>1, <3>4, <3>5
    <2>. QED
      BY <2>2, <2>3
  <1>. QED
    BY <1>1, <1>2

\* A command, and one that settles after the taps changed.
Commands ==
  \/ \E ends \in {"ignored", "at once", "pending"} : Command(ends)
  \/ CommandSettles

LEMMA CommandsKeep ==
  ASSUME TapsInv, Commands
  PROVE  TapsInv'
  <1>1. UNCHANGED <<boot, heard, log, teed, client, sender, saved, wrapped, armed, slot, manager,
                    kept, meddled, work>>
    BY DEF Commands, Command, CommandSettles
  <1>2. /\ TapsTypes /\ HeldByRunning /\ ArmedOnce /\ TapsNest /\ WorkOnce /\ OncePerOperation
    BY DEF TapsInv
  <1>3. \/ rec' = [of |-> "command", n |-> 0] /\ UNCHANGED <<flood, flight>>
        \/ CommandRecorded(sender) /\ UNCHANGED flight
        \/ flight' = sender /\ rec' = Nothing /\ UNCHANGED flood
        \/ CommandRecorded(flight) /\ flight' = <<>>
    <2>1. CASE CommandSettles
      BY <2>1 DEF CommandSettles
    <2>2. ASSUME NEW ends \in {"ignored", "at once", "pending"}, Command(ends)
          PROVE  \/ rec' = [of |-> "command", n |-> 0] /\ UNCHANGED <<flood, flight>>
                 \/ CommandRecorded(sender) /\ UNCHANGED flight
                 \/ flight' = sender /\ rec' = Nothing /\ UNCHANGED flood
      BY <2>2 DEF Command
    <2>. QED
      BY <2>1, <2>2 DEF Commands
  <1>4. ~ meddled => /\ Cardinality(Recorders(sender)) <= 1
                     /\ Cardinality(Recorders(flight)) <= 1
    BY <1>2, OneRecorder DEF TapsNest
  <1>5. /\ ~ meddled => Cardinality(Recorders(flight)') <= 1
        /\ flight' \in Seq(Wrappers)
    <2>1. <<>> \in Seq(Wrappers)
      OBVIOUS
    <2>2. Cardinality(Recorders(<<>>)) <= 1
      <3>1. DOMAIN <<>> = {}
        OBVIOUS
      <3>2. Recorders(<<>>) = {}
        BY <3>1 DEF Recorders
      <3>. QED
        BY <3>2, FS_EmptySet
    <2>3. flight' = flight \/ flight' = sender \/ flight' = <<>>
      BY <1>3
    <2>4. Recorders(flight)' = Recorders(flight')
      BY DEF Recorders
    <2>. QED
      BY <1>2, <1>4, <2>1, <2>2, <2>3, <2>4 DEF TapsTypes
  <1>6. /\ flood' \in [App -> [count : Nat, over : BOOLEAN, warned : BOOLEAN]]
        /\ \A a \in App : flood'[a].warned <=> FloodAt > 0 /\ flood'[a].count >= FloodAt
    <2>1. CASE flood' = flood
      BY <1>2, <2>1 DEF TapsTypes, OncePerOperation, Running
    <2>2. CASE CommandRecorded(sender) \/ CommandRecorded(flight)
      BY <1>2, <2>2, WindowsKeep
    <2>. QED
      BY <1>3, <2>1, <2>2
  <1>7. OncePerOperation'
    <2>1. PICK now : now = Cardinality(Recorders(sender))
      OBVIOUS
    <2>2. PICK later : later = Cardinality(Recorders(flight))
      OBVIOUS
    <2>3. \/ rec' = [of |-> "command", n |-> 0] \/ rec' = Nothing
          \/ rec' = [of |-> "command", n |-> now] \/ rec' = [of |-> "command", n |-> later]
      BY <1>3, <2>1, <2>2 DEF CommandRecorded
    <2>4. ~ meddled => now <= 1 /\ later <= 1
      BY <1>4, <2>1, <2>2
    <2>5. rec'.of \in {"command", "none"} /\ (~ meddled => rec'.of = "none" \/ rec'.n <= 1)
      BY <2>3, <2>4 DEF Nothing
    <2>. QED
      BY <1>1, <1>6, <2>5 DEF OncePerOperation, Running
  <1>8. TapsTypes' /\ HeldByRunning' /\ ArmedOnce' /\ WorkOnce'
    <2>0. /\ MaybeMethod(saved)' /\ MaybeMethod(kept["log"])' /\ MaybeMethod(kept["redis"])'
          /\ kept' = [s \in {"log", "redis"} |-> kept'[s]]
      BY <1>1, <1>2 DEF TapsTypes, MaybeMethod
    <2>1. TapsTypes'
      BY <1>1, <1>2, <1>5, <1>6, <2>0 DEF TapsTypes
    <2>2. HeldByRunning' /\ ArmedOnce' /\ WorkOnce'
      BY <1>1, <1>2 DEF HeldByRunning, ArmedOnce, WorkOnce
    <2>. QED
      BY <2>1, <2>2
  <1>9. TapsNest'
    BY <1>1, <1>2, <1>5 DEF TapsNest, Tapped, Plain
  <1>. QED
    BY <1>7, <1>8, <1>9 DEF TapsInv
\* A step that changes the record of what happened and nothing of the taps.
LEMMA RecordingKeeps ==
  ASSUME TapsInv, OncePerOperation',
         UNCHANGED <<boot, heard, log, teed, client, sender, saved, wrapped, armed, slot, manager,
                     kept, meddled, flight>>,
         flood' \in [App -> [count : Nat, over : BOOLEAN, warned : BOOLEAN]],
         work' \in [by : App \cup {"none"}, settled : BOOLEAN, n : {0, 1}], WorkOnce'
  PROVE  TapsInv'
  <1>1. /\ TapsTypes /\ HeldByRunning /\ ArmedOnce /\ TapsNest /\ WorkOnce /\ OncePerOperation
    BY DEF TapsInv
  <1>2. TapsTypes'
    BY <1>1 DEF TapsTypes, MaybeMethod
  <1>3. HeldByRunning' /\ ArmedOnce'
    BY <1>1 DEF HeldByRunning, ArmedOnce
  <1>4. TapsNest'
    BY <1>1 DEF TapsNest, Tapped, Plain, Recorders
  <1>. QED
    BY <1>2, <1>3, <1>4 DEF TapsInv

\* A line of the logger goes through one tee at most.
LEMMA LinesKeep ==
  ASSUME TapsInv, \E level \in 0..2, enabled \in BOOLEAN : LogLine(level, enabled)
  PROVE  TapsInv'
  <1>1. PICK level \in 0..2, enabled \in BOOLEAN : LogLine(level, enabled)
    OBVIOUS
  <1>2. PICK by : by = {i \in Recorders(log) : enabled /\ level >= MinLevel[log[i]]}
    OBVIOUS
  <1>3. PICK n : n = Cardinality(by)
    OBVIOUS
  <1>4. /\ UNCHANGED <<boot, heard, log, teed, client, sender, saved, wrapped, armed, slot,
                       manager, kept, meddled, flight, flood, work>>
        /\ rec' = [of |-> "line", n |-> n]
    BY <1>1, <1>2, <1>3 DEF LogLine
  <1>5. /\ TapsTypes /\ TapsNest /\ WorkOnce /\ OncePerOperation
    BY DEF TapsInv
  <1>6. ASSUME ~ meddled PROVE n <= 1
    <2>1. IsFiniteSet(Recorders(log)) /\ Cardinality(Recorders(log)) <= 1
      BY <1>5, <1>6, OneRecorder DEF TapsNest
    <2>2. by \subseteq Recorders(log)
      BY <1>2
    <2>3. Cardinality(by) <= Cardinality(Recorders(log)) /\ IsFiniteSet(by)
      BY <2>1, <2>2, FS_Subset
    <2>4. Cardinality(by) \in Nat /\ Cardinality(Recorders(log)) \in Nat
      BY <2>1, <2>3, FS_CardinalityType
    <2>. QED
      BY <1>3, <2>1, <2>3, <2>4
  <1>7. rec'.of = "line" /\ rec'.n = n
    BY <1>4
  <1>8. OncePerOperation'
    BY <1>4, <1>5, <1>6, <1>7 DEF OncePerOperation, Running
  <1>. QED
    BY <1>4, <1>5, <1>8, RecordingKeeps DEF TapsTypes, WorkOnce

\* The minute of a window is over.
LEMMA MinutesKeep ==
  ASSUME TapsInv, NEW a \in App, MinutePasses(a)
  PROVE  TapsInv'
  <1>1. /\ UNCHANGED <<boot, heard, log, teed, client, sender, saved, wrapped, armed, slot,
                       manager, kept, meddled, flight, work>>
        /\ rec' = Nothing /\ flood' = [flood EXCEPT ![a].over = TRUE]
    BY DEF MinutePasses
  <1>2. /\ TapsTypes /\ WorkOnce /\ OncePerOperation
    BY DEF TapsInv
  <1>3. flood' \in [App -> [count : Nat, over : BOOLEAN, warned : BOOLEAN]]
    <2>1. flood \in [App -> [count : Nat, over : BOOLEAN, warned : BOOLEAN]]
      BY <1>2 DEF TapsTypes
    <2>2. [flood[a] EXCEPT !.over = TRUE] \in [count : Nat, over : BOOLEAN, warned : BOOLEAN]
      BY <2>1
    <2>3. flood' = [flood EXCEPT ![a] = [flood[a] EXCEPT !.over = TRUE]]
      BY <1>1, <2>1
    <2>. QED
      BY <2>1, <2>2, <2>3
  <1>4. \A c \in App : flood'[c].warned = flood[c].warned /\ flood'[c].count = flood[c].count
    BY <1>1, <1>2 DEF TapsTypes
  <1>5. rec'.of = "none"
    BY <1>1 DEF Nothing
  <1>6. OncePerOperation'
    BY <1>1, <1>2, <1>4, <1>5 DEF OncePerOperation, Running
  <1>. QED
    BY <1>1, <1>2, <1>3, <1>6, RecordingKeeps DEF TapsTypes, WorkOnce

\* A session of profiled work settles once, whoever ends it.
LEMMA WorkKeeps ==
  ASSUME TapsInv, NEW quick \in BOOLEAN, WorkBegins \/ WorkSettles(quick) \/ WorkForgotten
  PROVE  TapsInv'
  <1>1. UNCHANGED <<boot, heard, log, teed, client, sender, saved, wrapped, armed, slot,
                    manager, kept, meddled, flight, flood>>
    BY DEF WorkBegins, WorkSettles, WorkForgotten
  <1>2. /\ TapsTypes /\ WorkOnce /\ OncePerOperation
    BY DEF TapsInv
  <1>3. /\ work \in [by : App \cup {"none"}, settled : BOOLEAN, n : {0, 1}]
        /\ ~ work.settled => work.n = 0
        /\ flood \in [App -> [count : Nat, over : BOOLEAN, warned : BOOLEAN]]
    BY <1>2 DEF TapsTypes, WorkOnce
  <1>4. /\ work' \in [by : App \cup {"none"}, settled : BOOLEAN, n : {0, 1}]
        /\ ~ work'.settled => work'.n = 0
        /\ rec' = Nothing \/ rec' = [of |-> "work", n |-> work'.n]
    <2>1. CASE WorkBegins
      <3>1. work' = [by |-> slot, settled |-> FALSE, n |-> 0] /\ rec' = Nothing
        BY <2>1 DEF WorkBegins, NoWork
      <3>2. slot \in App \cup {"none"}
        BY <1>2 DEF TapsTypes
      <3>. QED
        BY <3>1, <3>2
    <2>2. CASE WorkSettles(quick)
      <3>1. rec' = [of |-> "work", n |-> work'.n]
        BY <2>2 DEF WorkSettles
      <3>2. CASE work.settled
        BY <1>3, <2>2, <3>1, <3>2 DEF WorkSettles
      <3>3. CASE ~ work.settled
        <4>1. PICK n \in {0, 1} : n = IF quick THEN 0 ELSE 1
          OBVIOUS
        <4>2. work' = [work EXCEPT !.settled = TRUE, !.n = work.n + n]
          BY <2>2, <3>3, <4>1 DEF WorkSettles
        <4>3. work.n + n = n
          BY <1>3, <3>3
        <4>4. work' = [work EXCEPT !.settled = TRUE, !.n = n]
          BY <4>2, <4>3
        <4>. QED
          BY <1>3, <3>1, <4>4
      <3>. QED
        BY <3>2, <3>3
    <2>3. CASE WorkForgotten
      BY <2>3 DEF WorkForgotten, NoWork
    <2>. QED
      BY <2>1, <2>2, <2>3
  <1>5. OncePerOperation'
    <2>1. PICK n \in {0, 1} : n = work'.n
      BY <1>4
    <2>2. rec' = Nothing \/ rec' = [of |-> "work", n |-> n]
      BY <1>4, <2>1
    <2>3. rec'.of = "none" \/ (rec'.of = "work" /\ rec'.n <= 1)
      BY <2>2 DEF Nothing
    <2>. QED
      BY <1>1, <1>2, <2>3 DEF OncePerOperation, Running
  <1>. QED
    BY <1>1, <1>3, <1>4, <1>5, RecordingKeeps DEF WorkOnce

\* What the emitter and the queue channel tell is at most one entry of each set that is up.
LEMMA EventsKeep ==
  ASSUME TapsInv,
         (\E ignored \in BOOLEAN : QueryRan(ignored)) \/ MailSent \/ CacheUsed \/ AnyEvent \/ JobEnded
  PROVE  TapsInv'
  <1>1. PICK bound : bound = Cardinality({a \in App : boot[a] \notin {"off", "idle", "down"}})
    OBVIOUS
  <1>2. /\ TapsTypes /\ HeldByRunning /\ WorkOnce /\ OncePerOperation
    BY DEF TapsInv
  <1>3. \A s \in Events : Hearing(s) \in Nat /\ Hearing(s) <= bound
    BY <1>1, <1>2, HearingIsOfRunning
  <1>4. PICK kind, n : /\ rec' = [of |-> kind, n |-> n]
                       /\ kind \in {"query", "mail", "cache", "event", "job"}
                       /\ kind # "cache" => n <= bound
                       /\ kind = "cache" => n <= 2 * bound
                       /\ UNCHANGED <<boot, heard, log, teed, client, sender, saved, wrapped,
                                      armed, slot, manager, kept, meddled, flight, flood, work>>
    <2>0. 0 <= bound
      BY <1>1, <1>2, HearingIsOfRunning
    <2>1. ASSUME NEW ignored \in BOOLEAN, QueryRan(ignored)
          PROVE  \E n : n <= bound /\ Recorded("query", n)
      BY <1>3, <2>0, <2>1 DEF QueryRan, Events
    <2>2. ASSUME MailSent PROVE \E n : n <= bound /\ Recorded("mail", n)
      BY <1>3, <2>2 DEF MailSent, Events
    <2>3. ASSUME CacheUsed PROVE \E n : n <= 2 * bound /\ Recorded("cache", n)
      <3>1. /\ Hearing("cache") \in Nat /\ Hearing("cache") <= bound
            /\ Hearing("any") \in Nat /\ Hearing("any") <= bound
        BY <1>3 DEF Events
      <3>2. bound \in Nat
        BY <1>1, <1>2, HearingIsOfRunning
      <3>3. Hearing("cache") + Hearing("any") <= 2 * bound
        BY <3>1, <3>2
      <3>. QED
        BY <2>3, <3>3 DEF CacheUsed
    <2>4. ASSUME AnyEvent PROVE \E n : n <= bound /\ Recorded("event", n)
      BY <1>3, <2>4 DEF AnyEvent, Events
    <2>5. ASSUME JobEnded PROVE \E n : n <= bound /\ Recorded("job", n)
      BY <1>3, <2>5 DEF JobEnded, Events
    <2>6. PICK kind, n : /\ kind \in {"query", "mail", "cache", "event", "job"}
                         /\ kind # "cache" => n <= bound
                         /\ kind = "cache" => n <= 2 * bound
                         /\ Recorded(kind, n)
      BY <2>1, <2>2, <2>3, <2>4, <2>5
    <2>. QED
      BY <2>6 DEF Recorded
  <1>5. rec'.of = kind /\ rec'.n = n
    BY <1>4
  <1>6. OncePerOperation'
    <2>1. {a \in App : boot'[a] \notin {"off", "idle", "down"}}
            = {a \in App : boot[a] \notin {"off", "idle", "down"}}
      BY <1>4
    <2>2. Cardinality({a \in App : boot'[a] \notin {"off", "idle", "down"}}) = bound
      BY <1>1, <2>1
    <2>. QED
      BY <1>2, <1>4, <1>5, <2>2 DEF OncePerOperation, Running
  <1>. QED
    BY <1>2, <1>4, <1>6, RecordingKeeps DEF TapsTypes, WorkOnce

\* Every step of the providers and of the host.
LEMMA TappingKeeps ==
  ASSUME TapsInv, NEW surface, TapsNext(surface)
  PROVE  TapsInv'
  <1>1. CASE Providers
    BY <1>1, BootKeeps, BootLoggerKeeps, PatchingKeeps, ShutdownKeeps DEF Providers
  <1>2. CASE LogTraffic
    BY <1>2, OthersKeep, LinesKeep DEF LogTraffic
  <1>3. CASE RedisTraffic
    BY <1>3, OthersKeep, PatchingKeeps, CommandsKeep, MinutesKeep DEF RedisTraffic, Commands
  <1>4. CASE Work
    BY <1>4, WorkKeeps, EventsKeep DEF Work
  <1>. QED
    BY <1>1, <1>2, <1>3, <1>4 DEF TapsNext
-----------------------------------------------------------------------------
(* The whole                                                               *)

\* Nothing is tapped at first.
LEMMA TapsStart ==
  ASSUME TapsInit
  PROVE  TapsInv
  <1>1. TapsTypes
    BY EmptySeq DEF TapsInit, TapsTypes, MaybeMethod, Stages, NoWork
  <1>2. HeldByRunning /\ ArmedOnce /\ WorkOnce
    BY DEF TapsInit, HeldByRunning, ArmedOnce, WorkOnce, NoWork
  <1>3. Recorders(<<>>) = {}
    <2>1. DOMAIN <<>> = {}
      OBVIOUS
    <2>. QED
      BY <2>1 DEF Recorders
  <1>4. TapsNest
    <2>1. Plain("log") = <<>> /\ Plain("redis") = <<>>
      BY DEF TapsInit, Plain
    <2>2. Cardinality(Recorders(flight)) = 0
      BY <1>3, FS_EmptySet DEF TapsInit
    <2>. QED
      BY <2>1, <2>2 DEF TapsInit, TapsNest, Tapped
  <1>5. OncePerOperation
    BY TapsAssumption DEF TapsInit, OncePerOperation, Running, Nothing
  <1>. QED
    BY <1>1, <1>2, <1>4, <1>5 DEF TapsInv

\* A channel watcher that did not start follows nothing.
LEMMA ChannelsStart ==
  ASSUME ChannelsInit
  PROVE  ChannelsInv
  BY DEF ChannelsInit, ChannelsInv, ChannelsAreLeft, EveryChannelIsFollowed

\* A request that was not told of is of the facts there are.
LEMMA RequestStart ==
  ASSUME \/ RequestInit
         \/ /\ request = RequestWith(SomeShape, SomeBody, SomeSources, SomeStatus, <<>>)
            /\ told = <<>>
  PROVE  RequestInv
  <1>1. <<>> \in TagLists
    <2>1. <<>> \in [1..0 -> 0..(MaxTagLength + 1)] /\ 0 \in 0..(MaxTags + 1)
      BY RequestEntriesAssumption
    <2>. QED
      BY <2>1 DEF TagLists
  <1>2. SomeShape \in Shapes /\ SomeBody \in Bodies /\ SomeSources \in Sources
          /\ SomeStatus \in Statuses
    BY DEF SomeShape, Shapes, SomeBody, Bodies, SomeSources, Sources, SomeStatus, Statuses
  <1>3. request \in Requests
    BY <1>1, <1>2 DEF RequestInit, Requests
  <1>4. told = <<>>
    BY DEF RequestInit
  <1>. QED
    BY <1>3, <1>4 DEF RequestInv, RequestsAreBounded

\* Nothing is registered and nothing was asked at first.
LEMMA ContributionsStart ==
  ASSUME ContributionsInit \/ (extensions = <<>> /\ registered = <<>> /\ answer = <<>>)
  PROVE  ContributionsInv
  <1>1. <<>> \in [1..0 -> Extension] /\ 0 \in 0..2
    OBVIOUS
  <1>2. extensions \in UNION {[1..n -> Extension] : n \in 0..2}
    <2>1. extensions = <<>> \/ extensions \in UNION {[1..n -> Extension] : n \in 1..2}
      BY DEF ContributionsInit
    <2>2. \A n \in 1..2 : n \in 0..2
      OBVIOUS
    <2>. QED
      BY <1>1, <2>1, <2>2
  <1>3. registered = <<>> /\ answer = <<>>
    BY DEF ContributionsInit
  <1>. QED
    BY <1>2, <1>3 DEF ContributionsInv, ContributionsAreOwned, OfferedIsSupported

LEMMA RecordersStart ==
  ASSUME RecordersInit
  PROVE  RecordersInv
  <1>1. TapsInv
    BY TapsStart DEF RecordersInit, Resting, Surfaces
  <1>2. ChannelsInv
    BY ChannelsStart DEF RecordersInit, Resting, Surfaces
  <1>3. EntriesInv
    BY DEF RecordersInit, Surfaces, EntriesInit, EntriesInv
  <1>4. RequestInv
    BY RequestStart DEF RecordersInit, Resting, Surfaces
  <1>5. ContributionsInv
    BY ContributionsStart DEF RecordersInit, Resting, Surfaces
  <1>. QED
    BY <1>1, <1>2, <1>3, <1>4, <1>5 DEF RecordersInv

\* What holds of a part that rests keeps holding.
LEMMA TapsRest ==
  ASSUME TapsInv, UNCHANGED tapVars
  PROVE  TapsInv'
  <1>1. OncePerOperation' /\ WorkOnce'
    BY DEF tapVars, TapsInv, OncePerOperation, Running, WorkOnce
  <1>. QED
    BY <1>1, RecordingKeeps DEF tapVars, TapsInv, TapsTypes

LEMMA ChannelsRest ==
  ASSUME ChannelsInv, UNCHANGED channelVars
  PROVE  ChannelsInv'
  BY DEF channelVars, ChannelsInv, ChannelsAreLeft, EveryChannelIsFollowed

LEMMA EntriesRest ==
  ASSUME EntriesInv, UNCHANGED <<subject, entryVars>>
  PROVE  EntriesInv'
  BY DEF entryVars, EntriesInv

LEMMA RequestRests ==
  ASSUME RequestInv, UNCHANGED requestVars
  PROVE  RequestInv'
  BY DEF requestVars, RequestInv, RequestsAreBounded

LEMMA ContributionsRest ==
  ASSUME ContributionsInv, UNCHANGED contributionVars
  PROVE  ContributionsInv'
  <1>1. UNCHANGED <<extensions, registered, service, answer>>
    BY DEF contributionVars
  <1>2. Contributed' = Contributed /\ Ids' = Ids /\ Capabilities' = Capabilities
    BY <1>1 DEF Contributed, Ids, IdOf, Capabilities, HasAdapter
  <1>. QED
    BY <1>1, <1>2 DEF ContributionsInv, ContributionsAreOwned, OfferedIsSupported

LEMMA RecordersKeep ==
  ASSUME RecordersInv, [RecordersNext]_<<subject, recorderVars>>
  PROVE  RecordersInv'
  <1>0. TapsInv /\ ChannelsInv /\ EntriesInv /\ RequestInv /\ ContributionsInv
    BY DEF RecordersInv
  <1>1. CASE UNCHANGED <<subject, recorderVars>>
    BY <1>0, <1>1, TapsRest, ChannelsRest, EntriesRest, RequestRests, ContributionsRest
    DEF recorderVars, RecordersInv
  <1>2. CASE Tapping
    BY <1>0, <1>2, TappingKeeps, ChannelsRest, EntriesRest, RequestRests, ContributionsRest
    DEF Tapping, RecordersInv
  <1>3. CASE Following
    BY <1>0, <1>3, TapsRest, FollowingKeeps, EntriesRest, RequestRests, ContributionsRest
    DEF Following, RecordersInv
  <1>4. CASE Building
    BY <1>0, <1>4, TapsRest, ChannelsRest, BuildingKeeps, RequestRests, ContributionsRest
    DEF Building, RecordersInv
  <1>5. CASE Telling
    BY <1>0, <1>5, TapsRest, ChannelsRest, EntriesRest, TellingKeeps, ContributionsRest
    DEF Telling, RecordersInv
  <1>6. CASE Contributing
    BY <1>0, <1>6, TapsRest, ChannelsRest, EntriesRest, RequestRests, ContributingKeeps
    DEF Contributing, RecordersInv
  <1>. QED
    BY <1>1, <1>2, <1>3, <1>4, <1>5, <1>6 DEF RecordersNext

\* The invariant of the taps, the channels, the entries, the requests and the contributions
\* (watchers/, diagnostics_registry.ts, sampling.ts, otel/mapper.ts, request_watcher.ts, registry.ts).
THEOREM RecordersHold == RecordersSpec => []RecordersInv
  <1>1. RecordersInit => RecordersInv
    BY RecordersStart
  <1>2. RecordersInv /\ [RecordersNext]_<<subject, recorderVars>> => RecordersInv'
    BY RecordersKeep
  <1>. QED
    BY <1>1, <1>2, PTL DEF RecordersSpec

\* No listener, slot or patched method outlives the watchers it was for.
LEMMA NothingStays ==
  ASSUME TapsInv
  PROVE  NothingIsLeft
  <1>1. /\ TapsTypes /\ HeldByRunning /\ TapsNest
    BY DEF TapsInv
  <1>. SUFFICES ASSUME \A a \in App : boot[a] \in {"off", "idle", "down"}
                PROVE  /\ heard = {} /\ armed = <<>> /\ slot = "none" /\ manager = "none"
                       /\ ~ meddled => ~ Teed(log) /\ ~ Teed(sender) /\ saved = <<>>
    BY DEF NothingIsLeft
  <1>2. heard = {}
    <2>1. SUFFICES ASSUME NEW h \in heard PROVE FALSE
      OBVIOUS
    <2>2. h[1] \in App
      BY <1>1 DEF TapsTypes
    <2>3. boot[h[1]] \in {"logger", "redis", "queue", "up"}
      BY <1>1 DEF HeldByRunning
    <2>. QED
      BY <2>2, <2>3
  <1>3. teed = {} /\ wrapped = {}
    BY <1>1 DEF TapsTypes, HeldByRunning
  <1>4. slot = "none" /\ manager = "none"
    BY <1>1 DEF TapsTypes, HeldByRunning
  <1>5. armed = <<>>
    <2>1. armed \in Seq(App) /\ \A i \in DOMAIN armed : armed[i] \in App
      BY <1>1, LenProperties, ElementOfSeq DEF TapsTypes
    <2>2. \A i \in DOMAIN armed : FALSE
      BY <1>1, <2>1 DEF HeldByRunning
    <2>3. DOMAIN armed = 1 .. Len(armed) /\ Len(armed) \in Nat
      BY <2>1, LenProperties
    <2>4. Len(armed) = 0
      BY <2>2, <2>3
    <2>. QED
      BY <2>1, <2>4, EmptySeq
  <1>6. ASSUME ~ meddled PROVE ~ Teed(log) /\ ~ Teed(sender) /\ saved = <<>>
    BY <1>1, <1>3, <1>6, OneRecorder DEF TapsNest
  <1>. QED
    BY <1>2, <1>4, <1>5, <1>6

\* A watcher that stopped is gone from the host, its tee or patch unless a third party wrapped
\* over it (LogsWatcher.stop, RedisWatcher.stop, DiagnosticsWatcher.stop).
THEOREM TapsStayUndone == RecordersSpec => []TapsAreUndone
  <1>1. RecordersInv => TapsAreUndone
    BY NothingStays DEF RecordersInv, ChannelsInv, TapsAreUndone
  <1>. QED
    BY <1>1, RecordersHold, PTL

\* A line or a command is one entry at most while no third party wrapped over a tap, a piece of
\* work always; an event is one of each running set, a cache event two; and every event of a
\* followed channel that no one claims is one (the marks of the taps, DiagnosticsWatcher).
THEOREM OperationsAreRecordedOnce == RecordersSpec => []RecordedOnce
  <1>1. RecordersInv => RecordedOnce
    BY DEF RecordersInv, TapsInv, ChannelsInv, RecordedOnce
  <1>. QED
    BY <1>1, RecordersHold, PTL

\* Slow work survives sampling and so do failures, but those of requests and exceptions, in which
\* the rule sees no error; spans are of their own time, and what is told of a request keeps its
\* bounds (sampling.ts, mapper.ts, request_watcher.ts).
THEOREM EntriesStayTrue == RecordersSpec => []EntriesAreTrue
  <1>1. RecordersInv => EntriesAreTrue
    BY EntriesTrue DEF RecordersInv, RequestInv, EntriesAreTrue
  <1>. QED
    BY <1>1, RecordersHold, PTL

\* What is contributed has one owner and what is offered works.
THEOREM ContributionsStayOwned == RecordersSpec => []ContributionsHold
  <1>1. RecordersInv => ContributionsHold
    BY DEF RecordersInv, ContributionsInv, ContributionsHold
  <1>. QED
    BY <1>1, RecordersHold, PTL

\* A set that shuts down leaves what another set holds.
LEMMA ShutdownTakesItsOwn ==
  ASSUME TapsInv, NEW a \in App, Shutdown(a)
  PROVE  TakesOnlyItsOwn(a)
  <1>. SUFFICES ASSUME NEW b \in App \ {a}
                PROVE  /\ \A h \in heard : h[1] = b => h \in heard'
                       /\ slot = b => slot' = b
                       /\ ~ meddled /\ (\E i \in DOMAIN log : log[i] = b)
                            => \E i \in DOMAIN log' : log'[i] = b
                       /\ ~ meddled /\ (\E i \in DOMAIN sender : sender[i] = b)
                            => \E i \in DOMAIN sender' : sender'[i] = b
    BY DEF TakesOnlyItsOwn
  <1>1. /\ heard' = {h \in heard : h[1] # a}
        /\ slot' = (IF slot = a THEN "none" ELSE slot)
        /\ a \notin teed => log' = log
        /\ a \notin wrapped => sender' = sender
    BY DEF Shutdown, Untee, Unwrap, LeaveSlot
  <1>2. TapsTypes /\ TapsNest
    BY DEF TapsInv
  <1>3. ASSUME ~ meddled, \E i \in DOMAIN log : log[i] = b PROVE log' = log
    <2>1. Tapped(log, "log", teed)
      BY <1>2, <1>3 DEF TapsNest
    <2>2. b \in teed
      BY <1>3, <2>1, OneRecorder
    <2>3. a \notin teed
      BY <2>1, <2>2 DEF Tapped
    <2>. QED
      BY <1>1, <2>3
  <1>4. ASSUME ~ meddled, \E i \in DOMAIN sender : sender[i] = b PROVE sender' = sender
    <2>1. Tapped(sender, "redis", wrapped)
      BY <1>2, <1>4 DEF TapsNest
    <2>2. b \in wrapped
      BY <1>4, <2>1, OneRecorder
    <2>3. a \notin wrapped
      BY <2>1, <2>2 DEF Tapped
    <2>. QED
      BY <1>1, <2>3
  <1>. QED
    BY <1>1, <1>3, <1>4

\* No other step of the taps brings a set down.
LEMMA OnlyShutdownStops ==
  ASSUME TapsInv, NEW a \in App, NEW surface, TapsNext(surface),
         boot[a] # "down", boot'[a] = "down"
  PROVE  Shutdown(a)
  <1>1. boot \in [App -> Stages]
    BY DEF TapsInv, TapsTypes
  <1>2. CASE Providers
    <2>1. PICK b \in App : \/ BootIdle(b) \/ BootBegins(b) \/ BootLogger(b) \/ BootRedis(b)
                           \/ BootQueue(b) \/ Shutdown(b)
      BY <1>2 DEF Providers
    <2>2. PICK to \in {"idle", "logger", "redis", "queue", "up", "down"} :
            boot' = [boot EXCEPT ![b] = to] /\ (to = "down" => Shutdown(b))
      BY <2>1 DEF BootIdle, BootBegins, BootLogger, BootRedis, BootQueue, Shutdown
    <2>. QED
      BY <1>1, <2>2
  <1>3. CASE LogTraffic \/ RedisTraffic \/ Work
    <2>1. boot' = boot
      BY <1>3 DEF LogTraffic, RedisTraffic, Work, OtherWraps, OtherUnwraps, LogLine, RedisConnects,
        Command, CommandSettles, MinutePasses, WorkBegins, WorkSettles, WorkForgotten, QueryRan,
        MailSent, CacheUsed, AnyEvent, JobEnded, Recorded
    <2>. QED
      BY <2>1
  <1>. QED
    BY <1>2, <1>3 DEF TapsNext

\* Stopping one set of watchers takes no listener and no slot from another, however far each came,
\* and no tee or patch unless a third party wrapped over one, when restoring what was saved may
\* drop what came later (LogsWatcher.stop, RedisWatcher.stop, ProfilingWatcher.stop).
THEOREM StoppingTakesItsOwn == RecordersSpec => StopsOnlyItself
  <1>1. RecordersInv /\ [RecordersNext]_<<subject, recorderVars>>
          => [\A a \in App : TakesOnlyItsOwn(a)]_tapVars
    <2>. SUFFICES ASSUME RecordersInv, [RecordersNext]_<<subject, recorderVars>>,
                         tapVars' # tapVars, NEW a \in App
                  PROVE  TakesOnlyItsOwn(a)
      OBVIOUS
    <2>1. TapsInv /\ TapsNext(subject)
      BY DEF RecordersInv, RecordersNext, Tapping, Following, Building, Telling, Contributing,
        recorderVars
    <2>2. CASE boot[a] \in {"up", "idle"} /\ boot'[a] = "down"
      <3>1. Shutdown(a)
        BY <2>1, <2>2, OnlyShutdownStops
      <3>. QED
        BY <2>1, <3>1, ShutdownTakesItsOwn
    <2>3. CASE ~ (boot[a] \in {"up", "idle"} /\ boot'[a] = "down")
      BY <2>3 DEF TakesOnlyItsOwn
    <2>. QED
      BY <2>2, <2>3
  <1>. QED
    BY <1>1, RecordersHold, PTL DEF RecordersSpec, StopsOnlyItself

-----------------------------------------------------------------------------
(* The recording pipeline                                                  *)

Stage == {"none", "open", "writing", "sampledOut", "answered", "failed"}

-----------------------------------------------------------------------------
(* The decorators                                                           *)

\* The placeholder of an entry sampled away leaves nothing behind.
LEMMA PlaceholderStays ==
  ASSUME NEW X \in SUBSET Entry, Leave(X, Placeholder)
  PROVE  UNCHANGED leavingVars
  <1>1. ~ MayLeave(Placeholder)
    BY DEF MayLeave, Placeholder
  <1>. QED
    BY <1>1 DEF Leave, leavingVars

\* What the store answered leaves masked, the exporter getting no more than the stream.
LEMMA WrittenLeaves ==
  ASSUME NEW X \in SUBSET Entry, Leave(X, Written)
  PROVE  /\ published' = published \cup {<<x, "masked">> : x \in X}
         /\ exported \subseteq exported'
         /\ exported' \subseteq exported \cup {<<x, "masked">> : x \in X}
  <1>1. MayLeave(Written) /\ Written.content = "masked"
    BY DEF MayLeave, Written
  <1>2. {<<x, Written.content>> : x \in {y \in X : MayLeave(Written)}}
          = {<<x, "masked">> : x \in X}
    BY <1>1
  <1>. QED
    BY <1>2 DEF Leave

\* Entries that enter the chain are written or sampled away, and nothing leaves yet.
LEMMA TakeKeeps ==
  ASSUME NEW X \in SUBSET Entry, stage \in [Entry -> Stage], Take(X)
  PROVE  /\ stage' \in [Entry -> Stage]
         /\ \A x \in Entry \ X : stage'[x] = stage[x]
         /\ \A x \in X : stage'[x] \in {"writing", "sampledOut"}
         /\ UNCHANGED leavingVars
  <1>1. PICK stays \in SUBSET X :
          /\ stage' = [x \in Entry |-> CASE x \in stays -> "writing"
                                         [] x \in X \ stays -> "sampledOut"
                                         [] OTHER -> stage[x]]
          /\ Leave(X \ stays, Placeholder)
    BY DEF Take
  <1>2. UNCHANGED leavingVars
    BY <1>1, PlaceholderStays
  <1>3. \A x \in Entry : stage'[x] = CASE x \in stays -> "writing"
                                       [] x \in X \ stays -> "sampledOut"
                                       [] OTHER -> stage[x]
    BY <1>1
  <1>4. \A x \in Entry \ X : stage'[x] = stage[x]
    BY <1>3
  <1>5. \A x \in X : stage'[x] \in {"writing", "sampledOut"}
    BY <1>3
  <1>6. stage' \in [Entry -> Stage]
    <2>1. \A x \in Entry : stage'[x] \in Stage
      BY <1>4, <1>5 DEF Stage
    <2>. QED
      BY <1>1, <2>1
  <1>. QED
    BY <1>2, <1>4, <1>5, <1>6

-----------------------------------------------------------------------------
(* The folding of failures                                                  *)

ReportsOK ==
  /\ DOMAIN folded \subseteq FailKey /\ folded \in [DOMAIN folded -> Nat]
  /\ Cardinality(DOMAIN folded) <= MaxTracked
  /\ failures \in [FailKey -> Nat] /\ printed \in [FailKey -> Nat]

\* The failure keys are finitely many.
LEMMA KeysAreFinite == IsFiniteSet(FailKey)
  <1>1. FailKey \subseteq {"request", "safe", "diagnostic", "client"}
    BY RecordingAssumption DEF FailKey
  <1>2. IsFiniteSet({"request", "safe", "diagnostic", "client"})
    <2>1. IsFiniteSet({"request"}) /\ IsFiniteSet({"safe"})
          /\ IsFiniteSet({"diagnostic"}) /\ IsFiniteSet({"client"})
      BY FS_Singleton
    <2>2. IsFiniteSet({"request"} \cup {"safe"})
      BY <2>1, FS_Union
    <2>3. IsFiniteSet({"diagnostic"} \cup {"client"})
      BY <2>1, FS_Union
    <2>4. IsFiniteSet(({"request"} \cup {"safe"}) \cup ({"diagnostic"} \cup {"client"}))
      BY <2>2, <2>3, FS_Union
    <2>5. {"request", "safe", "diagnostic", "client"}
            = ({"request"} \cup {"safe"}) \cup ({"diagnostic"} \cup {"client"})
      OBVIOUS
    <2>. QED
      BY <2>4, <2>5
  <1>. QED
    BY <1>1, <1>2, FS_Subset

\* A failure is printed or counted, and the keys stay within their cap.
LEMMA ReportKeeps ==
  ASSUME ReportsOK, FailuresAccounted, NEW k \in FailKey, ReportFailure(k)
  PROVE  ReportsOK' /\ FailuresAccounted'
  <1>. USE DEF ReportsOK, FailuresAccounted, ReportFailure, Tracked, Track
  <1>1. CASE k \in DOMAIN folded
    <2>1. DOMAIN folded' = DOMAIN folded
      BY <1>1
    <2>2. /\ folded' \in [DOMAIN folded' -> Nat]
          /\ \A j \in DOMAIN folded : folded'[j] = IF j = k THEN folded[k] + 1 ELSE folded[j]
      BY <1>1, <2>1
    <2>3. printed' = printed /\ failures' \in [FailKey -> Nat]
          /\ \A j \in FailKey : failures'[j] = IF j = k THEN failures[k] + 1 ELSE failures[j]
      BY <1>1
    <2>. QED
      BY <1>1, <2>1, <2>2, <2>3
  <1>2. CASE k \notin DOMAIN folded /\ Cardinality(DOMAIN folded) < MaxTracked
    <2>1. DOMAIN folded' = DOMAIN folded \cup {k}
      BY <1>2
    <2>2. /\ folded' \in [DOMAIN folded' -> Nat]
          /\ \A j \in DOMAIN folded' : folded'[j] = IF j = k THEN 0 ELSE folded[j]
      BY <1>2, <2>1
    <2>3. Cardinality(DOMAIN folded') <= MaxTracked
      <3>1. IsFiniteSet(DOMAIN folded)
        BY KeysAreFinite, FS_Subset
      <3>2. Cardinality(DOMAIN folded') = Cardinality(DOMAIN folded) + 1
        BY <1>2, <2>1, <3>1, FS_AddElement
      <3>3. Cardinality(DOMAIN folded) \in Nat
        BY <3>1, FS_CardinalityType
      <3>. QED
        BY <1>2, <3>2, <3>3, RecordingAssumption
    <2>4. /\ printed' \in [FailKey -> Nat] /\ failures' \in [FailKey -> Nat]
          /\ \A j \in FailKey : /\ failures'[j] = IF j = k THEN failures[k] + 1 ELSE failures[j]
                                /\ printed'[j] = IF j = k THEN printed[k] + 1 ELSE printed[j]
      BY <1>2
    <2>. QED
      BY <1>2, <2>1, <2>2, <2>3, <2>4
  <1>3. CASE k \notin DOMAIN folded /\ ~ (Cardinality(DOMAIN folded) < MaxTracked)
    <2>1. folded' = folded
      BY <1>3
    <2>2. /\ printed' \in [FailKey -> Nat] /\ failures' \in [FailKey -> Nat]
          /\ \A j \in FailKey : /\ failures'[j] = IF j = k THEN failures[k] + 1 ELSE failures[j]
                                /\ printed'[j] = IF j = k THEN printed[k] + 1 ELSE printed[j]
      BY <1>3
    <2>. QED
      BY <1>3, <2>1, <2>2
  <1>. QED
    BY <1>1, <1>2, <1>3

\* A window that closes prints what it counted.
LEMMA CloseKeeps ==
  ASSUME ReportsOK, FailuresAccounted, NEW k \in FailKey, CloseWindow(k)
  PROVE  ReportsOK' /\ FailuresAccounted'
  <1>. USE DEF ReportsOK, FailuresAccounted, CloseWindow, Tracked, Track, Untrack
  <1>1. CASE folded[k] = 0
    <2>1. DOMAIN folded' = DOMAIN folded \ {k} /\ printed' = printed /\ failures' = failures
      BY <1>1
    <2>2. /\ folded' \in [DOMAIN folded' -> Nat]
          /\ \A j \in DOMAIN folded' : folded'[j] = folded[j]
      BY <1>1, <2>1
    <2>3. Cardinality(DOMAIN folded') <= MaxTracked
      <3>1. IsFiniteSet(DOMAIN folded)
        BY KeysAreFinite, FS_Subset
      <3>2. /\ Cardinality(DOMAIN folded') <= Cardinality(DOMAIN folded)
            /\ Cardinality(DOMAIN folded') \in Nat /\ Cardinality(DOMAIN folded) \in Nat
        BY <2>1, <3>1, FS_Subset, FS_CardinalityType
      <3>. QED
        BY <3>2, RecordingAssumption
    <2>. QED
      BY <1>1, <2>1, <2>2, <2>3
  <1>2. CASE folded[k] # 0
    <2>1. DOMAIN folded' = DOMAIN folded /\ failures' = failures
      BY <1>2
    <2>2. /\ folded' \in [DOMAIN folded' -> Nat]
          /\ \A j \in DOMAIN folded' : folded'[j] = IF j = k THEN 0 ELSE folded[j]
      BY <1>2, <2>1
    <2>3. /\ printed' \in [FailKey -> Nat]
          /\ \A j \in FailKey : printed'[j] = IF j = k THEN printed[k] + folded[k] ELSE printed[j]
      BY <1>2
    <2>. QED
      BY <1>2, <2>1, <2>2, <2>3
  <1>. QED
    BY <1>1, <1>2

-----------------------------------------------------------------------------
(* The inductive invariant                                                  *)

HostOK ==
  /\ phase \in {"booting", "wiring", "up", "closing", "closed"}
  /\ installed \in BOOLEAN /\ paused \in BOOLEAN /\ held \in BOOLEAN
  /\ warmup \in 0 .. Grace

LoadOK == load \in {"low", "high"} /\ peak \in {"low", "high"}

EventOK ==
  /\ source \in [Event -> EntryPoint \cup {"none"}]
  /\ shape \in [Event -> {"plain", "failed", "slow"}]

StageOK == stage \in [Entry -> Stage]

LeavingOK == published \cup exported \subseteq Entry \X {"raw", "masked"}

\* What was not seen left no entry, and a request that is being served threw nothing yet.
Untouched ==
  \A e \in Event :
    /\ source[e] = "none" => stage[Main(e)] = "none" /\ stage[Thrown(e)] = "none"
    /\ stage[Main(e)] = "open" => stage[Thrown(e)] = "none"

IInv ==
  /\ HostOK /\ LoadOK /\ EventOK /\ StageOK /\ LeavingOK /\ ReportsOK
  /\ Untouched /\ OnlyScrubbedLeaves /\ FailuresAccounted

\* The invariant holds in the initial states.
LEMMA InitEstablishes == Init => IInv
  <1>. SUFFICES ASSUME Init PROVE IInv
    OBVIOUS
  <1>. USE DEF Init
  <1>1. HostOK /\ LoadOK
    <2>1. warmup \in 0 .. Grace
      BY RecordingAssumption
    <2>. QED
      BY <2>1 DEF HostOK, LoadOK
  <1>2. EventOK /\ StageOK /\ LeavingOK
    BY DEF EventOK, StageOK, LeavingOK, Stage
  <1>3. Untouched
    BY DEF Untouched, Main, Thrown, Entry
  <1>4. OnlyScrubbedLeaves
    BY DEF OnlyScrubbedLeaves
  <1>5. DOMAIN folded = {}
    OBVIOUS
  <1>6. ReportsOK
    <2>1. Cardinality({}) = 0
      BY FS_EmptySet
    <2>. QED
      BY <1>5, <2>1, RecordingAssumption DEF ReportsOK
  <1>7. FailuresAccounted
    BY <1>5 DEF FailuresAccounted, Tracked
  <1>. QED
    BY <1>1, <1>2, <1>3, <1>4, <1>6, <1>7 DEF IInv

\* Nothing leaves in a step that only moves entries which were not answered yet.
LEMMA QuietKeeps ==
  ASSUME IInv, stage' \in [Entry -> Stage], UNCHANGED leavingVars,
         \A x \in Entry : stage[x] = "answered" => stage'[x] = "answered"
  PROVE  (StageOK /\ LeavingOK /\ OnlyScrubbedLeaves)'
  BY DEF IInv, StageOK, LeavingOK, OnlyScrubbedLeaves, leavingVars

\* An event that is seen takes its source and a shape.
LEMMA SeenKeeps ==
  ASSUME IInv, NEW e \in Event, NEW point, Seen(e, point)
  PROVE  /\ EventOK'
         /\ source[e] = "none" /\ source'[e] = point /\ point # "none"
         /\ \A d \in Event \ {e} : source'[d] = source[d]
         /\ (HostOK /\ LoadOK /\ ReportsOK /\ FailuresAccounted)'
  <1>. USE DEF IInv, Seen
  <1>1. EventOK'
    <2>1. PICK s \in ShapesOf(point) : shape' = [shape EXCEPT ![e] = s]
      OBVIOUS
    <2>2. s \in {"plain", "failed", "slow"}
      <3>1. CASE point \in {"request", "safe"}
        BY <2>1, <3>1 DEF ShapesOf
      <3>2. CASE point = "diagnostic"
        BY <2>1, <3>2 DEF ShapesOf
      <3>3. CASE point \notin {"request", "safe", "diagnostic"}
        BY <2>1, <3>3 DEF ShapesOf
      <3>. QED
        BY <3>1, <3>2, <3>3
    <2>. QED
      BY <2>1, <2>2 DEF EventOK
  <1>2. /\ source[e] = "none" /\ source'[e] = point /\ point # "none"
        /\ \A d \in Event \ {e} : source'[d] = source[d]
    BY RecordingAssumption DEF EventOK
  <1>3. (HostOK /\ LoadOK)'
    BY DEF HostOK, LoadOK, hostVars, loadVars
  <1>4. (ReportsOK /\ FailuresAccounted)'
    BY DEF ReportsOK, FailuresAccounted, Tracked, reportVars
  <1>. QED
    BY <1>1, <1>2, <1>3, <1>4

\* An event that is seen and its one entry that is taken, turned away, or held open.
LEMMA SeenStepKeeps ==
  ASSUME IInv, NEW e \in Event, NEW point, Seen(e, point),
         \/ Take({Main(e)})
         \/ Refuse
         \/ stage' = [stage EXCEPT ![Main(e)] = "open"] /\ UNCHANGED leavingVars
  PROVE  IInv'
  <1>1. /\ EventOK' /\ (HostOK /\ LoadOK /\ ReportsOK /\ FailuresAccounted)'
        /\ source[e] = "none" /\ source'[e] # "none"
        /\ \A d \in Event \ {e} : source'[d] = source[d]
    BY SeenKeeps
  <1>2. /\ Main(e) \in Entry /\ stage \in [Entry -> Stage]
        /\ stage[Main(e)] = "none" /\ stage[Thrown(e)] = "none"
    BY <1>1 DEF IInv, StageOK, Untouched, Main, Entry
  <1>3. /\ stage' \in [Entry -> Stage] /\ UNCHANGED leavingVars
        /\ \A x \in Entry \ {Main(e)} : stage'[x] = stage[x]
    <2>1. CASE Take({Main(e)})
      BY <1>2, <2>1, TakeKeeps
    <2>2. CASE Refuse
      BY <1>2, <2>2 DEF Refuse
    <2>3. CASE stage' = [stage EXCEPT ![Main(e)] = "open"] /\ UNCHANGED leavingVars
      BY <1>2, <2>3 DEF Stage
    <2>. QED
      BY <2>1, <2>2, <2>3
  <1>4. (StageOK /\ LeavingOK /\ OnlyScrubbedLeaves)'
    BY <1>2, <1>3, QuietKeeps
  <1>5. Untouched'
    <2>1. \A d \in Event : Main(d) \in Entry /\ Thrown(d) \in Entry /\ Thrown(d) # Main(e)
      BY DEF Main, Thrown, Entry
    <2>2. \A d \in Event \ {e} : Main(d) # Main(e)
      BY DEF Main
    <2>. QED
      BY <1>1, <1>2, <1>3, <2>1, <2>2 DEF Untouched, IInv
  <1>. QED
    BY <1>1, <1>4, <1>5 DEF IInv

\* The steps of the provider, the guard and the operator touch no entry and no report.
LEMMA HostStepKeeps ==
  ASSUME IInv, Publish \/ Armed \/ Closing \/ Reset \/ LoadChanges \/ Sample \/ Hold \/ Release
  PROVE  IInv'
  <1>1. UNCHANGED <<eventVars, stage, leavingVars, reportVars>>
    BY DEF Publish, Armed, Closing, Reset, LoadChanges, Sample, Hold, Release
  <1>2. (EventOK /\ StageOK /\ LeavingOK /\ Untouched /\ OnlyScrubbedLeaves)'
    BY <1>1 DEF IInv, EventOK, StageOK, LeavingOK, Untouched, OnlyScrubbedLeaves,
                eventVars, leavingVars
  <1>3. (ReportsOK /\ FailuresAccounted)'
    BY <1>1 DEF IInv, ReportsOK, FailuresAccounted, Tracked, reportVars
  <1>4. (HostOK /\ LoadOK)'
    <2>. USE DEF IInv, HostOK, LoadOK
    <2>1. CASE Publish
      BY <2>1 DEF Publish, loadVars
    <2>2. CASE Armed
      BY <2>2 DEF Armed
    <2>3. CASE Closing
      BY <2>3 DEF Closing, loadVars
    <2>4. CASE Reset
      BY <2>4 DEF Reset, loadVars
    <2>5. CASE LoadChanges
      BY <2>5 DEF LoadChanges, hostVars
    <2>6. CASE Sample
      <3>1. PICK p99 \in {load, peak} :
              IF warmup > 0
                THEN warmup' = warmup - 1 /\ UNCHANGED paused
                ELSE paused' = (p99 = "high") /\ UNCHANGED warmup
        BY <2>6 DEF Sample
      <3>2. warmup' \in 0 .. Grace
        <4>1. warmup \in 0 .. Grace
          OBVIOUS
        <4>2. warmup' = IF warmup > 0 THEN warmup - 1 ELSE warmup
          BY <3>1
        <4>. QED
          BY <4>1, <4>2, RecordingAssumption
      <3>3. paused' \in BOOLEAN
        <4>1. CASE warmup > 0
          BY <3>1, <4>1
        <4>2. CASE ~ (warmup > 0)
          BY <3>1, <4>2
        <4>. QED
          BY <4>1, <4>2
      <3>. QED
        BY <2>6, <3>2, <3>3 DEF Sample
    <2>7. CASE Hold
      BY <2>7 DEF Hold, loadVars
    <2>8. CASE Release
      BY <2>8 DEF Release, loadVars
    <2>. QED
      BY <2>1, <2>2, <2>3, <2>4, <2>5, <2>6, <2>7, <2>8
  <1>. QED
    BY <1>2, <1>3, <1>4 DEF IInv

\* A request is answered: both its entries enter the chain.
LEMMA RequestAnsweredKeeps ==
  ASSUME IInv, NEW e \in Event, RequestAnswered(e)
  PROVE  IInv'
  <1>. DEFINE X == {Main(e)} \cup IF shape[e] = "failed" THEN {Thrown(e)} ELSE {}
  <1>1. /\ X \in SUBSET Entry /\ Main(e) \in X
        /\ \A x \in X : x = Main(e) \/ x = Thrown(e)
    BY DEF Main, Thrown, Entry
  <1>2. /\ stage \in [Entry -> Stage] /\ source[e] # "none"
        /\ stage[Main(e)] = "open" /\ stage[Thrown(e)] = "none"
    BY DEF IInv, StageOK, Untouched, RequestAnswered
  <1>3. /\ stage' \in [Entry -> Stage] /\ UNCHANGED leavingVars
        /\ \A x \in Entry \ X : stage'[x] = stage[x]
        /\ stage'[Main(e)] \in {"writing", "sampledOut"}
    <2>1. Take(X)
      BY DEF RequestAnswered
    <2>. HIDE DEF X
    <2>. QED
      BY <1>1, <1>2, <2>1, TakeKeeps
  <1>4. (StageOK /\ LeavingOK /\ OnlyScrubbedLeaves)'
    <2>. HIDE DEF X
    <2>. QED
      BY <1>1, <1>2, <1>3, QuietKeeps
  <1>5. (HostOK /\ LoadOK /\ EventOK)' /\ source' = source
    BY DEF RequestAnswered, IInv, HostOK, LoadOK, EventOK,
           hostVars, loadVars, eventVars
  <1>6. (ReportsOK /\ FailuresAccounted)'
    BY DEF RequestAnswered, IInv, ReportsOK, FailuresAccounted, Tracked, reportVars
  <1>7. Untouched'
    <2>1. \A d \in Event \ {e} : /\ Main(d) \in Entry \ X
                                /\ Thrown(d) \in Entry \ X
      BY DEF Main, Thrown, Entry
    <2>. HIDE DEF X
    <2>. QED
      BY <1>2, <1>3, <1>5, <2>1 DEF Untouched, IInv
  <1>. QED
    BY <1>4, <1>5, <1>6, <1>7 DEF IInv

\* The store answers: what leaves is masked, and its entry is answered from here on.
LEMMA StoreAnswersKeeps ==
  ASSUME IInv, NEW x \in Entry, StoreAnswers(x)
  PROVE  IInv'
  <1>1. /\ stage \in [Entry -> Stage] /\ stage[x] = "writing"
        /\ stage' = [stage EXCEPT ![x] = "answered"]
    BY DEF IInv, StageOK, StoreAnswers
  <1>2. /\ published' = published \cup {<<y, "masked">> : y \in {x}}
        /\ exported' \subseteq exported \cup {<<y, "masked">> : y \in {x}}
    BY WrittenLeaves DEF StoreAnswers
  <1>3. StageOK'
    BY <1>1 DEF StageOK, Stage
  <1>4. (LeavingOK /\ OnlyScrubbedLeaves)'
    BY <1>1, <1>2 DEF IInv, LeavingOK, OnlyScrubbedLeaves
  <1>5. (HostOK /\ LoadOK /\ EventOK)' /\ source' = source
    BY DEF StoreAnswers, IInv, HostOK, LoadOK, EventOK,
           hostVars, loadVars, eventVars
  <1>6. (ReportsOK /\ FailuresAccounted)'
    BY DEF StoreAnswers, IInv, ReportsOK, FailuresAccounted, Tracked, reportVars
  <1>7. Untouched'
    BY <1>1, <1>5 DEF IInv, Untouched, Main, Thrown, Entry
  <1>. QED
    BY <1>3, <1>4, <1>5, <1>6, <1>7 DEF IInv

\* The store fails: what is reported is a failure of one of the keys.
LEMMA StoreRejectsKeeps ==
  ASSUME IInv, NEW x \in Entry, StoreRejects(x)
  PROVE  IInv'
  <1>1. /\ stage \in [Entry -> Stage] /\ stage[x] = "writing"
        /\ stage' = [stage EXCEPT ![x] = "failed"]
    BY DEF IInv, StageOK, StoreRejects
  <1>2. \A y \in Entry : /\ y # x => stage'[y] = stage[y]
                         /\ stage'[x] = "failed"
    BY <1>1
  <1>3. x[1] \in Event /\ (x = Main(x[1]) \/ x = Thrown(x[1]))
    BY DEF Entry, Main, Thrown
  <1>4. source[x[1]] \in EntryPoint
    BY <1>1, <1>3 DEF IInv, Untouched, EventOK
  <1>5. (StageOK /\ LeavingOK /\ OnlyScrubbedLeaves)'
    <2>1. stage' \in [Entry -> Stage] /\ UNCHANGED leavingVars
      BY <1>1 DEF StoreRejects, Stage
    <2>. QED
      BY <1>1, <1>2, <2>1, QuietKeeps
  <1>6. (HostOK /\ LoadOK /\ EventOK)' /\ source' = source
    BY DEF StoreRejects, IInv, HostOK, LoadOK, EventOK,
           hostVars, loadVars, eventVars
  <1>7. (ReportsOK /\ FailuresAccounted)'
    <2>1. CASE source[x[1]] = "exception"
      BY <2>1 DEF StoreRejects, IInv, ReportsOK, FailuresAccounted, Tracked, reportVars
    <2>2. CASE source[x[1]] # "exception"
      <3>1. source[x[1]] \in FailKey /\ ReportFailure(source[x[1]])
        BY <1>4, <2>2 DEF FailKey, StoreRejects
      <3>. QED
        BY <3>1, ReportKeeps DEF IInv
    <2>. QED
      BY <2>1, <2>2
  <1>8. Untouched'
    BY <1>1, <1>2, <1>6 DEF IInv, Untouched, Main, Thrown, Entry
  <1>. QED
    BY <1>5, <1>6, <1>7, <1>8 DEF IInv

\* A window closes.
LEMMA CloseWindowKeeps ==
  ASSUME IInv, NEW k \in FailKey, CloseWindow(k)
  PROVE  IInv'
  <1>1. ReportsOK' /\ FailuresAccounted'
    BY CloseKeeps DEF IInv
  <1>2. UNCHANGED <<hostVars, loadVars, eventVars, stage, leavingVars>>
    BY DEF CloseWindow
  <1>3. (HostOK /\ LoadOK /\ EventOK)'
    BY <1>2 DEF IInv, HostOK, LoadOK, EventOK,
                hostVars, loadVars, eventVars
  <1>4. (StageOK /\ LeavingOK /\ Untouched /\ OnlyScrubbedLeaves)'
    BY <1>2 DEF IInv, StageOK, LeavingOK, Untouched, OnlyScrubbedLeaves,
                eventVars, leavingVars
  <1>. QED
    BY <1>1, <1>3, <1>4 DEF IInv

\* Steps that change nothing keep the invariant.
LEMMA StutterKeeps ==
  ASSUME IInv, UNCHANGED vars
  PROVE  IInv'
  <1>1. (HostOK /\ LoadOK /\ EventOK /\ StageOK /\ LeavingOK)'
    BY DEF IInv, HostOK, LoadOK, EventOK, StageOK, LeavingOK,
           vars, hostVars, loadVars, eventVars, leavingVars
  <1>2. (ReportsOK /\ FailuresAccounted)'
    BY DEF IInv, ReportsOK, FailuresAccounted, Tracked, vars, reportVars
  <1>3. (Untouched /\ OnlyScrubbedLeaves)'
    BY DEF IInv, Untouched, OnlyScrubbedLeaves,
           vars, hostVars, eventVars, leavingVars
  <1>. QED
    BY <1>1, <1>2, <1>3 DEF IInv

\* Every step keeps the invariant.
LEMMA NextKeeps ==
  ASSUME IInv, [Next]_vars
  PROVE  IInv'
  <1>1. CASE Publish \/ Armed \/ Closing \/ Reset \/ LoadChanges \/ Sample \/ Hold \/ Release
    BY <1>1, HostStepKeeps
  <1>2. CASE \E e \in Event : RequestArrives(e)
    BY <1>2, SeenStepKeeps DEF RequestArrives, Refuse
  <1>3. CASE \E e \in Event : RequestAnswered(e)
    BY <1>3, RequestAnsweredKeeps
  <1>4. CASE \E e \in Event : SafeRecord(e)
    BY <1>4, SeenStepKeeps DEF SafeRecord
  <1>5. CASE \E e \in Event : Diagnostic(e)
    BY <1>5, SeenStepKeeps DEF Diagnostic
  <1>6. CASE \E e \in Event : RecordException(e)
    BY <1>6, SeenStepKeeps DEF RecordException
  <1>7. CASE \E e \in Event : ClientError(e)
    BY <1>7, SeenStepKeeps DEF ClientError
  <1>8. CASE \E x \in Entry : StoreAnswers(x)
    BY <1>8, StoreAnswersKeeps
  <1>9. CASE \E x \in Entry : StoreRejects(x)
    BY <1>9, StoreRejectsKeeps
  <1>10. CASE \E k \in FailKey : CloseWindow(k)
    BY <1>10, CloseWindowKeeps
  <1>11. CASE UNCHANGED vars
    BY <1>11, StutterKeeps
  <1>. QED
    BY <1>1, <1>2, <1>3, <1>4, <1>5, <1>6, <1>7, <1>8, <1>9, <1>10, <1>11 DEF Next

-----------------------------------------------------------------------------
(* The theorems                                                             *)

\* The inductive invariant holds in every reachable state.
THEOREM Invariance == Spec => []IInv
  BY InitEstablishes, NextKeeps, PTL DEF Spec

\* Every variable of the host keeps its type, and the failure keys their cap.
THEOREM TypeCorrect == Spec => []TypeOK
  <1>1. IInv => TypeOK
    BY DEF IInv, HostOK, LoadOK, EventOK, StageOK, LeavingOK, ReportsOK, Stage, TypeOK
  <1>. QED
    BY <1>1, Invariance, PTL

\* Only entries that the store answered leave the process, masked: neither the exporter
\* nor the live stream ever passes on the raw placeholder of an entry sampled away.
THEOREM Scrubbed == Spec => []OnlyScrubbedLeaves
  <1>1. IInv => OnlyScrubbedLeaves
    BY DEF IInv
  <1>. QED
    BY <1>1, Invariance, PTL

\* Every failure that was reported is in the log or counted towards its next line, whatever
\* the order of failures and windows and however many keys are already tracked.
THEOREM Accounted == Spec => []FailuresAccounted
  <1>1. IInv => FailuresAccounted
    BY DEF IInv
  <1>. QED
    BY <1>1, Invariance, PTL
=============================================================================

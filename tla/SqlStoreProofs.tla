--------------------------- MODULE SqlStoreProofs ---------------------------
(***************************************************************************)
(* Proofs about the SQL store, for any calls, any buffer, batch and prune   *)
(* sizes, any retry delay and, where it is not said otherwise, any number   *)
(* of pods: what record() answers is true, what clear() deleted stays gone, *)
(* rows keep their order, a prune keeps the newest rows, and the schema is  *)
(* in place however many processes create it together.                     *)
(***************************************************************************)
EXTENDS SqlStore, SequenceLemmas

-----------------------------------------------------------------------------
(* The shape of the state                                                  *)

Answer == {"none", "init", "queued", "dropped", "written", "failed", "lost"}
Drain == {"none", "scheduled", "taking", "all", "one", "ended"}
Pair == Int \X Int
PruneState == [step : {"idle", "position", "edge", "delete"}, cutoff : Int,
               from : SUBSET Pair, edge : SUBSET Pair]

\* The types, and what they rest on: there are never more rows than calls made so far, and
\* no batch is in flight without its drain.
Shape ==
  /\ now \in 0 .. MaxTime
  /\ table \subseteq took /\ took \subseteq Entry /\ unsure \subseteq took /\ IsFiniteSet(took)
  /\ at \in [Entry -> 0 .. MaxTime] /\ seq \in [Entry -> Nat]
  /\ \E b \in Nat : \A e \in Entry : seq[e] <= b
  /\ call \in [Entry -> Answer] /\ owner \in [Entry -> Pod]
  /\ ready \in [Pod -> {"none", "running", "ok", "failed"}]
  /\ failedAt \in [Pod -> 0 .. MaxTime] /\ sequence \in [Pod -> Nat]
  /\ pending \in [Pod -> Seq(Entry)] /\ batch \in [Pod -> Seq(Entry)]
  /\ \A p \in Pod : Len(pending[p]) <= MaxPending /\ Len(batch[p]) <= BatchRows
  /\ drain \in [Pod -> Drain]
  /\ clearing \in [Pod -> {"no", "flush", "delete"}]
  /\ covers \in [Pod -> SUBSET Entry] /\ cleared \subseteq Entry
  /\ prune \in [Pod -> PruneState]
  /\ NoWriteStranded

LEMMA ShapeInit == Init => Shape
  <1>. SUFFICES ASSUME Init PROVE Shape
    OBVIOUS
  <1>1. IsFiniteSet({})
    BY FS_EmptySet
  <1>2. <<>> \in Seq(Entry) /\ Len(<<>>) = 0
    BY EmptySeq
  <1>3. \A e \in Entry : seq[e] <= 0
    BY DEF Init
  <1>4. Idle \in PruneState
    BY DEF Idle, PruneState
  <1>. QED
    BY <1>1, <1>2, <1>3, <1>4, LucidAssumption
    DEF Init, Shape, NoWriteStranded, Answer, Drain

\* A pod's counter goes on from the rows of the table.
LEMMA SeedIsNatural ==
  ASSUME Shape
  PROVE  LET top == Max({-1} \cup {seq[e] : e \in table})
         IN  top + 1 \in Nat /\ \A e \in table : seq[e] < top + 1
  <1>. DEFINE S == {-1} \cup {seq[e] : e \in table}
  <1>1. PICK b \in Nat : \A e \in Entry : seq[e] <= b
    BY DEF Shape
  <1>2. table \subseteq Entry /\ \A e \in table : seq[e] \in Nat
    BY DEF Shape
  <1>3. S \in SUBSET Int /\ S # {} /\ (-1 \in S) /\ \A e \in table : seq[e] \in S
    BY <1>2
  <1>4. \A x \in S : x <= b
    BY <1>1, <1>2
  <1>. HIDE DEF S
  <1>5. Max(S) \in S /\ \A x \in S : x <= Max(S)
    BY <1>1, <1>3, <1>4, BoundedHasMax
  <1>6. Max(S) \in Int /\ -1 <= Max(S)
    BY <1>3, <1>5
  <1>7. \A e \in table : seq[e] <= Max(S)
    BY <1>3, <1>5
  <1>. QED
    BY <1>2, <1>6, <1>7, SMTT(30) DEF S

\* A row is buffered: the counter, the buffer and the drain.
LEMMA QueueShape ==
  ASSUME Shape, NEW e \in Entry, Queue(e)
  PROVE  Shape'
  <1>. DEFINE p == owner[e]
              full == Len(pending[p]) >= MaxPending
  <1>1. /\ p \in Pod /\ pending[p] \in Seq(Entry) /\ sequence[p] \in Nat
        /\ Len(pending[p]) <= MaxPending /\ MaxPending \in Nat
    BY LucidAssumption DEF Shape
  <1>2. /\ pending' = [pending EXCEPT ![p] = IF full THEN @ ELSE Append(@, e)]
        /\ drain' = [drain EXCEPT ![p] = IF ~ full /\ @ = "none" THEN "scheduled" ELSE @]
        /\ seq' = [seq EXCEPT ![e] = sequence[p]]
        /\ at' = [at EXCEPT ![e] = now]
        /\ sequence' = [sequence EXCEPT ![p] = @ + 1]
        /\ call' = [call EXCEPT ![e] = IF full THEN "dropped" ELSE "queued"]
        /\ UNCHANGED <<now, owner, ready, failedAt, batch, clearing, covers, cleared, table,
                       took, unsure, prune>>
    BY DEF Queue, clearVars, tableVars
  <1>. HIDE DEF p
  <1>3. /\ Append(pending[p], e) \in Seq(Entry) /\ Append(pending[p], e) # <<>>
        /\ Len(Append(pending[p], e)) = Len(pending[p]) + 1 /\ Len(pending[p]) \in Nat
    BY <1>1, AppendProperties, LenProperties
  <1>4. /\ pending' \in [Pod -> Seq(Entry)]
        /\ \A q \in Pod : Len(pending'[q]) <= MaxPending
    <2>1. pending \in [Pod -> Seq(Entry)] /\ \A q \in Pod : Len(pending[q]) <= MaxPending
      BY DEF Shape
    <2>. QED
      BY <1>1, <1>2, <1>3, <2>1
  <1>5. seq' \in [Entry -> Nat] /\ \E b \in Nat : \A d \in Entry : seq'[d] <= b
    <2>1. PICK b \in Nat : \A d \in Entry : seq[d] <= b
      BY DEF Shape
    <2>2. seq \in [Entry -> Nat]
      BY DEF Shape
    <2>3. \A d \in Entry : seq'[d] = IF d = e THEN sequence[p] ELSE seq[d]
      BY <1>2, <2>2
    <2>4. b + sequence[p] \in Nat /\ \A d \in Entry : seq'[d] <= b + sequence[p]
      BY <1>1, <2>1, <2>2, <2>3
    <2>. QED
      BY <1>1, <1>2, <2>2, <2>4
  <1>6. NoWriteStranded'
    <2>1. NoWriteStranded /\ pending \in [Pod -> Seq(Entry)] /\ drain \in [Pod -> Drain]
      BY DEF Shape
    <2>. QED
      BY <1>1, <1>2, <1>3, <2>1 DEF NoWriteStranded
  <1>7. at' \in [Entry -> 0 .. MaxTime] /\ call' \in [Entry -> Answer]
    BY <1>2 DEF Shape, Answer
  <1>8. sequence' \in [Pod -> Nat] /\ drain' \in [Pod -> Drain]
    BY <1>1, <1>2, SMTT(30) DEF Shape, Drain
  <1>. QED
    BY <1>2, <1>4, <1>5, <1>6, <1>7, <1>8 DEF Shape

\* A batch is cut from the buffer.
LEMMA TakeShape ==
  ASSUME Shape, NEW p \in Pod, TakeBatch(p)
  PROVE  Shape'
  <1>1. PICK n \in 1 .. BatchRows :
          /\ n <= Len(pending[p])
          /\ batch' = [batch EXCEPT ![p] = SubSeq(pending[p], 1, n)]
          /\ pending' = [pending EXCEPT ![p] = SubSeq(@, n + 1, Len(@))]
    BY DEF TakeBatch
  <1>2. /\ drain' = [drain EXCEPT ![p] = "all"]
        /\ UNCHANGED <<now, at, seq, call, owner, ready, failedAt, sequence, clearing, covers,
                       cleared, table, took, unsure, prune>>
    BY DEF TakeBatch, callVars, initVars, clearVars, tableVars
  <1>3. /\ pending[p] \in Seq(Entry) /\ n \in Nat /\ n >= 1 /\ Len(pending[p]) \in Nat
        /\ Len(pending[p]) <= MaxPending /\ MaxPending \in Nat /\ BatchRows \in Nat
    BY LucidAssumption, LenProperties DEF Shape
  <1>4. /\ SubSeq(pending[p], 1, n) \in Seq(Entry)
        /\ SubSeq(pending[p], n + 1, Len(pending[p])) \in Seq(Entry)
        /\ Len(SubSeq(pending[p], 1, n)) = n
        /\ Len(SubSeq(pending[p], n + 1, Len(pending[p]))) = Len(pending[p]) - n
    BY <1>1, <1>3, CutParts
  <1>5. SubSeq(pending[p], 1, n) # <<>>
    BY <1>3, <1>4, EmptySeq
  <1>6. /\ pending' \in [Pod -> Seq(Entry)] /\ batch' \in [Pod -> Seq(Entry)]
        /\ \A q \in Pod : Len(pending'[q]) <= MaxPending /\ Len(batch'[q]) <= BatchRows
    <2>1. /\ pending \in [Pod -> Seq(Entry)] /\ batch \in [Pod -> Seq(Entry)]
          /\ \A q \in Pod : Len(pending[q]) <= MaxPending /\ Len(batch[q]) <= BatchRows
      BY DEF Shape
    <2>. QED
      BY <1>1, <1>3, <1>4, <2>1
  <1>7. NoWriteStranded'
    <2>1. /\ NoWriteStranded /\ pending \in [Pod -> Seq(Entry)] /\ batch \in [Pod -> Seq(Entry)]
          /\ drain \in [Pod -> Drain]
      BY DEF Shape
    <2>. QED
      BY <1>1, <1>2, <1>5, <2>1 DEF NoWriteStranded
  <1>8. drain' \in [Pod -> Drain]
    BY <1>2 DEF Shape, Drain
  <1>. QED
    BY <1>2, <1>6, <1>7, <1>8 DEF Shape

LEMMA ShapeStep ==
  ASSUME Shape, Next \/ UNCHANGED vars
  PROVE  Shape'
  <1>. USE LucidAssumption
           DEF Shape, callVars, initVars, drainVars, clearVars, tableVars
  <1>1. CASE UNCHANGED vars
    BY <1>1 DEF vars, NoWriteStranded
  <1>2. CASE Tick
    BY <1>2 DEF Tick, NoWriteStranded
  <1>3. ASSUME NEW e \in Entry, Record(e)
        PROVE  Shape'
    BY <1>3 DEF Record, Answer, NoWriteStranded
  <1>4. ASSUME NEW e \in Entry, Queue(e)
        PROVE  Shape'
    BY <1>4, QueueShape
  <1>5. ASSUME NEW p \in Pod, InitStep(p)
        PROVE  Shape'
    <2>1. CASE InitBegins(p)
      BY <2>1 DEF InitBegins, NoWriteStranded
    <2>2. CASE InitDone(p)
      <3>1. sequence' \in [Pod -> Nat]
        BY <2>2, SeedIsNatural DEF InitDone
      <3>. QED
        BY <2>2, <3>1 DEF InitDone, NoWriteStranded
    <2>3. CASE InitFails(p)
      BY <2>3 DEF InitFails, NoWriteStranded, Answer
    <2>. QED
      BY <1>5, <2>1, <2>2, <2>3 DEF InitStep
  <1>6. ASSUME NEW p \in Pod, DrainStep(p)
        PROVE  Shape'
    <2>1. CASE TakeBatch(p)
      BY <2>1, TakeShape
    <2>2. ASSUME NEW S \in SUBSET Entry, IsFiniteSet(S), Stored(S)
          PROVE  table' \subseteq took' /\ took' \subseteq Entry /\ IsFiniteSet(took')
      BY <2>2, FS_Union DEF Stored
    <2>3. <<>> \in Seq(Entry) /\ Len(<<>>) = 0
      BY EmptySeq
    <2>4. ToSet(batch[p]) \subseteq Entry /\ IsFiniteSet(ToSet(batch[p]))
      BY ElementsOf
    <2>5. CASE InsertBatch(p)
      <3>1. table' \subseteq took' /\ took' \subseteq Entry /\ IsFiniteSet(took') /\ took \subseteq took'
        BY <2>2, <2>4, <2>5 DEF InsertBatch, Stored
      <3>2. NoWriteStranded'
        BY <2>5 DEF InsertBatch, NoWriteStranded
      <3>. QED
        BY <2>3, <2>5, <3>1, <3>2 DEF InsertBatch, Settle, Answer, Drain
    <2>6. CASE InsertBatchFails(p)
      <3>1. /\ table' \subseteq took' /\ took' \subseteq Entry /\ IsFiniteSet(took')
            /\ unsure' \subseteq took'
        <4>1. CASE Stored({}) /\ UNCHANGED unsure
          BY <4>1 DEF Stored
        <4>2. CASE Stored(ToSet(batch[p])) /\ unsure' = unsure \cup ToSet(batch[p])
          <5>1. took' = took \cup ToSet(batch[p])
            BY <4>2 DEF Stored
          <5>. QED
            BY <2>2, <2>4, <4>2, <5>1
        <4>. QED
          BY <2>6, <4>1, <4>2 DEF InsertBatchFails
      <3>2. CASE Cardinality(ToSet(batch[p])) = 1
        <4>1. /\ Settle(ToSet(batch[p]), "failed")
              /\ batch' = [batch EXCEPT ![p] = <<>>]
              /\ drain' = [drain EXCEPT ![p] = "taking"]
          BY <2>6, <3>2 DEF InsertBatchFails
        <4>2. NoWriteStranded'
          BY <2>6, <4>1 DEF InsertBatchFails, NoWriteStranded
        <4>3. call' \in [Entry -> Answer] /\ drain' \in [Pod -> Drain]
          BY <4>1 DEF Settle, Answer, Drain
        <4>4. batch' \in [Pod -> Seq(Entry)] /\ \A q \in Pod : Len(batch'[q]) <= BatchRows
          BY <2>3, <4>1
        <4>. QED
          BY <2>6, <3>1, <4>2, <4>3, <4>4 DEF InsertBatchFails
      <3>3. CASE Cardinality(ToSet(batch[p])) # 1
        <4>1. drain' = [drain EXCEPT ![p] = "one"] /\ UNCHANGED <<call, batch>>
          BY <2>6, <3>3 DEF InsertBatchFails
        <4>2. NoWriteStranded'
          BY <2>6, <4>1 DEF InsertBatchFails, NoWriteStranded
        <4>. QED
          BY <2>6, <3>1, <4>1, <4>2 DEF InsertBatchFails, Drain
      <3>. QED
        BY <3>2, <3>3
    <2>7. CASE InsertOne(p)
      <3>1. batch[p] # <<>> /\ batch[p] \in Seq(Entry)
        BY <2>7 DEF InsertOne, NoWriteStranded
      <3>2. /\ Head(batch[p]) \in Entry /\ Tail(batch[p]) \in Seq(Entry)
            /\ Len(Tail(batch[p])) = Len(batch[p]) - 1 /\ Len(batch[p]) \in Nat
            /\ Tail(batch[p]) = <<>> <=> Len(batch[p]) = 1
        BY <3>1, HeadParts, LenProperties
      <3>3. IsFiniteSet({Head(batch[p])}) /\ IsFiniteSet({})
        BY FS_Singleton, FS_EmptySet
      <3>4. /\ table' \subseteq took' /\ took' \subseteq Entry /\ IsFiniteSet(took') /\ took \subseteq took'
            /\ unsure' \subseteq took'
        BY <2>2, <2>7, <3>2, <3>3 DEF InsertOne, Stored
      <3>5. call' \in [Entry -> Answer]
        BY <2>7 DEF InsertOne, Settle, Answer
      <3>6. /\ batch' \in [Pod -> Seq(Entry)] /\ drain' \in [Pod -> Drain]
            /\ \A q \in Pod : Len(batch'[q]) <= BatchRows
        <4>1. /\ batch' = [batch EXCEPT ![p] = Tail(@)]
              /\ drain' = [drain EXCEPT ![p] = IF Len(batch[p]) = 1 THEN "taking" ELSE "one"]
          BY <2>7 DEF InsertOne
        <4>2. drain' \in [Pod -> Drain]
          BY <4>1 DEF Drain
        <4>3. Len(Tail(batch[p])) <= BatchRows
          BY <3>2
        <4>. QED
          BY <3>2, <4>1, <4>2, <4>3
      <3>7. NoWriteStranded'
        BY <2>7, <3>2 DEF InsertOne, NoWriteStranded
      <3>. QED
        BY <2>7, <3>4, <3>5, <3>6, <3>7 DEF InsertOne
    <2>8. CASE DrainEnds(p)
      BY <2>8 DEF DrainEnds, NoWriteStranded, Drain
    <2>9. CASE DrainAgain(p)
      BY <2>9 DEF DrainAgain, NoWriteStranded, Drain
    <2>. QED
      BY <1>6, <2>1, <2>5, <2>6, <2>7, <2>8, <2>9 DEF DrainStep
  <1>7. ASSUME NEW p \in Pod, Clear(p) \/ Flushed(p) \/ DeleteAll(p)
        PROVE  Shape'
    <2>1. Buffered(p) \subseteq Entry
      BY ElementsOf DEF Buffered
    <2>2. CASE Clear(p)
      BY <2>1, <2>2 DEF Clear, NoWriteStranded
    <2>3. CASE Flushed(p)
      BY <2>3 DEF Flushed, NoWriteStranded
    <2>4. CASE DeleteAll(p)
      BY <2>4 DEF DeleteAll, NoWriteStranded
    <2>. QED
      BY <1>7, <2>2, <2>3, <2>4
  <1>8. ASSUME NEW p \in Pod, PruneStart(p) \/ PruneStep(p)
        PROVE  Shape'
    <2>1. \A e \in Entry : Position(e) \in Pair
      BY DEF Position, Pair
    <2>2. prune[p] \in PruneState /\ Idle \in PruneState
      BY DEF Idle, PruneState
    <2>3. prune' \in [Pod -> PruneState] /\ table' \subseteq table
      <3>1. CASE PruneStart(p)
        <4>1. now - Retention \in Int
          OBVIOUS
        <4>2. [Idle EXCEPT !.step = IF KeepLast < 0 THEN "edge" ELSE "position",
                           !.cutoff = now - Retention] \in PruneState
          BY <4>1 DEF Idle, PruneState
        <4>. QED
          BY <3>1, <4>2 DEF PruneStart
      <3>2. CASE PrunePosition(p)
        <4>. DEFINE W == Older(prune[p].cutoff)
                    found == {b \in {Position(e) : e \in W} :
                      /\ Cardinality({e \in W : IsNewer(Position(e), b)}) <= KeepLast
                      /\ Cardinality({e \in W : ~ IsNewer(b, Position(e))}) > KeepLast}
        <4>1. found \in SUBSET Pair
          BY <2>1 DEF Older
        <4>2. prune' = [prune EXCEPT ![p] =
                IF found = {} THEN Idle ELSE [@ EXCEPT !.step = "edge", !.from = found]]
              /\ table' = table
          BY <3>2 DEF PrunePosition
        <4>. HIDE DEF found
        <4>3. [prune[p] EXCEPT !.step = "edge", !.from = found] \in PruneState
          BY <2>2, <4>1 DEF PruneState
        <4>. QED
          BY <2>2, <4>2, <4>3
      <3>3. CASE PruneEdge(p)
        <4>. DEFINE D == Doomed(prune[p])
                    found == {b \in {Position(e) : e \in D} :
                      /\ Cardinality({e \in D : IsNewer(b, Position(e))}) <= PruneRows - 1
                      /\ Cardinality({e \in D : ~ IsNewer(Position(e), b)}) > PruneRows - 1}
        <4>1. found \in SUBSET Pair
          BY <2>1 DEF Doomed, Older
        <4>2. prune' = [prune EXCEPT ![p] = [@ EXCEPT !.step = "delete", !.edge = found]]
              /\ table' = table
          BY <3>3 DEF PruneEdge
        <4>. HIDE DEF found
        <4>3. [prune[p] EXCEPT !.step = "delete", !.edge = found] \in PruneState
          BY <2>2, <4>1 DEF PruneState
        <4>. QED
          BY <2>2, <4>2, <4>3
      <3>4. CASE PruneDelete(p)
        <4>1. prune' = [prune EXCEPT ![p] =
                IF prune[p].edge = {} THEN Idle ELSE [@ EXCEPT !.step = "edge", !.edge = {}]]
              /\ table' \subseteq table
          BY <3>4 DEF PruneDelete
        <4>2. [prune[p] EXCEPT !.step = "edge", !.edge = {}] \in PruneState
          BY <2>2 DEF PruneState
        <4>. QED
          BY <2>2, <4>1, <4>2
      <3>. QED
        BY <1>8, <3>1, <3>2, <3>3, <3>4 DEF PruneStep
    <2>4. UNCHANGED <<now, callVars, initVars, drainVars, clearVars, took, unsure>>
      BY <1>8 DEF PruneStart, PruneStep, PrunePosition, PruneEdge, PruneDelete
    <2>. QED
      BY <2>3, <2>4 DEF NoWriteStranded
  <1>9. ASSUME NEW p \in Pod, Crash(p)
        PROVE  Shape'
    <2>1. PICK S \in {{}, IF drain[p] = "all" THEN ToSet(batch[p])
                         ELSE IF drain[p] = "one" THEN {Head(batch[p])} \ table ELSE {}} : Stored(S)
      BY <1>9 DEF Crash
    <2>2. S \subseteq Entry /\ IsFiniteSet(S)
      <3>1. CASE drain[p] = "one"
        <4>1. Head(batch[p]) \in Entry
          BY <3>1, HeadParts DEF NoWriteStranded
        <4>2. IsFiniteSet({Head(batch[p])} \ table) /\ IsFiniteSet({})
          BY FS_Singleton, FS_EmptySet, FS_Difference
        <4>. QED
          BY <2>1, <3>1, <4>1, <4>2
      <3>2. CASE drain[p] # "one"
        <4>1. ToSet(batch[p]) \subseteq Entry /\ IsFiniteSet(ToSet(batch[p])) /\ IsFiniteSet({})
          BY ElementsOf, FS_EmptySet
        <4>. QED
          BY <2>1, <3>2, <4>1
      <3>. QED
        BY <3>1, <3>2
    <2>3. /\ table' \subseteq took' /\ took' \subseteq Entry /\ IsFiniteSet(took')
          /\ unsure' \subseteq took'
      BY <1>9, <2>1, <2>2, FS_Union DEF Stored, Crash
    <2>4. <<>> \in Seq(Entry) /\ Len(<<>>) = 0 /\ Idle \in PruneState
      BY EmptySeq DEF Idle, PruneState
    <2>5. NoWriteStranded'
      BY <1>9 DEF Crash, NoWriteStranded
    <2>6. call' \in [Entry -> Answer] /\ drain' \in [Pod -> Drain]
      BY <1>9 DEF Crash, Answer, Drain
    <2>7. /\ pending' \in [Pod -> Seq(Entry)] /\ batch' \in [Pod -> Seq(Entry)]
          /\ \A q \in Pod : Len(pending'[q]) <= MaxPending /\ Len(batch'[q]) <= BatchRows
      BY <1>9, <2>4 DEF Crash
    <2>8. /\ ready' \in [Pod -> {"none", "running", "ok", "failed"}]
          /\ failedAt' \in [Pod -> 0 .. MaxTime] /\ sequence' \in [Pod -> Nat]
          /\ clearing' \in [Pod -> {"no", "flush", "delete"}]
          /\ covers' \in [Pod -> SUBSET Entry] /\ prune' \in [Pod -> PruneState]
      BY <1>9, <2>4 DEF Crash
    <2>9. UNCHANGED <<now, at, seq, owner, cleared>>
      BY <1>9 DEF Crash
    <2>. QED
      BY <2>3, <2>5, <2>6, <2>7, <2>8, <2>9
  <1>. QED
    BY <1>1, <1>2, <1>3, <1>4, <1>5, <1>6, <1>7, <1>8, <1>9 DEF Next, ClearStep

-----------------------------------------------------------------------------
(* The order of the buffers                                                *)

Rising(s) == \A i, j \in 1 .. Len(s) : i < j => seq[s[i]] < seq[s[j]]
Before(s, t) == \A i \in 1 .. Len(s), j \in 1 .. Len(t) : seq[s[i]] < seq[t[j]]

\* The batch and then the buffer of a pod are its waiting rows in the order of their sequences,
\* which the counter is past; a pod that is not initialised has none.
Ordered(p) ==
  /\ Rising(pending[p]) /\ Rising(batch[p]) /\ Before(batch[p], pending[p])
  /\ \A e \in Buffered(p) : owner[e] = p /\ call[e] = "queued" /\ seq[e] < sequence[p]
  /\ ready[p] # "ok" => pending[p] = <<>> /\ batch[p] = <<>>

InOrder == \A p \in Pod : Ordered(p)

\* What Buffered means for elements.
LEMMA BufferedElements ==
  ASSUME Shape, NEW p \in Pod
  PROVE  /\ pending[p] \in Seq(Entry) /\ batch[p] \in Seq(Entry) /\ Buffered(p) \subseteq Entry
         /\ Len(pending[p]) \in Nat /\ Len(batch[p]) \in Nat
         /\ \A i \in 1 .. Len(pending[p]) : pending[p][i] \in ToSet(pending[p])
         /\ \A i \in 1 .. Len(batch[p]) : batch[p][i] \in ToSet(batch[p])
         /\ \A e \in ToSet(pending[p]) : \E i \in 1 .. Len(pending[p]) : e = pending[p][i]
         /\ \A e \in ToSet(batch[p]) : \E i \in 1 .. Len(batch[p]) : e = batch[p][i]
  <1>1. pending[p] \in Seq(Entry) /\ batch[p] \in Seq(Entry)
    BY DEF Shape
  <1>. QED
    BY <1>1, ElementsOf DEF Buffered

\* A row is in the buffer or in the batch, not in both.
LEMMA BatchApart ==
  ASSUME Shape, NEW p \in Pod, Ordered(p)
  PROVE  ToSet(batch[p]) \cap ToSet(pending[p]) = {}
  <1>. SUFFICES ASSUME NEW e \in ToSet(batch[p]), e \in ToSet(pending[p])
                PROVE  FALSE
    OBVIOUS
  <1>3. PICK i \in 1 .. Len(batch[p]) : e = batch[p][i]
    BY BufferedElements
  <1>4. PICK j \in 1 .. Len(pending[p]) : e = pending[p][j]
    BY BufferedElements
  <1>1. seq[batch[p][i]] < seq[pending[p][j]] /\ pending[p][j] \in Entry
    BY BufferedElements, LenProperties DEF Ordered, Before, Buffered
  <1>2. seq[pending[p][j]] \in Nat
    BY <1>1 DEF Shape
  <1>. QED
    BY <1>1, <1>2, <1>3, <1>4

\* The head of a batch is not in its tail.
LEMMA HeadApart ==
  ASSUME Shape, NEW p \in Pod, Ordered(p), batch[p] # <<>>
  PROVE  Head(batch[p]) \notin ToSet(Tail(batch[p]))
  <1>1. /\ batch[p] \in Seq(Entry) /\ Head(batch[p]) = batch[p][1] /\ Len(batch[p]) >= 1
        /\ Len(batch[p]) \in Nat /\ Tail(batch[p]) \in Seq(Entry)
        /\ Len(Tail(batch[p])) = Len(batch[p]) - 1
        /\ \A i \in 1 .. Len(batch[p]) - 1 : Tail(batch[p])[i] = batch[p][i + 1]
    BY HeadParts, LenProperties DEF Shape
  <1>2. ASSUME NEW i \in 1 .. Len(batch[p]) - 1, Tail(batch[p])[i] = batch[p][1]
        PROVE  FALSE
    <2>1. i + 1 \in 1 .. Len(batch[p]) /\ 1 \in 1 .. Len(batch[p]) /\ 1 < i + 1
      BY <1>1
    <2>2. seq[batch[p][1]] < seq[batch[p][i + 1]] /\ batch[p][1] \in Entry
      BY <1>1, <2>1 DEF Ordered, Rising
    <2>3. seq[batch[p][1]] \in Nat
      BY <2>2 DEF Shape
    <2>. QED
      BY <1>1, <1>2, <2>2, <2>3
  <1>3. ToSet(Tail(batch[p])) = {Tail(batch[p])[i] : i \in 1 .. Len(batch[p]) - 1}
    BY <1>1, ElementsOf, ZenonT(60)
  <1>. QED
    BY <1>1, <1>2, <1>3

\* What leaves a pod's buffers, for each way its batch shrinks.
LEMMA BatchLeaves ==
  ASSUME Shape, InOrder, NEW p \in Pod, UNCHANGED pending, batch' = [batch EXCEPT ![p] = <<>>]
  PROVE  \A q \in Pod : Buffered(q)' = IF q = p THEN Buffered(p) \ ToSet(batch[p]) ELSE Buffered(q)
  <1>1. ToSet(batch[p]) \cap ToSet(pending[p]) = {}
    BY BatchApart DEF InOrder
  <1>2. \A q \in Pod : batch'[q] = IF q = p THEN <<>> ELSE batch[q]
    BY DEF Shape
  <1>. QED
    BY <1>1, <1>2, NothingIn DEF Buffered

LEMMA HeadLeaves ==
  ASSUME Shape, InOrder, NEW p \in Pod, batch[p] # <<>>, UNCHANGED pending,
         batch' = [batch EXCEPT ![p] = Tail(@)]
  PROVE  \A q \in Pod : Buffered(q)' = IF q = p THEN Buffered(p) \ {Head(batch[p])} ELSE Buffered(q)
  <1>1. ToSet(batch[p]) \cap ToSet(pending[p]) = {} /\ Head(batch[p]) \notin ToSet(Tail(batch[p]))
    BY BatchApart, HeadApart DEF InOrder
  <1>2. ToSet(batch[p]) = {Head(batch[p])} \cup ToSet(Tail(batch[p]))
    BY HeadParts DEF Shape
  <1>3. \A q \in Pod : batch'[q] = IF q = p THEN Tail(batch[p]) ELSE batch[q]
    BY DEF Shape
  <1>. QED
    BY <1>1, <1>2, <1>3 DEF Buffered

\* A batch that is cut stays buffered.
LEMMA TakeBuffered ==
  ASSUME Shape, NEW p \in Pod, TakeBatch(p)
  PROVE  \A q \in Pod : Buffered(q)' = Buffered(q)
  <1>1. batch[p] = <<>>
    BY DEF TakeBatch, Shape, NoWriteStranded
  <1>2. PICK n \in 1 .. BatchRows :
          /\ n <= Len(pending[p])
          /\ batch' = [batch EXCEPT ![p] = SubSeq(pending[p], 1, n)]
          /\ pending' = [pending EXCEPT ![p] = SubSeq(@, n + 1, Len(@))]
    BY DEF TakeBatch
  <1>3. ToSet(pending[p]) = ToSet(SubSeq(pending[p], 1, n))
                              \cup ToSet(SubSeq(pending[p], n + 1, Len(pending[p])))
    <2>1. pending[p] \in Seq(Entry) /\ n \in Nat
      BY LucidAssumption DEF Shape
    <2>. QED
      BY <1>2, <2>1, CutParts
  <1>4. \A q \in Pod : /\ batch'[q] = IF q = p THEN SubSeq(pending[p], 1, n) ELSE batch[q]
                       /\ pending'[q] = IF q = p THEN SubSeq(pending[p], n + 1, Len(pending[p]))
                                        ELSE pending[q]
    BY <1>2 DEF Shape
  <1>. QED
    BY <1>1, <1>3, <1>4, NothingIn DEF Buffered

\* A row that is queued joins its own pod's buffer, unless that is full.
LEMMA QueueBuffered ==
  ASSUME Shape, NEW e \in Entry, Queue(e)
  PROVE  \A q \in Pod :
           Buffered(q)' = Buffered(q) \cup (IF q = owner[e] /\ call'[e] = "queued" THEN {e} ELSE {})
  <1>. DEFINE p == owner[e]
              full == Len(pending[p]) >= MaxPending
  <1>1. p \in Pod /\ pending[p] \in Seq(Entry)
    BY DEF Shape
  <1>2. ToSet(Append(pending[p], e)) = ToSet(pending[p]) \cup {e}
    BY <1>1, AppendAdds
  <1>3. /\ pending' = [pending EXCEPT ![p] = IF full THEN @ ELSE Append(@, e)]
        /\ call' = [call EXCEPT ![e] = IF full THEN "dropped" ELSE "queued"]
        /\ batch' = batch
    BY DEF Queue
  <1>4. \A q \in Pod : pending'[q] = IF q = p /\ call'[e] = "queued" THEN Append(pending[p], e)
                                     ELSE pending[q]
    BY <1>1, <1>3 DEF Shape
  <1>. QED
    BY <1>2, <1>3, <1>4 DEF Buffered

\* What a prefix or a rest of rising rows is.
LEMMA CutsRise ==
  ASSUME Shape, NEW s \in Seq(Entry), NEW n \in Nat, n <= Len(s), Rising(s)
  PROVE  /\ Rising(SubSeq(s, 1, n)) /\ Rising(SubSeq(s, n + 1, Len(s)))
         /\ Before(SubSeq(s, 1, n), SubSeq(s, n + 1, Len(s)))
  <1>. DEFINE front == SubSeq(s, 1, n)
              rest == SubSeq(s, n + 1, Len(s))
  <1>1. /\ Len(front) = n /\ Len(rest) = Len(s) - n /\ Len(s) \in Nat
        /\ \A i \in 1 .. n : front[i] = s[i]
        /\ \A i \in 1 .. Len(s) - n : rest[i] = s[n + i]
    BY CutParts, LenProperties
  <1>. HIDE DEF front, rest
  <1>2. Rising(front)
    BY <1>1 DEF Rising
  <1>3. Rising(rest)
    <2>1. \A i, j \in 1 .. Len(s) - n : i < j => n + i \in 1 .. Len(s) /\ n + j \in 1 .. Len(s) /\ n + i < n + j
      BY <1>1
    <2>. QED
      BY <1>1, <2>1 DEF Rising
  <1>4. Before(front, rest)
    <2>1. \A i \in 1 .. n, j \in 1 .. Len(s) - n : i \in 1 .. Len(s) /\ n + j \in 1 .. Len(s) /\ i < n + j
      BY <1>1
    <2>. QED
      BY <1>1, <2>1 DEF Rising, Before
  <1>. QED
    BY <1>2, <1>3, <1>4 DEF front, rest

\* The empty sequence rises and is before any.
LEMMA EmptyRises == Rising(<<>>) /\ \A s : Before(<<>>, s) /\ Before(s, <<>>)
  <1>1. Len(<<>>) = 0
    BY EmptySeq
  <1>. QED
    BY <1>1 DEF Rising, Before

LEMMA InOrderInit == Init => InOrder
  BY EmptyRises, NothingIn DEF Init, InOrder, Ordered, Buffered

\* A pod that moves nothing and whose calls wait as before stays in order.
LEMMA StillOrdered ==
  ASSUME Shape, NEW p \in Pod, Ordered(p), pending'[p] = pending[p], batch'[p] = batch[p],
         \A e \in Buffered(p) : seq'[e] = seq[e] /\ owner'[e] = owner[e] /\ call'[e] = "queued",
         sequence'[p] >= sequence[p] /\ sequence'[p] \in Nat,
         ready'[p] = "ok" \/ ready[p] # "ok"
  PROVE  Ordered(p)'
  <1>1. /\ pending[p] \in Seq(Entry) /\ batch[p] \in Seq(Entry)
        /\ \A i \in 1 .. Len(pending[p]) : pending[p][i] \in Buffered(p)
        /\ \A i \in 1 .. Len(batch[p]) : batch[p][i] \in Buffered(p)
    BY BufferedElements DEF Buffered
  <1>2. Buffered(p)' = Buffered(p)
    BY DEF Buffered
  <1>3. \A e \in Buffered(p) : owner'[e] = p /\ call'[e] = "queued" /\ seq'[e] < sequence'[p]
    <2>1. \A e \in Buffered(p) : e \in Entry /\ seq[e] \in Nat /\ seq[e] < sequence[p] /\ owner[e] = p
      BY BufferedElements DEF Ordered, Shape
    <2>2. sequence[p] \in Nat
      BY DEF Shape
    <2>. QED
      BY <2>1, <2>2
  <1>4. Rising(pending[p])' /\ Rising(batch[p])' /\ Before(batch[p], pending[p])'
    <2>1. /\ \A i \in 1 .. Len(pending[p]) : seq'[pending[p][i]] = seq[pending[p][i]]
          /\ \A i \in 1 .. Len(batch[p]) : seq'[batch[p][i]] = seq[batch[p][i]]
      BY <1>1
    <2>2. Rising(pending[p])'
      BY <2>1 DEF Ordered, Rising
    <2>3. Rising(batch[p])'
      BY <2>1 DEF Ordered, Rising
    <2>4. Before(batch[p], pending[p])'
      BY <2>1 DEF Ordered, Before
    <2>. QED
      BY <2>2, <2>3, <2>4
  <1>. QED
    BY <1>2, <1>3, <1>4 DEF Ordered

\* The drain of a pod does not touch the sequences.
LEMMA DrainInOrder ==
  ASSUME Shape, InOrder, NEW p \in Pod, DrainStep(p)
  PROVE  InOrder'
  <1>0. /\ Ordered(p) /\ Shape' /\ ready' = ready /\ seq' = seq /\ owner' = owner /\ sequence' = sequence
        /\ \A q \in Pod \ {p} : pending'[q] = pending[q] /\ batch'[q] = batch[q]
    <2>1. Shape'
      BY ShapeStep DEF Next
    <2>2. ready' = ready /\ seq' = seq /\ owner' = owner /\ sequence' = sequence
      BY DEF DrainStep, TakeBatch, InsertBatch, InsertBatchFails, InsertOne, DrainEnds, DrainAgain,
             callVars, initVars
    <2>3. /\ pending' = pending \/ \E b : pending' = [pending EXCEPT ![p] = b]
          /\ \/ batch' = batch
             \/ \E b : batch' = [batch EXCEPT ![p] = b]
      <3>1. CASE TakeBatch(p)
        BY <3>1 DEF TakeBatch
      <3>2. CASE InsertBatch(p)
        BY <3>2 DEF InsertBatch
      <3>3. CASE InsertBatchFails(p)
        BY <3>3 DEF InsertBatchFails
      <3>4. CASE InsertOne(p)
        BY <3>4 DEF InsertOne
      <3>5. CASE DrainEnds(p) \/ DrainAgain(p)
        BY <3>5 DEF DrainEnds, DrainAgain, callVars
      <3>. QED
        BY <3>1, <3>2, <3>3, <3>4, <3>5 DEF DrainStep
    <2>4. \A q \in Pod \ {p} : pending'[q] = pending[q] /\ batch'[q] = batch[q]
      BY <2>3 DEF Shape
    <2>. QED
      BY <2>1, <2>2, <2>4 DEF InOrder
  <1>1. ASSUME NEW e \in Entry, call[e] = "queued", e \notin Buffered(p)
        PROVE  call'[e] = "queued"
    <2>1. e \notin ToSet(batch[p])
      BY <1>1 DEF Buffered
    <2>2. CASE InsertOne(p)
      <3>1. batch[p] # <<>>
        BY <2>2 DEF InsertOne, Shape, NoWriteStranded
      <3>2. Head(batch[p]) \in ToSet(batch[p])
        BY <3>1, HeadParts DEF Shape
      <3>. QED
        BY <1>1, <2>1, <2>2, <3>2 DEF InsertOne, Settle
    <2>. QED
      BY <1>1, <2>1, <2>2 DEF DrainStep, TakeBatch, InsertBatch, InsertBatchFails, InsertOne,
                              DrainEnds, DrainAgain, callVars, Settle
  <1>2. ASSUME NEW q \in Pod, q # p
        PROVE  Ordered(q)'
    <2>1. \A e \in Buffered(q) : e \in Entry /\ owner[e] = q /\ call[e] = "queued" /\ e \notin Buffered(p)
      BY <1>0, <1>2, BufferedElements DEF InOrder, Ordered
    <2>2. \A e \in Buffered(q) : call'[e] = "queued"
      BY <1>1, <2>1
    <2>. QED
      <3>1. sequence'[q] >= sequence[q] /\ sequence'[q] \in Nat
        BY <1>0 DEF Shape
      <3>2. \A e \in Buffered(q) : seq'[e] = seq[e] /\ owner'[e] = owner[e] /\ call'[e] = "queued"
        BY <1>0, <2>2
      <3>3. /\ pending'[q] = pending[q] /\ batch'[q] = batch[q] /\ Ordered(q)
            /\ ready'[q] = "ok" \/ ready[q] # "ok"
        BY <1>0, <1>2 DEF InOrder
      <3>. QED
        BY <3>1, <3>2, <3>3, StillOrdered
  <1>3. CASE TakeBatch(p)
    <2>1. PICK n \in 1 .. BatchRows :
            /\ n <= Len(pending[p])
            /\ batch' = [batch EXCEPT ![p] = SubSeq(pending[p], 1, n)]
            /\ pending' = [pending EXCEPT ![p] = SubSeq(@, n + 1, Len(@))]
      BY <1>3 DEF TakeBatch
    <2>2. n \in Nat /\ pending[p] \in Seq(Entry)
      BY LucidAssumption DEF Shape
    <2>3. /\ batch'[p] = SubSeq(pending[p], 1, n) /\ call' = call
          /\ pending'[p] = SubSeq(pending[p], n + 1, Len(pending[p]))
      BY <1>3, <2>1 DEF TakeBatch, callVars, Shape
    <2>4. Rising(batch'[p]) /\ Rising(pending'[p]) /\ Before(batch'[p], pending'[p])
      BY <1>0, <2>1, <2>2, <2>3, CutsRise DEF Ordered
    <2>5. Rising(pending[p])' /\ Rising(batch[p])' /\ Before(batch[p], pending[p])'
      BY <1>0, <2>4 DEF Rising, Before
    <2>6. Buffered(p)' = Buffered(p)
      BY <1>3, TakeBuffered
    <2>7. ready[p] = "ok"
      <3>1. pending[p] # <<>>
        BY <2>1, <2>2, EmptySeq
      <3>. QED
        BY <1>0, <3>1 DEF Ordered
    <2>8. \A e \in Buffered(p)' : owner'[e] = p /\ call'[e] = "queued" /\ seq'[e] < sequence'[p]
      BY <1>0, <2>3, <2>6 DEF Ordered
    <2>9. ready'[p] = "ok"
      BY <1>0, <2>7
    <2>10. Ordered(p)'
      BY <2>5, <2>8, <2>9 DEF Ordered
    <2>. QED
      BY <1>2, <2>10 DEF InOrder
  <1>4. ASSUME UNCHANGED pending, batch' = [batch EXCEPT ![p] = <<>>],
               \A e \in Entry : call[e] = "queued" /\ e \notin ToSet(batch[p]) => call'[e] = "queued"
        PROVE  InOrder'
    <2>1. batch'[p] = <<>> /\ pending'[p] = pending[p]
      BY <1>4 DEF Shape
    <2>2. Buffered(p)' = Buffered(p) \ ToSet(batch[p])
      BY <1>4, BatchLeaves
    <2>3. Rising(pending[p])' /\ Rising(batch[p])' /\ Before(batch[p], pending[p])'
      <3>1. Rising(pending[p])'
        BY <1>0, <2>1 DEF Ordered, Rising
      <3>2. Len(batch'[p]) = 0
        BY <2>1, EmptySeq
      <3>. QED
        BY <3>1, <3>2 DEF Rising, Before
    <2>4. \A e \in Buffered(p)' : owner'[e] = p /\ call'[e] = "queued" /\ seq'[e] < sequence'[p]
      BY <1>0, <1>4, <2>2, BufferedElements DEF Ordered
    <2>5. Ordered(p)'
      BY <1>0, <2>1, <2>3, <2>4 DEF Ordered
    <2>. QED
      BY <1>2, <2>5 DEF InOrder
  <1>5. CASE UNCHANGED <<pending, batch, call>>
    <2>1. \A e \in Buffered(p) : call'[e] = "queued"
      BY <1>0, <1>5 DEF Ordered
    <2>2. Ordered(p)'
      <3>1. sequence'[p] >= sequence[p] /\ sequence'[p] \in Nat
        BY <1>0 DEF Shape
      <3>2. \A e \in Buffered(p) : seq'[e] = seq[e] /\ owner'[e] = owner[e] /\ call'[e] = "queued"
        BY <1>0, <2>1
      <3>3. /\ pending'[p] = pending[p] /\ batch'[p] = batch[p] /\ Ordered(p)
            /\ ready'[p] = "ok" \/ ready[p] # "ok"
        BY <1>0, <1>5
      <3>. QED
        BY <3>1, <3>2, <3>3, StillOrdered
    <2>. QED
      BY <1>2, <2>2 DEF InOrder
  <1>6. CASE InsertOne(p)
    <2>1. batch[p] # <<>> /\ batch[p] \in Seq(Entry)
      BY <1>6 DEF InsertOne, Shape, NoWriteStranded
    <2>2. /\ batch'[p] = Tail(batch[p]) /\ pending'[p] = pending[p] /\ UNCHANGED pending
          /\ batch' = [batch EXCEPT ![p] = Tail(@)]
          /\ \A e \in Entry : e # Head(batch[p]) => call'[e] = call[e]
      BY <1>6 DEF InsertOne, Settle, Shape
    <2>3. Buffered(p)' = Buffered(p) \ {Head(batch[p])}
      BY <2>1, <2>2, HeadLeaves
    <2>4. /\ Len(Tail(batch[p])) = Len(batch[p]) - 1 /\ Len(batch[p]) \in Nat
          /\ \A i \in 1 .. Len(batch[p]) - 1 : Tail(batch[p])[i] = batch[p][i + 1]
      BY <2>1, HeadParts, LenProperties
    <2>5. Rising(batch[p])'
      <3>1. \A i, j \in 1 .. Len(batch[p]) - 1 :
              i < j => i + 1 \in 1 .. Len(batch[p]) /\ j + 1 \in 1 .. Len(batch[p]) /\ i + 1 < j + 1
        BY <2>4
      <3>. QED
        BY <1>0, <2>2, <2>4, <3>1 DEF Ordered, Rising
    <2>6. Before(batch[p], pending[p])'
      <3>1. \A i \in 1 .. Len(batch[p]) - 1 : i + 1 \in 1 .. Len(batch[p])
        BY <2>4
      <3>. QED
        BY <1>0, <2>2, <2>4, <3>1 DEF Ordered, Before
    <2>7. Rising(pending[p])'
      BY <1>0, <2>2 DEF Ordered, Rising
    <2>8. \A e \in Buffered(p)' : owner'[e] = p /\ call'[e] = "queued" /\ seq'[e] < sequence'[p]
      BY <1>0, <2>2, <2>3, BufferedElements DEF Ordered
    <2>9. ready[p] = "ok"
      BY <1>0, <2>1 DEF Ordered
    <2>. QED
      BY <1>0, <1>2, <2>5, <2>6, <2>7, <2>8, <2>9 DEF InOrder, Ordered
  <1>7. CASE InsertBatch(p)
    BY <1>7, <1>4 DEF InsertBatch, Settle
  <1>8. CASE InsertBatchFails(p)
    <2>1. CASE Cardinality(ToSet(batch[p])) = 1
      BY <1>8, <2>1, <1>4 DEF InsertBatchFails, Settle
    <2>2. CASE Cardinality(ToSet(batch[p])) # 1
      BY <1>8, <2>2, <1>5 DEF InsertBatchFails
    <2>. QED
      BY <2>1, <2>2
  <1>. QED
    BY <1>3, <1>5, <1>6, <1>7, <1>8 DEF DrainStep, DrainEnds, DrainAgain, callVars

LEMMA InOrderStep ==
  ASSUME Shape, InOrder, Next \/ UNCHANGED vars
  PROVE  InOrder'
  <1>0. Shape'
    BY ShapeStep
  <1>1. \A q \in Pod : sequence[q] \in Nat /\ sequence'[q] \in Nat
    BY <1>0 DEF Shape
  <1>2. \A q \in Pod : \A e \in Buffered(q) : e \in Entry /\ owner[e] = q /\ call[e] = "queued"
    BY BufferedElements DEF InOrder, Ordered
  <1>3. ASSUME UNCHANGED <<pending, batch, seq, owner, sequence>>,
               \A e \in Entry : call[e] = "queued" => call'[e] = "queued",
               \A q \in Pod : ready'[q] = "ok" \/ ready[q] # "ok"
        PROVE  InOrder'
    <2>. SUFFICES ASSUME NEW q \in Pod PROVE Ordered(q)'
      BY DEF InOrder
    <2>1. \A e \in Buffered(q) : seq'[e] = seq[e] /\ owner'[e] = owner[e] /\ call'[e] = "queued"
      BY <1>2, <1>3
    <2>2. /\ pending'[q] = pending[q] /\ batch'[q] = batch[q] /\ Ordered(q)
          /\ ready'[q] = "ok" \/ ready[q] # "ok"
          /\ sequence'[q] >= sequence[q] /\ sequence'[q] \in Nat
      BY <1>1, <1>3 DEF InOrder
    <2>. QED
      BY <2>1, <2>2, StillOrdered
  <1>4. ASSUME NEW e \in Entry, Record(e)
        PROVE  InOrder'
    BY <1>3, <1>4 DEF Record, Begins, Retries, drainVars, Shape
  <1>5. ASSUME NEW e \in Entry, Queue(e)
        PROVE  InOrder'
    <2>. PICK p \in Pod : p = owner[e]
      BY DEF Shape
    <2>. DEFINE full == Len(pending[p]) >= MaxPending
    <2>1. p \in Pod /\ pending[p] \in Seq(Entry) /\ batch[p] \in Seq(Entry)
      BY DEF Shape
    <2>2. /\ pending' = [pending EXCEPT ![p] = IF full THEN @ ELSE Append(@, e)]
          /\ seq' = [seq EXCEPT ![e] = sequence[p]]
          /\ sequence' = [sequence EXCEPT ![p] = @ + 1]
          /\ call' = [call EXCEPT ![e] = IF full THEN "dropped" ELSE "queued"]
          /\ UNCHANGED <<owner, ready, batch>>
          /\ call[e] = "init" /\ ready[p] = "ok"
      BY <1>5 DEF Queue
    <2>3. \A d \in Entry : d # e => seq'[d] = seq[d] /\ call'[d] = call[d]
      BY <2>2 DEF Shape
    <2>4. \A q \in Pod : \A d \in Buffered(q) : d # e /\ d \in Entry /\ seq'[d] = seq[d] /\ call'[d] = "queued"
      BY <1>2, <2>2, <2>3
    <2>5. seq'[e] = sequence[p] /\ sequence'[p] = sequence[p] + 1
          /\ \A q \in Pod \ {p} : sequence'[q] = sequence[q] /\ pending'[q] = pending[q]
      BY <2>1, <2>2 DEF Shape
    <2>6. ASSUME NEW q \in Pod, q # p \/ full
          PROVE  Ordered(q)'
      <3>1. pending'[q] = pending[q] /\ batch'[q] = batch[q] /\ Ordered(q)
            /\ (ready'[q] = "ok" \/ ready[q] # "ok")
        BY <2>1, <2>2, <2>5, <2>6 DEF InOrder, Shape
      <3>2. sequence'[q] >= sequence[q] /\ sequence'[q] \in Nat
        BY <1>1, <2>5
      <3>3. \A d \in Buffered(q) : seq'[d] = seq[d] /\ owner'[d] = owner[d] /\ call'[d] = "queued"
        BY <2>2, <2>4
      <3>. QED
        BY <3>1, <3>2, <3>3, StillOrdered
    <2>7. ASSUME ~ full
          PROVE  Ordered(p)'
      <3>1. pending'[p] = Append(pending[p], e) /\ batch'[p] = batch[p] /\ call'[e] = "queued"
        BY <2>1, <2>2, <2>7 DEF Shape
      <3>2. /\ Len(Append(pending[p], e)) = Len(pending[p]) + 1 /\ Len(pending[p]) \in Nat
            /\ \A i \in 1 .. Len(pending[p]) : Append(pending[p], e)[i] = pending[p][i]
            /\ Append(pending[p], e)[Len(pending[p]) + 1] = e
        BY <2>1, AppendProperties, LenProperties
      <3>3. /\ \A i \in 1 .. Len(pending[p]) : pending[p][i] \in Buffered(p)
            /\ \A i \in 1 .. Len(batch[p]) : batch[p][i] \in Buffered(p)
        BY <2>1, BufferedElements DEF Buffered
      <3>4. \A d \in Buffered(p) : seq'[d] = seq[d] /\ seq[d] < sequence[p] /\ seq[d] \in Nat
        BY <2>1, <2>4 DEF InOrder, Ordered, Shape
      <3>5. /\ \A i \in 1 .. Len(pending[p]) : seq'[pending[p][i]] = seq[pending[p][i]]
                                              /\ seq'[pending[p][i]] < seq'[e]
            /\ \A i \in 1 .. Len(batch[p]) : seq'[batch[p][i]] = seq[batch[p][i]]
                                            /\ seq'[batch[p][i]] < seq'[e]
        BY <2>5, <3>3, <3>4
      <3>6. Rising(pending[p])'
        <4>1. \A i, j \in 1 .. Len(pending[p]) + 1 : i < j =>
                i \in 1 .. Len(pending[p]) /\ (j \in 1 .. Len(pending[p]) \/ j = Len(pending[p]) + 1)
          BY <3>2
        <4>2. \A i, j \in 1 .. Len(pending[p]) : i < j => seq[pending[p][i]] < seq[pending[p][j]]
          BY <2>1 DEF InOrder, Ordered, Rising
        <4>. QED
          BY <3>1, <3>2, <3>5, <4>1, <4>2 DEF Rising
      <3>7. Rising(batch[p])'
        <4>1. \A i, j \in 1 .. Len(batch[p]) : i < j => seq[batch[p][i]] < seq[batch[p][j]]
          BY <2>1 DEF InOrder, Ordered, Rising
        <4>. QED
          BY <3>1, <3>5, <4>1 DEF Rising
      <3>8. Before(batch[p], pending[p])'
        <4>1. \A j \in 1 .. Len(pending[p]) + 1 : j \in 1 .. Len(pending[p]) \/ j = Len(pending[p]) + 1
          BY <3>2
        <4>2. \A i \in 1 .. Len(batch[p]), j \in 1 .. Len(pending[p]) : seq[batch[p][i]] < seq[pending[p][j]]
          BY <2>1 DEF InOrder, Ordered, Before
        <4>3. \A i \in 1 .. Len(batch[p]), j \in 1 .. Len(pending[p]) + 1 :
                seq'[batch[p][i]] < seq'[Append(pending[p], e)[j]]
          BY <3>2, <3>5, <4>1, <4>2
        <4>. QED
          BY <3>1, <3>2, <4>3 DEF Before
      <3>9. Buffered(p)' = Buffered(p) \cup {e}
        BY <1>5, <2>1, <3>1, QueueBuffered
      <3>10. \A d \in Buffered(p)' : owner'[d] = p /\ call'[d] = "queued" /\ seq'[d] < sequence'[p]
        <4>1. sequence[p] \in Nat
          BY <1>1, <2>1
        <4>2. seq'[e] < sequence'[p] /\ owner'[e] = p
          BY <2>2, <2>5, <4>1
        <4>3. \A d \in Buffered(p) : owner'[d] = p /\ call'[d] = "queued" /\ seq'[d] < sequence'[p]
          BY <1>2, <2>1, <2>2, <2>4, <2>5, <3>4, <4>1
        <4>. QED
          BY <3>1, <3>9, <4>2, <4>3
      <3>. QED
        BY <2>2, <3>6, <3>7, <3>8, <3>10 DEF Ordered
    <2>. QED
      BY <2>6, <2>7 DEF InOrder
  <1>6. ASSUME NEW p \in Pod, InitDone(p)
        PROVE  InOrder'
    <2>1. /\ ready[p] = "running" /\ UNCHANGED <<pending, batch, seq, owner, call>>
          /\ \A q \in Pod \ {p} : sequence'[q] = sequence[q] /\ ready'[q] = ready[q]
          /\ ready'[p] = "ok"
      BY <1>6 DEF InitDone, drainVars, callVars, Shape
    <2>2. pending[p] = <<>> /\ batch[p] = <<>>
      BY <2>1 DEF InOrder, Ordered
    <2>3. Ordered(p)'
      <3>1. pending'[p] = <<>> /\ batch'[p] = <<>> /\ Len(<<>>) = 0
        BY <2>1, <2>2, EmptySeq
      <3>. QED
        BY <3>1, NothingIn DEF Ordered, Rising, Before, Buffered
    <2>4. ASSUME NEW q \in Pod, q # p
          PROVE  Ordered(q)'
      <3>1. pending'[q] = pending[q] /\ batch'[q] = batch[q] /\ Ordered(q)
            /\ (ready'[q] = "ok" \/ ready[q] # "ok")
            /\ sequence'[q] >= sequence[q] /\ sequence'[q] \in Nat
        BY <1>1, <2>1, <2>4 DEF InOrder
      <3>2. \A d \in Buffered(q) : seq'[d] = seq[d] /\ owner'[d] = owner[d] /\ call'[d] = "queued"
        BY <1>2, <2>1
      <3>. QED
        BY <3>1, <3>2, StillOrdered
    <2>. QED
      BY <2>3, <2>4 DEF InOrder
  <1>7. ASSUME NEW p \in Pod, InitBegins(p) \/ InitFails(p)
        PROVE  InOrder'
    BY <1>3, <1>7 DEF InitBegins, InitFails, Begins, Retries, drainVars, callVars, Shape
  <1>8. ASSUME NEW p \in Pod, Crash(p)
        PROVE  InOrder'
    <2>1. /\ UNCHANGED <<seq, owner>> /\ pending'[p] = <<>> /\ batch'[p] = <<>>
          /\ \A q \in Pod \ {p} : /\ pending'[q] = pending[q] /\ batch'[q] = batch[q]
                                  /\ sequence'[q] = sequence[q] /\ ready'[q] = ready[q]
          /\ \A e \in Entry : owner[e] # p => call'[e] = call[e]
      BY <1>8 DEF Crash, Shape
    <2>2. Ordered(p)'
      <3>1. Len(<<>>) = 0
        BY EmptySeq
      <3>. QED
        BY <2>1, <3>1, NothingIn DEF Ordered, Rising, Before, Buffered
    <2>3. ASSUME NEW q \in Pod, q # p
          PROVE  Ordered(q)'
      <3>1. pending'[q] = pending[q] /\ batch'[q] = batch[q] /\ Ordered(q)
            /\ (ready'[q] = "ok" \/ ready[q] # "ok")
            /\ sequence'[q] >= sequence[q] /\ sequence'[q] \in Nat
        BY <1>1, <2>1, <2>3 DEF InOrder
      <3>2. \A d \in Buffered(q) : seq'[d] = seq[d] /\ owner'[d] = owner[d] /\ call'[d] = "queued"
        BY <1>2, <2>1, <2>3
      <3>. QED
        BY <3>1, <3>2, StillOrdered
    <2>. QED
      BY <2>2, <2>3 DEF InOrder
  <1>9. CASE UNCHANGED <<callVars, initVars, drainVars>>
    BY <1>3, <1>9 DEF callVars, initVars, drainVars
  <1>. QED
    BY <1>4, <1>5, <1>6, <1>7, <1>8, <1>9, DrainInOrder
    DEF Next, vars, Tick, InitStep, Clear, ClearStep, Flushed, DeleteAll, PruneStart, PruneStep,
        PrunePosition, PruneEdge, PruneDelete

-----------------------------------------------------------------------------
(* What a step does to rows and buffers                                    *)

\* The rows an interrupted INSERT may have left behind were buffered.
LEMMA CrashStores ==
  ASSUME Shape, NEW p \in Pod, Crash(p)
  PROVE  \E S \in SUBSET ToSet(batch[p]) : Stored(S)
  <1>1. PICK S \in {{}, IF drain[p] = "all" THEN ToSet(batch[p])
                       ELSE IF drain[p] = "one" THEN {Head(batch[p])} \ table ELSE {}} : Stored(S)
    BY DEF Crash
  <1>2. drain[p] = "one" => Head(batch[p]) \in ToSet(batch[p])
    BY HeadParts DEF Shape, NoWriteStranded
  <1>3. S \subseteq ToSet(batch[p])
    BY <1>1, <1>2
  <1>. QED
    BY <1>1, <1>3

\* Rows come from a batch in flight; a buffer grows by calls that waited for init(); what was
\* recorded once is not recorded again, and keeps its position.
LEMMA Movement ==
  ASSUME Shape, InOrder, Next \/ UNCHANGED vars
  PROVE  /\ took \subseteq took' /\ unsure \subseteq unsure'
         /\ \A e \in table' \ table : \E p \in Pod : e \in ToSet(batch[p]) /\ pending'[p] \in {pending[p], <<>>}
         /\ \A q \in Pod : \A e \in Buffered(q)' \ Buffered(q) : call[e] = "init" /\ owner[e] = q
         /\ \A e \in Entry : call[e] \notin {"none", "init"} => call'[e] \notin {"none", "init"}
         /\ \A e \in Entry : call[e] # "init" => at'[e] = at[e] /\ seq'[e] = seq[e]
         /\ owner' = owner
  <1>. DEFINE Goal ==
         /\ took \subseteq took' /\ unsure \subseteq unsure'
         /\ \A e \in table' \ table : \E p \in Pod : e \in ToSet(batch[p]) /\ pending'[p] \in {pending[p], <<>>}
         /\ \A q \in Pod : \A e \in Buffered(q)' \ Buffered(q) : call[e] = "init" /\ owner[e] = q
         /\ \A e \in Entry : call[e] \notin {"none", "init"} => call'[e] \notin {"none", "init"}
         /\ \A e \in Entry : call[e] # "init" => at'[e] = at[e] /\ seq'[e] = seq[e]
         /\ owner' = owner
  <1>1. ASSUME UNCHANGED <<at, seq, owner, pending, batch, took, unsure>>, table' \subseteq table,
               \A e \in Entry : call[e] \notin {"none", "init"} => call'[e] \notin {"none", "init"}
        PROVE  Goal
    BY <1>1 DEF Buffered
  <1>2. ASSUME NEW e \in Entry, Record(e)
        PROVE  Goal
    BY <1>1, <1>2 DEF Record, drainVars, tableVars, Shape
  <1>3. ASSUME NEW e \in Entry, Queue(e)
        PROVE  Goal
    <2>1. \A q \in Pod : \A d \in Buffered(q)' \ Buffered(q) : d = e /\ q = owner[e]
      BY <1>3, QueueBuffered
    <2>. QED
      BY <1>3, <2>1 DEF Queue, tableVars, Shape
  <1>4. ASSUME NEW p \in Pod, InitStep(p)
        PROVE  Goal
    BY <1>1, <1>4 DEF InitStep, InitBegins, InitDone, InitFails, callVars, drainVars, tableVars, Shape
  <1>5. ASSUME NEW p \in Pod, DrainStep(p)
        PROVE  Goal
    <2>1. CASE TakeBatch(p)
      <3>1. \A q \in Pod : Buffered(q)' = Buffered(q)
        BY <2>1, TakeBuffered
      <3>. QED
        BY <2>1, <3>1 DEF TakeBatch, callVars, tableVars
    <2>2. CASE InsertBatch(p)
      <3>1. \A q \in Pod : Buffered(q)' \subseteq Buffered(q)
        BY <2>2, BatchLeaves DEF InsertBatch
      <3>. QED
        BY <2>2, <3>1 DEF InsertBatch, Stored, Settle, Shape
    <2>3. CASE InsertBatchFails(p)
      <3>1. /\ took \subseteq took' /\ unsure \subseteq unsure'
            /\ \A e \in table' \ table : e \in ToSet(batch[p])
            /\ UNCHANGED <<at, seq, owner, pending>>
        BY <2>3 DEF InsertBatchFails, Stored
      <3>2. CASE Cardinality(ToSet(batch[p])) = 1
        <4>1. \A q \in Pod : Buffered(q)' \subseteq Buffered(q)
          BY <2>3, <3>2, BatchLeaves DEF InsertBatchFails
        <4>. QED
          BY <2>3, <3>1, <3>2, <4>1 DEF InsertBatchFails, Settle
      <3>3. CASE Cardinality(ToSet(batch[p])) # 1
        BY <2>3, <3>1, <3>3 DEF InsertBatchFails, Buffered
      <3>. QED
        BY <3>2, <3>3
    <2>4. CASE InsertOne(p)
      <3>1. batch[p] # <<>> /\ batch[p] \in Seq(Entry)
        BY <2>4 DEF InsertOne, Shape, NoWriteStranded
      <3>2. Head(batch[p]) \in ToSet(batch[p])
        BY <3>1, HeadParts
      <3>3. \A q \in Pod : Buffered(q)' \subseteq Buffered(q)
        BY <2>4, <3>1, HeadLeaves DEF InsertOne
      <3>. QED
        BY <2>4, <3>2, <3>3, ZenonT(60) DEF InsertOne, Stored, Settle, Shape
    <2>5. CASE DrainEnds(p) \/ DrainAgain(p)
      BY <1>1, <2>5 DEF DrainEnds, DrainAgain, callVars, tableVars
    <2>. QED
      BY <1>5, <2>1, <2>2, <2>3, <2>4, <2>5 DEF DrainStep
  <1>6. ASSUME NEW p \in Pod, Crash(p)
        PROVE  Goal
    <2>1. PICK S \in SUBSET ToSet(batch[p]) : Stored(S)
      BY <1>6, CrashStores
    <2>2. \A q \in Pod : Buffered(q)' \subseteq Buffered(q)
      BY <1>6, NothingIn DEF Crash, Buffered, Shape
    <2>3. pending'[p] = <<>>
      BY <1>6 DEF Crash, Shape
    <2>. QED
      BY <1>6, <2>1, <2>2, <2>3 DEF Crash, Stored, Shape
  <1>7. CASE UNCHANGED <<callVars, drainVars, took, unsure>> /\ table' \subseteq table
    BY <1>1, <1>7 DEF callVars, drainVars
  <1>. QED
    BY <1>2, <1>3, <1>4, <1>5, <1>6, <1>7
    DEF Next, vars, Tick, Clear, ClearStep, Flushed, DeleteAll, PruneStart, PruneStep,
        PrunePosition, PruneEdge, PruneDelete, tableVars

-----------------------------------------------------------------------------
(* What record() answers                                                   *)

\* A call waits exactly while its row is buffered, and what it was told is true.
Answered ==
  \A e \in Entry :
    /\ call[e] = "queued" => e \in Buffered(owner[e])
    /\ call[e] \in {"none", "init"} => e \notin took
    /\ call[e] = "written" => e \in took
    /\ call[e] \in {"queued", "failed", "dropped"} /\ e \in took => e \in unsure

LEMMA AnsweredInit == Init => Answered
  BY DEF Init, Answered

LEMMA AnsweredStep ==
  ASSUME Shape, InOrder, Answered, Next \/ UNCHANGED vars
  PROVE  Answered'
  <1>1. Shape' /\ InOrder' /\ owner' = owner
    BY ShapeStep, InOrderStep, Movement
  <1>2. \A q \in Pod : \A e \in Buffered(q) : e \in Entry /\ owner[e] = q /\ call[e] = "queued"
    BY BufferedElements DEF InOrder, Ordered
  <1>3. ASSUME NEW e \in Entry, Record(e)
        PROVE  Answered'
    BY <1>3 DEF Record, Answered, Buffered, drainVars, tableVars, Shape
  <1>4. ASSUME NEW e \in Entry, Queue(e)
        PROVE  Answered'
    <2>1. \A q \in Pod : Buffered(q)' = Buffered(q)
            \cup (IF q = owner[e] /\ call'[e] = "queued" THEN {e} ELSE {})
      BY <1>4, QueueBuffered
    <2>2. owner[e] \in Pod /\ \A d \in Entry : owner[d] \in Pod
      BY DEF Shape
    <2>3. /\ UNCHANGED <<took, unsure>> /\ call[e] = "init" /\ call'[e] \in {"dropped", "queued"}
          /\ \A d \in Entry : d # e => call'[d] = call[d]
      BY <1>4 DEF Queue, tableVars, Shape
    <2>. QED
      BY <1>1, <2>1, <2>2, <2>3 DEF Answered
  <1>5. ASSUME NEW p \in Pod, InitStep(p)
        PROVE  Answered'
    BY <1>5 DEF InitStep, InitBegins, InitDone, InitFails, callVars, drainVars, tableVars, Shape,
                Answered, Buffered
  <1>6. ASSUME NEW p \in Pod, DrainStep(p)
        PROVE  Answered'
    <2>0. \A d \in Entry : owner[d] \in Pod
      BY DEF Shape
    <2>1. CASE TakeBatch(p)
      <3>1. \A q \in Pod : Buffered(q)' = Buffered(q)
        BY <2>1, TakeBuffered
      <3>. QED
        BY <2>0, <2>1, <3>1 DEF TakeBatch, callVars, tableVars, Answered
    <2>2. CASE InsertBatch(p)
      <3>1. \A q \in Pod : Buffered(q)' = IF q = p THEN Buffered(p) \ ToSet(batch[p]) ELSE Buffered(q)
        BY <2>2, BatchLeaves DEF InsertBatch
      <3>2. /\ took' = took \cup ToSet(batch[p]) /\ UNCHANGED <<unsure, owner>>
            /\ \A d \in Entry : call'[d] = IF d \in ToSet(batch[p]) THEN "written" ELSE call[d]
        BY <2>2 DEF InsertBatch, Stored, Settle
      <3>3. \A d \in ToSet(batch[p]) : call[d] = "queued"
        BY <1>2 DEF Buffered
      <3>. QED
        BY <2>0, <3>1, <3>2, <3>3 DEF Answered
    <2>3. CASE InsertBatchFails(p)
      <3>1. \/ UNCHANGED <<took, unsure>>
            \/ took' = took \cup ToSet(batch[p]) /\ unsure' = unsure \cup ToSet(batch[p])
        BY <2>3 DEF InsertBatchFails, Stored
      <3>2. \A d \in ToSet(batch[p]) : call[d] = "queued"
        BY <1>2 DEF Buffered
      <3>3. CASE Cardinality(ToSet(batch[p])) = 1
        <4>1. \A q \in Pod : Buffered(q)' = IF q = p THEN Buffered(p) \ ToSet(batch[p]) ELSE Buffered(q)
          BY <2>3, <3>3, BatchLeaves DEF InsertBatchFails
        <4>2. \A d \in Entry : call'[d] = IF d \in ToSet(batch[p]) THEN "failed" ELSE call[d]
          BY <2>3, <3>3 DEF InsertBatchFails, Settle
        <4>. QED
          BY <1>1, <2>0, <3>1, <3>2, <4>1, <4>2 DEF Answered
      <3>4. CASE Cardinality(ToSet(batch[p])) # 1
        <4>1. UNCHANGED <<call, batch, pending>>
          BY <2>3, <3>4 DEF InsertBatchFails
        <4>. QED
          BY <1>1, <3>1, <3>2, <4>1 DEF Answered, Buffered
      <3>. QED
        BY <3>3, <3>4
    <2>4. CASE InsertOne(p)
      <3>1. batch[p] # <<>> /\ batch[p] \in Seq(Entry)
        BY <2>4 DEF InsertOne, Shape, NoWriteStranded
      <3>2. PICK e \in Entry : e = Head(batch[p]) /\ e \in Buffered(p)
        BY <3>1, HeadParts DEF Buffered
      <3>3. \A q \in Pod : Buffered(q)' = IF q = p THEN Buffered(p) \ {e} ELSE Buffered(q)
        BY <2>4, <3>1, <3>2, HeadLeaves DEF InsertOne
      <3>4. /\ UNCHANGED owner /\ call[e] = "queued"
            /\ \A d \in Entry : d # e => call'[d] = call[d]
            /\ \/ took' = took \cup {e} /\ call'[e] = "written" /\ unsure' = unsure
               \/ took' = took \cup {e} /\ call'[e] = "failed" /\ unsure' = unsure \cup {e}
               \/ took' = took /\ call'[e] = "failed" /\ unsure' = unsure
        BY <1>2, <2>4, <3>2 DEF InsertOne, Stored, Settle
      <3>. QED
        BY <2>0, <3>3, <3>4 DEF Answered
    <2>5. CASE DrainEnds(p) \/ DrainAgain(p)
      BY <2>5 DEF DrainEnds, DrainAgain, callVars, tableVars, Answered, Buffered
    <2>. QED
      BY <1>6, <2>1, <2>2, <2>3, <2>4, <2>5 DEF DrainStep
  <1>7. ASSUME NEW p \in Pod, Crash(p)
        PROVE  Answered'
    <2>1. PICK S \in SUBSET ToSet(batch[p]) : Stored(S)
      BY <1>7, CrashStores
    <2>2. \A d \in S : d \in Buffered(p)
      BY <2>1 DEF Buffered
    <2>3. \A d \in S : d \in Entry /\ owner[d] = p /\ call[d] = "queued"
      BY <1>2, <2>2
    <2>4. \A q \in Pod \ {p} : Buffered(q)' = Buffered(q)
      BY <1>7 DEF Crash, Buffered, Shape
    <2>5. /\ \A d \in Entry : call'[d] = IF owner[d] = p /\ call[d] \in {"init", "queued"} THEN "lost" ELSE call[d]
          /\ took' = took \cup S /\ unsure' = unsure
      BY <1>7, <2>1 DEF Crash, Stored
    <2>6. \A d \in Entry : owner[d] \in Pod
      BY DEF Shape
    <2>. QED
      BY <1>1, <2>3, <2>4, <2>5, <2>6 DEF Answered
  <1>8. CASE UNCHANGED <<callVars, drainVars, took, unsure>>
    BY <1>8 DEF callVars, drainVars, Answered, Buffered
  <1>. QED
    BY <1>3, <1>4, <1>5, <1>6, <1>7, <1>8
    DEF Next, vars, Tick, Clear, ClearStep, Flushed, DeleteAll, PruneStart, PruneStep,
        PrunePosition, PruneEdge, PruneDelete, tableVars

LEMMA AnswersFollow == Shape /\ InOrder /\ Answered => AnswersAreTrue
  <1>. SUFFICES ASSUME Shape, InOrder, Answered PROVE AnswersAreTrue
    OBVIOUS
  <1>1. \A q \in Pod : \A e \in Buffered(q) : call[e] = "queued"
    BY DEF InOrder, Ordered
  <1>2. \A e \in Entry : owner[e] \in Pod
    BY DEF Shape
  <1>. QED
    BY <1>1, <1>2 DEF AnswersAreTrue, Answered, Shape

-----------------------------------------------------------------------------
(* What clear() deleted                                                    *)

SinglePod == \A p, q \in Pod : p = q

\* What a clear() under way covers is out of its pod's buffers once it deletes, and waits at
\* another pod only as a row whose INSERT that pod believes failed; what it deleted comes back
\* only that way.
Covered ==
  /\ \A p \in Pod : \A e \in covers[p] :
       /\ call[e] \notin {"none", "init"}
       /\ clearing[p] = "delete" => e \notin Buffered(p)
       /\ \A q \in Pod \ {p} : e \in Buffered(q) => e \in unsure
  /\ \A e \in cleared :
       /\ call[e] \notin {"none", "init"}
       /\ \/ e \notin table /\ \A q \in Pod : e \notin Buffered(q)
          \/ e \in unsure /\ ~ SinglePod

LEMMA CoveredInit == Init => Covered
  BY DEF Init, Covered

LEMMA CoveredStep ==
  ASSUME Shape, InOrder, Answered, Covered, Next \/ UNCHANGED vars
  PROVE  Covered'
  <1>1. /\ unsure \subseteq unsure'
        /\ \A e \in table' \ table : \E p \in Pod : e \in ToSet(batch[p])
        /\ \A q \in Pod : \A e \in Buffered(q)' \ Buffered(q) : call[e] = "init"
        /\ \A e \in Entry : call[e] \notin {"none", "init"} => call'[e] \notin {"none", "init"}
    BY Movement
  <1>2. covers \in [Pod -> SUBSET Entry] /\ cleared \subseteq Entry
    BY DEF Shape
  <1>3. \A q \in Pod : \A e \in Buffered(q) : e \in Entry /\ owner[e] = q /\ call[e] = "queued"
    BY BufferedElements DEF InOrder, Ordered
  <1>4. ASSUME \A p \in Pod : covers'[p] \subseteq covers[p] /\ (clearing'[p] = "delete" => clearing[p] = "delete" \/ covers'[p] = {}),
               cleared' = cleared
        PROVE  Covered'
    <2>1. ASSUME NEW p \in Pod, NEW e \in covers'[p]
          PROVE  /\ call'[e] \notin {"none", "init"}
                 /\ clearing'[p] = "delete" => e \notin Buffered(p)'
                 /\ \A q \in Pod \ {p} : e \in Buffered(q)' => e \in unsure'
      <3>1. e \in covers[p] /\ e \in Entry /\ call[e] \notin {"none", "init"}
        BY <1>2, <1>4, <2>1 DEF Covered
      <3>. QED
        BY <1>1, <1>4, <2>1, <3>1 DEF Covered
    <2>2. ASSUME NEW e \in cleared
          PROVE  /\ call'[e] \notin {"none", "init"}
                 /\ \/ e \notin table' /\ \A q \in Pod : e \notin Buffered(q)'
                    \/ e \in unsure' /\ ~ SinglePod
      <3>1. e \in Entry /\ call[e] \notin {"none", "init"}
        BY <1>2 DEF Covered
      <3>2. \A q \in Pod : ToSet(batch[q]) \subseteq Buffered(q)
        BY DEF Buffered
      <3>. QED
        BY <1>1, <3>1, <3>2 DEF Covered
    <2>. QED
      BY <1>4, <2>1, <2>2 DEF Covered, SinglePod
  <1>5. ASSUME NEW p \in Pod, Clear(p)
        PROVE  Covered'
    <2>1. /\ clearing' = [clearing EXCEPT ![p] = "flush"]
          /\ covers' = [covers EXCEPT ![p] = table \cup Buffered(p)]
          /\ UNCHANGED <<call, pending, batch, cleared, table, took, unsure>>
      BY <1>5 DEF Clear, callVars, drainVars, tableVars
    <2>2. \A q \in Pod : Buffered(q)' = Buffered(q)
      BY <2>1 DEF Buffered
    <2>3. \A e \in table \cup Buffered(p) :
            /\ call[e] \notin {"none", "init"}
            /\ \A q \in Pod \ {p} : e \in Buffered(q) => e \in unsure
      BY <1>3 DEF Answered, Shape
    <2>4. clearing \in [Pod -> {"no", "flush", "delete"}]
      BY DEF Shape
    <2>. QED
      BY <1>2, <2>1, <2>2, <2>3, <2>4 DEF Covered
  <1>6. ASSUME NEW p \in Pod, Flushed(p)
        PROVE  Covered'
    <2>1. pending[p] = <<>> /\ batch[p] = <<>>
      BY <1>6 DEF Flushed, Shape, NoWriteStranded
    <2>2. Buffered(p) = {}
      BY <2>1, NothingIn DEF Buffered
    <2>3. /\ clearing' = [clearing EXCEPT ![p] = "delete"]
          /\ UNCHANGED <<call, pending, batch, covers, cleared, table, took, unsure>>
      BY <1>6 DEF Flushed, callVars, drainVars, tableVars
    <2>4. \A q \in Pod : Buffered(q)' = Buffered(q)
      BY <2>3 DEF Buffered
    <2>5. clearing \in [Pod -> {"no", "flush", "delete"}]
      BY DEF Shape
    <2>. QED
      BY <2>2, <2>3, <2>4, <2>5 DEF Covered
  <1>7. ASSUME NEW p \in Pod, DeleteAll(p)
        PROVE  Covered'
    <2>1. /\ clearing[p] = "delete" /\ table' = {} /\ cleared' = cleared \cup covers[p]
          /\ clearing' = [clearing EXCEPT ![p] = "no"]
          /\ covers' = [covers EXCEPT ![p] = {}]
          /\ UNCHANGED <<call, pending, batch, took, unsure>>
      BY <1>7 DEF DeleteAll, callVars, drainVars
    <2>2. \A q \in Pod : Buffered(q)' = Buffered(q)
      BY <2>1 DEF Buffered
    <2>3. \A e \in covers[p] : \/ \A q \in Pod : e \notin Buffered(q)
                               \/ e \in unsure /\ ~ SinglePod
      BY <2>1 DEF Covered, SinglePod
    <2>4. clearing \in [Pod -> {"no", "flush", "delete"}]
      BY DEF Shape
    <2>. QED
      BY <1>2, <2>1, <2>2, <2>3, <2>4 DEF Covered
  <1>8. ASSUME NEW p \in Pod, Crash(p)
        PROVE  Covered'
    BY <1>2, <1>4, <1>8 DEF Crash, Shape
  <1>9. CASE UNCHANGED clearVars
    BY <1>4, <1>9 DEF clearVars
  <1>. QED
    BY <1>5, <1>6, <1>7, <1>8, <1>9
    DEF Next, vars, Tick, Record, Queue, InitStep, InitBegins, InitDone, InitFails, DrainStep,
        TakeBatch, InsertBatch, InsertBatchFails, InsertOne, DrainEnds, DrainAgain, ClearStep,
        PruneStart, PruneStep, PrunePosition, PruneEdge, PruneDelete

-----------------------------------------------------------------------------
(* The order of the table                                                  *)

\* No two waiting rows of a pod share a sequence.
LEMMA WaitingApart ==
  ASSUME Shape, NEW p \in Pod, Ordered(p), NEW d \in Buffered(p), NEW e \in Buffered(p), d # e
  PROVE  seq[d] # seq[e]
  <1>1. \A c \in Entry : seq[c] \in Nat
    BY DEF Shape
  <1>2. /\ Len(pending[p]) \in Nat /\ Len(batch[p]) \in Nat
        /\ \A i \in 1 .. Len(pending[p]) : pending[p][i] \in Entry
        /\ \A i \in 1 .. Len(batch[p]) : batch[p][i] \in Entry
    BY BufferedElements DEF Buffered
  <1>3. ASSUME NEW s \in {pending[p], batch[p]}, NEW i \in 1 .. Len(s), NEW j \in 1 .. Len(s), s[i] # s[j]
        PROVE  seq[s[i]] # seq[s[j]]
    <2>1. Rising(s) /\ s[i] \in Entry /\ s[j] \in Entry /\ i # j
      BY <1>2, <1>3 DEF Ordered
    <2>2. i \in Int /\ j \in Int
      BY <1>2
    <2>3. i < j \/ j < i
      BY <2>1, <2>2
    <2>. QED
      BY <1>1, <2>1, <2>3 DEF Rising
  <1>4. ASSUME NEW i \in 1 .. Len(batch[p]), NEW j \in 1 .. Len(pending[p])
        PROVE  seq[batch[p][i]] # seq[pending[p][j]]
    BY <1>1, <1>2 DEF Ordered, Before
  <1>5. \A c \in Buffered(p) : \/ \E i \in 1 .. Len(pending[p]) : c = pending[p][i]
                               \/ \E i \in 1 .. Len(batch[p]) : c = batch[p][i]
    BY BufferedElements DEF Buffered
  <1>. QED
    BY <1>3, <1>4, <1>5

\* With one pod, the counter is past the rows of the table and no two rows, stored or waiting,
\* share a sequence.
Seeded ==
  \A p \in Pod :
    /\ ready[p] = "ok" => \A e \in table : seq[e] < sequence[p]
    /\ \A d, e \in table \cup Buffered(p) : d # e => seq[d] # seq[e]

LEMMA SeededInit == Init => Seeded
  BY NothingIn DEF Init, Seeded, Buffered

LEMMA SeededStep ==
  ASSUME SinglePod, Shape, InOrder, Answered, Seeded, Next \/ UNCHANGED vars
  PROVE  Seeded'
  <1>0. Shape' /\ InOrder'
    BY ShapeStep, InOrderStep
  <1>. SUFFICES ASSUME NEW p \in Pod
                PROVE  /\ ready'[p] = "ok" => \A e \in table' : seq'[e] < sequence'[p]
                       /\ \A d, e \in table' \cup Buffered(p)' : d # e => seq'[d] # seq'[e]
    BY DEF Seeded
  <1>1. /\ \A e \in table' \ table : e \in ToSet(batch[p])
        /\ \A e \in Buffered(p)' \ Buffered(p) : call[e] = "init" /\ owner[e] = p
        /\ \A e \in Entry : call[e] # "init" => seq'[e] = seq[e]
    BY Movement DEF SinglePod
  <1>2. \A e \in table \cup Buffered(p) : e \in Entry /\ call[e] # "init"
    BY BufferedElements DEF InOrder, Ordered, Answered, Shape
  <1>3. /\ \A e \in table : ready[p] = "ok" => seq[e] < sequence[p]
        /\ \A e \in Buffered(p) : ready[p] = "ok" /\ seq[e] < sequence[p]
        /\ \A e \in Entry : seq[e] \in Nat
        /\ sequence[p] \in Nat
    BY NothingIn DEF Seeded, InOrder, Ordered, Shape, Buffered
  <1>4. \A d, e \in table \cup Buffered(p) : d # e => seq[d] # seq[e]
    BY DEF Seeded
  <1>5. ToSet(batch[p]) \subseteq Buffered(p)
    BY DEF Buffered
  <1>6. ASSUME NEW e \in Entry, Queue(e)
        PROVE  /\ ready'[p] = "ok" => \A d \in table' : seq'[d] < sequence'[p]
               /\ \A c, d \in table' \cup Buffered(p)' : c # d => seq'[c] # seq'[d]
    <2>1. owner[e] = p
      BY DEF SinglePod, Shape
    <2>2. /\ Buffered(p)' \subseteq Buffered(p) \cup {e} /\ table' = table /\ ready[p] = "ok"
          /\ call[e] = "init" /\ seq'[e] = sequence[p] /\ sequence'[p] = sequence[p] + 1
      <3>1. Buffered(p)' \subseteq Buffered(p) \cup {e}
        BY <1>6, <2>1, QueueBuffered
      <3>. QED
        BY <1>6, <2>1, <3>1 DEF Queue, tableVars, Shape
    <2>3. \A d \in table \cup Buffered(p) : seq'[d] = seq[d] /\ seq[d] < sequence[p] /\ seq[d] \in Nat
      BY <1>1, <1>2, <1>3, <2>2
    <2>. QED
      BY <1>3, <1>4, <2>2, <2>3
  <1>7. CASE \A e \in Entry : ~ Queue(e)
    <2>1. Buffered(p)' \subseteq Buffered(p)
      <3>1. \A e \in Buffered(p)' : e \in Entry /\ call'[e] = "queued"
        BY <1>0, ElementsOf DEF InOrder, Ordered, Shape, Buffered
      <3>2. ASSUME NEW e \in Entry, call[e] = "init"
            PROVE  call'[e] # "queued"
        <4>1. CASE \E q \in Pod : DrainStep(q)
          BY <3>2, <4>1 DEF DrainStep, TakeBatch, InsertBatch, InsertBatchFails, InsertOne,
                             DrainEnds, DrainAgain, callVars, Settle
        <4>2. CASE \E q \in Pod : InitStep(q) \/ Crash(q)
          BY <3>2, <4>2 DEF InitStep, InitBegins, InitDone, InitFails, Crash, callVars
        <4>3. CASE \E d \in Entry : Record(d)
          BY <3>2, <4>3 DEF Record, Shape
        <4>4. CASE UNCHANGED callVars
          BY <3>2, <4>4 DEF callVars
        <4>. QED
          BY <1>7, <4>1, <4>2, <4>3, <4>4
          DEF Next, vars, Tick, Clear, ClearStep, Flushed, DeleteAll, PruneStart, PruneStep,
              PrunePosition, PruneEdge, PruneDelete
      <3>. QED
        BY <1>1, <3>1, <3>2
    <2>2. \A e \in table' \cup Buffered(p)' : e \in table \cup Buffered(p) /\ seq'[e] = seq[e]
      BY <1>1, <1>2, <1>5, <2>1
    <2>3. ASSUME ready'[p] = "ok"
          PROVE  \A e \in table' : seq'[e] < sequence'[p]
      <3>1. CASE InitDone(p)
        <4>1. /\ sequence'[p] = Max({-1} \cup {seq[e] : e \in table}) + 1 /\ UNCHANGED <<seq, table>>
          BY <3>1 DEF InitDone, callVars, tableVars, Shape
        <4>. QED
          BY <4>1, SeedIsNatural
      <3>2. CASE ~ InitDone(p)
        <4>1. ready[p] = "ok" /\ sequence'[p] = sequence[p]
          <5>1. CASE \E e \in Entry : Record(e)
            BY <2>3, <5>1 DEF Record, Begins, Retries, Shape
          <5>2. CASE \E q \in Pod : InitBegins(q) \/ InitFails(q) \/ Crash(q)
            BY <2>3, <5>2 DEF InitBegins, InitFails, Crash, SinglePod, Shape
          <5>3. CASE UNCHANGED initVars
            BY <2>3, <5>3 DEF initVars
          <5>4. CASE \E q \in Pod : InitDone(q)
            BY <3>2, <5>4 DEF SinglePod
          <5>. QED
            BY <1>7, <5>1, <5>2, <5>3, <5>4
            DEF Next, vars, Tick, InitStep, DrainStep, TakeBatch, InsertBatch, InsertBatchFails,
                InsertOne, DrainEnds, DrainAgain, Clear, ClearStep, Flushed, DeleteAll,
                PruneStart, PruneStep, PrunePosition, PruneEdge, PruneDelete
        <4>. QED
          BY <1>3, <2>2, <4>1
      <3>. QED
        BY <3>1, <3>2
    <2>. QED
      BY <1>4, <2>2, <2>3
  <1>. QED
    BY <1>6, <1>7

-----------------------------------------------------------------------------
(* The newest rows                                                         *)

\* Of some rows, with the time and the number of each, those before a cutoff and newer than a
\* position.
NewerOf(rows, time, number, cutoff, b) ==
  {d \in rows : time[d] < cutoff /\ IsNewer(<<time[d], number[d]>>, b)}
NewerThan(cutoff, b) == NewerOf(took, at, seq, cutoff, b)

\* Where a prune with keepLast counts its batches from has KeepLast newer rows behind it.
Kept ==
  \A p \in Pod :
    prune[p].step \in {"edge", "delete"} /\ KeepLast >= 0 =>
      /\ prune[p].from # {}
      /\ \A b \in prune[p].from : Cardinality(NewerThan(prune[p].cutoff, b)) >= KeepLast

LEMMA KeptInit == Init => Kept
  BY DEF Init, Kept, Idle

\* More rows are never fewer newer ones.
LEMMA NewerGrows ==
  ASSUME Shape, InOrder, Answered, Next \/ UNCHANGED vars, NEW cutoff, NEW b
  PROVE  /\ Cardinality(NewerOf(took, at, seq, cutoff, b)) \in Nat
         /\ Cardinality(NewerOf(took', at', seq', cutoff, b)) \in Nat
         /\ Cardinality(NewerOf(took, at, seq, cutoff, b))
              <= Cardinality(NewerOf(took', at', seq', cutoff, b))
  <1>1. IsFiniteSet(took) /\ IsFiniteSet(took') /\ took \subseteq took' /\ took \subseteq Entry
    BY ShapeStep, Movement DEF Shape
  <1>2. \A d \in took : at'[d] = at[d] /\ seq'[d] = seq[d]
    BY <1>1, Movement DEF Answered
  <1>. DEFINE before == NewerOf(took, at, seq, cutoff, b)
              after == NewerOf(took', at', seq', cutoff, b)
  <1>3. before \subseteq after
    BY <1>1, <1>2 DEF NewerOf
  <1>4. before \subseteq took /\ after \subseteq took'
    BY DEF NewerOf
  <1>. HIDE DEF before, after
  <1>5. IsFiniteSet(before) /\ IsFiniteSet(after)
    BY <1>1, <1>4, FS_Subset
  <1>6. Cardinality(before) \in Nat /\ Cardinality(after) \in Nat
    BY <1>5, FS_CardinalityType
  <1>7. Cardinality(before) <= Cardinality(after)
    BY <1>3, <1>5, FS_Subset
  <1>. QED
    BY <1>6, <1>7 DEF before, after

\* Rows that share no sequence share no position.
LEMMA PositionsApart ==
  ASSUME SinglePod, Shape, Seeded, NEW d \in table, NEW e \in table, Position(d) = Position(e)
  PROVE  d = e
  <1>1. owner[d] \in Pod
    BY DEF Shape
  <1>2. seq[d] = seq[e]
    BY DEF Position
  <1>. QED
    BY <1>1, <1>2 DEF Seeded

\* The position a prune starts from has KeepLast of the old rows past it: all that are not
\* older, but for its own.
LEMMA FromHasNewer ==
  ASSUME SinglePod, Shape, Seeded, NEW cutoff \in Int, NEW x \in Older(cutoff),
         Cardinality({e \in Older(cutoff) : ~ IsNewer(Position(x), Position(e))}) > KeepLast
  PROVE  Cardinality(NewerThan(cutoff, Position(x))) >= KeepLast
  <1>. DEFINE W == Older(cutoff)
              atOrPast == {e \in W : ~ IsNewer(Position(x), Position(e))}
              past == {e \in W : IsNewer(Position(e), Position(x))}
  <1>1. W \subseteq took /\ IsFiniteSet(took) /\ W \subseteq table
    BY DEF Older, Shape
  <1>2. \A e \in W : at[e] \in Int /\ seq[e] \in Int
    BY <1>1 DEF Shape
  <1>3. atOrPast \subseteq past \cup {x}
    <2>1. ASSUME NEW e \in W, ~ IsNewer(Position(x), Position(e)), ~ IsNewer(Position(e), Position(x))
          PROVE  e = x
      <3>1. Position(e) = Position(x)
        BY <1>2, <2>1 DEF IsNewer, Position
      <3>. QED
        BY <1>1, <3>1, PositionsApart
    <2>. QED
      BY <2>1
  <1>4. past \subseteq NewerThan(cutoff, Position(x)) /\ NewerThan(cutoff, Position(x)) \subseteq took
    BY <1>1 DEF NewerThan, NewerOf, Older, Position
  <1>. HIDE DEF past, atOrPast
  <1>5. IsFiniteSet(NewerThan(cutoff, Position(x)))
    BY <1>1, <1>4, FS_Subset
  <1>6. IsFiniteSet(past) /\ Cardinality(past) <= Cardinality(NewerThan(cutoff, Position(x)))
    BY <1>4, <1>5, FS_Subset
  <1>7. IsFiniteSet(past \cup {x}) /\ Cardinality(past \cup {x}) <= Cardinality(past) + 1
        /\ Cardinality(past) \in Nat
    <2>1. Cardinality(past) \in Nat
      BY <1>6, FS_CardinalityType
    <2>2. /\ IsFiniteSet(past \cup {x})
          /\ Cardinality(past \cup {x}) = IF x \in past THEN Cardinality(past) ELSE Cardinality(past) + 1
      BY <1>6, FS_AddElement
    <2>. QED
      BY <2>1, <2>2
  <1>8. Cardinality(atOrPast) <= Cardinality(past \cup {x}) /\ Cardinality(atOrPast) \in Nat
        /\ Cardinality(past \cup {x}) \in Nat
    BY <1>3, <1>7, FS_Subset, FS_CardinalityType
  <1>9. Cardinality(NewerThan(cutoff, Position(x))) \in Nat /\ Cardinality(atOrPast) > KeepLast
    BY <1>5, FS_CardinalityType DEF atOrPast
  <1>. QED
    BY <1>6, <1>7, <1>8, <1>9, LucidAssumption

LEMMA KeptStep ==
  ASSUME SinglePod, Shape, InOrder, Answered, Seeded, Kept, Next \/ UNCHANGED vars
  PROVE  Kept'
  <1>1. prune \in [Pod -> PruneState] /\ prune' \in [Pod -> PruneState]
    BY ShapeStep DEF Shape
  <1>. SUFFICES ASSUME NEW p \in Pod, prune'[p].step \in {"edge", "delete"}, KeepLast >= 0
                PROVE  /\ prune'[p].from # {}
                       /\ \A b \in prune'[p].from :
                            Cardinality(NewerOf(took', at', seq', prune'[p].cutoff, b)) >= KeepLast
    BY DEF Kept, NewerThan
  <1>2. ASSUME NEW from, NEW cutoff, from # {},
               \A b \in from : Cardinality(NewerOf(took, at, seq, cutoff, b)) >= KeepLast
        PROVE  \A b \in from : Cardinality(NewerOf(took', at', seq', cutoff, b)) >= KeepLast
    <2>. SUFFICES ASSUME NEW b \in from
                  PROVE  Cardinality(NewerOf(took', at', seq', cutoff, b)) >= KeepLast
      OBVIOUS
    <2>1. /\ Cardinality(NewerOf(took, at, seq, cutoff, b)) \in Nat
          /\ Cardinality(NewerOf(took', at', seq', cutoff, b)) \in Nat
          /\ Cardinality(NewerOf(took, at, seq, cutoff, b))
               <= Cardinality(NewerOf(took', at', seq', cutoff, b))
      BY NewerGrows
    <2>2. Cardinality(NewerOf(took, at, seq, cutoff, b)) >= KeepLast
      BY <1>2
    <2>. QED
      BY <2>1, <2>2, LucidAssumption
  <1>3. ASSUME prune[p].step \in {"edge", "delete"},
               prune'[p].from = prune[p].from, prune'[p].cutoff = prune[p].cutoff
        PROVE  /\ prune'[p].from # {}
               /\ \A b \in prune'[p].from :
                    Cardinality(NewerOf(took', at', seq', prune'[p].cutoff, b)) >= KeepLast
    <2>1. /\ prune[p].from # {}
          /\ \A b \in prune[p].from : Cardinality(NewerOf(took, at, seq, prune[p].cutoff, b)) >= KeepLast
      BY <1>3 DEF Kept, NewerThan
    <2>2. \A b \in prune[p].from : Cardinality(NewerOf(took', at', seq', prune[p].cutoff, b)) >= KeepLast
      BY <1>2, <2>1
    <2>. QED
      BY <1>3, <2>1, <2>2
  <1>4. CASE prune'[p] = prune[p]
    BY <1>3, <1>4
  <1>5. CASE PruneStart(p)
    <2>1. prune'[p] = [Idle EXCEPT !.step = IF KeepLast < 0 THEN "edge" ELSE "position",
                                   !.cutoff = now - Retention]
      BY <1>1, <1>5 DEF PruneStart
    <2>2. prune'[p].step = "position"
      BY <2>1, LucidAssumption DEF Idle
    <2>. QED
      BY <2>2
  <1>6. CASE PrunePosition(p)
    <2>. DEFINE W == Older(prune[p].cutoff)
                found == {b \in {Position(e) : e \in W} :
                  /\ Cardinality({e \in W : IsNewer(Position(e), b)}) <= KeepLast
                  /\ Cardinality({e \in W : ~ IsNewer(b, Position(e))}) > KeepLast}
    <2>1. prune'[p] = IF found = {} THEN Idle ELSE [prune[p] EXCEPT !.step = "edge", !.from = found]
      BY <1>1, <1>6 DEF PrunePosition
    <2>2. prune[p].cutoff \in Int
      BY <1>1 DEF PruneState
    <2>3. ASSUME NEW b \in found
          PROVE  Cardinality(NewerOf(took, at, seq, prune[p].cutoff, b)) >= KeepLast
      <3>1. PICK x \in W : b = Position(x)
        BY <2>3
      <3>2. Cardinality({e \in Older(prune[p].cutoff) : ~ IsNewer(Position(x), Position(e))}) > KeepLast
        BY <2>3, <3>1
      <3>. QED
        BY <2>2, <3>1, <3>2, FromHasNewer DEF NewerThan
    <2>. HIDE DEF found
    <2>4. found # {}
      BY <2>1 DEF Idle
    <2>5. prune'[p].from = found /\ prune'[p].cutoff = prune[p].cutoff
      BY <1>1, <2>1, <2>4 DEF PruneState
    <2>6. \A b \in found : Cardinality(NewerOf(took', at', seq', prune[p].cutoff, b)) >= KeepLast
      BY <1>2, <2>3, <2>4
    <2>. QED
      BY <2>4, <2>5, <2>6
  <1>7. CASE PruneEdge(p)
    <2>1. PICK found : prune'[p] = [prune[p] EXCEPT !.step = "delete", !.edge = found]
      BY <1>1, <1>7 DEF PruneEdge
    <2>2. prune[p].step = "edge"
      BY <1>7 DEF PruneEdge
    <2>. QED
      BY <1>1, <1>3, <2>1, <2>2 DEF PruneState
  <1>8. CASE PruneDelete(p)
    <2>1. prune'[p] = IF prune[p].edge = {} THEN Idle ELSE [prune[p] EXCEPT !.step = "edge", !.edge = {}]
      BY <1>1, <1>8 DEF PruneDelete
    <2>2. prune'[p] = [prune[p] EXCEPT !.step = "edge", !.edge = {}]
      BY <2>1 DEF Idle
    <2>3. prune[p].step = "delete"
      BY <1>8 DEF PruneDelete
    <2>. QED
      BY <1>1, <1>3, <2>2, <2>3 DEF PruneState
  <1>9. CASE Crash(p)
    BY <1>1, <1>9 DEF Crash, Idle
  <1>. QED
    <2>1. ASSUME NEW q \in Pod, PruneStart(q) \/ PruneStep(q) \/ Crash(q)
          PROVE  p = q
      BY DEF SinglePod
    <2>. QED
      BY <1>4, <1>5, <1>6, <1>7, <1>8, <1>9, <2>1
      DEF Next, vars, Tick, Record, Queue, InitStep, InitBegins, InitDone, InitFails, DrainStep,
          TakeBatch, InsertBatch, InsertBatchFails, InsertOne, DrainEnds, DrainAgain, Clear,
          ClearStep, Flushed, DeleteAll, PruneStep

\* What is not newer than a position has whatever is newer than that position past it.
LEMMA NewerThrough ==
  ASSUME NEW a \in Pair, NEW b \in Pair, NEW c \in Pair, ~ IsNewer(a, b), IsNewer(c, b)
  PROVE  IsNewer(c, a)
  <1>1. /\ a[1] \in Int /\ a[2] \in Int /\ b[1] \in Int /\ b[2] \in Int /\ c[1] \in Int /\ c[2] \in Int
    BY DEF Pair
  <1>. QED
    BY <1>1 DEF IsNewer

\* What a batch of a prune deletes has KeepLast newer rows.
LEMMA PruneTakesOlder ==
  ASSUME Shape, Kept, NEW p \in Pod, PruneDelete(p), NEW e \in table \ table'
  PROVE  Cardinality({d \in took : at[d] < prune[p].cutoff /\ IsNewer(Position(d), Position(e))}) >= KeepLast
  <1>. DEFINE newer == {d \in took : at[d] < prune[p].cutoff /\ IsNewer(Position(d), Position(e))}
  <1>1. IsFiniteSet(took) /\ newer \subseteq took /\ took \subseteq Entry /\ e \in Entry
    BY DEF Shape
  <1>2. IsFiniteSet(newer)
    BY <1>1, FS_Subset
  <1>. HIDE DEF newer
  <1>3. Cardinality(newer) \in Nat
    BY <1>2, FS_CardinalityType
  <1>4. CASE KeepLast < 0
    BY <1>3, <1>4, LucidAssumption DEF newer
  <1>5. CASE KeepLast >= 0
    <2>1. prune[p].step = "delete" /\ e \in Doomed(prune[p])
      BY DEF PruneDelete
    <2>2. PICK b \in prune[p].from : Cardinality(NewerThan(prune[p].cutoff, b)) >= KeepLast
      BY <1>5, <2>1 DEF Kept
    <2>3. ~ IsNewer(Position(e), b) /\ b \in Pair
      BY <2>1, <2>2 DEF Doomed, Shape, PruneState
    <2>4. \A d \in Entry : Position(d) \in Pair
      BY DEF Position, Pair, Shape
    <2>5. \A d \in Entry : IsNewer(Position(d), b) => IsNewer(Position(d), Position(e))
      BY <1>1, <2>3, <2>4, NewerThrough
    <2>6. NewerThan(prune[p].cutoff, b) \subseteq newer
      BY <1>1, <2>5 DEF NewerThan, NewerOf, newer, Position
    <2>7. /\ Cardinality(NewerThan(prune[p].cutoff, b)) <= Cardinality(newer)
          /\ Cardinality(NewerThan(prune[p].cutoff, b)) \in Nat
      BY <1>2, <2>6, FS_Subset, FS_CardinalityType
    <2>. QED
      BY <1>3, <2>2, <2>7, LucidAssumption DEF newer
  <1>. QED
    BY <1>4, <1>5, LucidAssumption

-----------------------------------------------------------------------------
(* The writes, in every behaviour of the store                             *)

LucidInv == Shape /\ InOrder /\ Answered /\ Covered
OnePodInv == LucidInv /\ Seeded /\ Kept

\* A step of the whole store is one of its writes or leaves what they know alone.
LEMMA WritesOrNot == [StoreNext]_sqlStoreVars => Next \/ UNCHANGED vars
  BY DEF StoreNext, Writing, Booting, Counting, sqlStoreVars

LEMMA LucidInvHolds == StoreSpec => []LucidInv
  <1>1. StoreInit => LucidInv
    BY ShapeInit, InOrderInit, AnsweredInit, CoveredInit DEF StoreInit, LucidInv
  <1>2. LucidInv /\ [StoreNext]_sqlStoreVars => LucidInv'
    BY WritesOrNot, ShapeStep, InOrderStep, AnsweredStep, CoveredStep DEF LucidInv
  <1>. QED
    BY <1>1, <1>2, PTL DEF StoreSpec

LEMMA OnePodInvHolds == ASSUME SinglePod PROVE StoreSpec => []OnePodInv
  <1>1. StoreInit => OnePodInv
    BY ShapeInit, InOrderInit, AnsweredInit, CoveredInit, SeededInit, KeptInit
    DEF StoreInit, LucidInv, OnePodInv
  <1>2. OnePodInv /\ [StoreNext]_sqlStoreVars => OnePodInv'
    BY WritesOrNot, ShapeStep, InOrderStep, AnsweredStep, CoveredStep, SeededStep, KeptStep
    DEF LucidInv, OnePodInv
  <1>. QED
    BY <1>1, <1>2, PTL DEF StoreSpec

\* Every variable of the writes keeps its type, the buffer its cap and the batch its size, for
\* any calls, pods and sizes (LucidTelescopeStore).
THEOREM TypeCorrect == StoreSpec => []TypeOK
  <1>1. LucidInv => TypeOK
    BY DEF LucidInv, Shape, TypeOK, Answer, Drain
  <1>. QED
    BY <1>1, LucidInvHolds, PTL

\* Whatever fails, crashes or answers late, what record() told its caller is true, but for a
\* failure whose INSERT, of the batch or of the row, had committed (`unsure`); a call waits exactly
\* while its row is buffered, and its drain is there, for any number of pods (record, writeBatch,
\* scheduleDrain).
THEOREM AnswersStayTrue == StoreSpec => []AnswersAreTrue
  <1>1. LucidInv => AnswersAreTrue
    BY AnswersFollow DEF LucidInv
  <1>. QED
    BY <1>1, LucidInvHolds, PTL

\* With any number of pods, a row that clear() covered is back only when its INSERT had committed
\* and another pod, told that it failed, inserted it again (clear, flush).
THEOREM ClearedReturnOnlyUnsure == StoreSpec => [](cleared \cap table \subseteq unsure)
  <1>1. LucidInv => cleared \cap table \subseteq unsure
    BY DEF LucidInv, Covered
  <1>. QED
    BY <1>1, LucidInvHolds, PTL

\* With one pod, what clear() covered stays gone once it returned (clear, flush).
THEOREM ClearedStays == ASSUME SinglePod PROVE StoreSpec => []ClearedStaysGone
  <1>1. LucidInv => ClearedStaysGone
    BY DEF LucidInv, Covered, ClearedStaysGone
  <1>. QED
    BY <1>1, LucidInvHolds, PTL

\* A pod's rows reach the table in the order it recorded them.
LEMMA InsertedInOrder ==
  ASSUME Shape, InOrder, Next \/ UNCHANGED vars,
         NEW e \in table' \ table, NEW d \in Entry, owner[d] = owner[e], seq[d] < seq[e]
  PROVE  d \notin ToSet(pending'[owner[e]])
  <1>1. PICK p \in Pod : e \in ToSet(batch[p]) /\ pending'[p] \in {pending[p], <<>>}
    BY Movement
  <1>2. owner[e] = p /\ e \in Entry
    BY <1>1, BufferedElements DEF InOrder, Ordered, Buffered
  <1>3. PICK i \in 1 .. Len(batch[p]) : e = batch[p][i]
    BY <1>1, BufferedElements
  <1>4. ASSUME d \in ToSet(pending[p])
        PROVE  FALSE
    <2>1. PICK j \in 1 .. Len(pending[p]) : d = pending[p][j]
      BY <1>4, BufferedElements
    <2>2. seq[e] < seq[d] /\ seq[e] \in Nat /\ seq[d] \in Nat
      <3>1. seq[batch[p][i]] < seq[pending[p][j]]
        BY DEF InOrder, Ordered, Before
      <3>. QED
        BY <1>2, <1>3, <2>1, <3>1 DEF Shape
    <2>. QED
      BY <2>2
  <1>. QED
    BY <1>1, <1>2, <1>4, NothingIn

\* With any number of pods, no row is inserted while an older one of its pod still waits
\* (takeBatch, the single drain).
THEOREM InsertsKeepOrder ==
  StoreSpec => [][\A d, e \in Entry :
                    (/\ e \in table' \ table
                     /\ owner[d] = owner[e]
                     /\ seq[d] < seq[e]) => d \notin ToSet(pending'[owner[e]])]_vars
  <1>1. LucidInv /\ [StoreNext]_sqlStoreVars =>
          [\A d, e \in Entry :
             (/\ e \in table' \ table
              /\ owner[d] = owner[e]
              /\ seq[d] < seq[e]) => d \notin ToSet(pending'[owner[e]])]_vars
    BY WritesOrNot, InsertedInOrder DEF LucidInv
  <1>. QED
    BY <1>1, LucidInvHolds, PTL DEF StoreSpec

\* With one pod, no two rows of the table share a position, over every restart, and rows go in in
\* the order they were recorded (doInit, takeBatch).
THEOREM OrderIsKept == ASSUME SinglePod PROVE StoreSpec => RowsKeepOrder
  <1>1. OnePodInv => PositionsAreUnique
    BY PositionsApart DEF OnePodInv, LucidInv, PositionsAreUnique
  <1>2. OnePodInv /\ [StoreNext]_sqlStoreVars =>
          [\A d, e \in Entry :
             (/\ e \in table' \ table
              /\ owner[d] = owner[e]
              /\ seq[d] < seq[e]) => d \notin ToSet(pending'[owner[e]])]_vars
    BY WritesOrNot, InsertedInOrder DEF OnePodInv, LucidInv
  <1>. QED
    BY <1>1, <1>2, OnePodInvHolds, PTL DEF StoreSpec, RowsKeepOrder

\* With one pod, a prune with keepLast deletes no row that has fewer than KeepLast newer ones,
\* whatever is inserted or cleared between its queries (prune, atOrBefore).
THEOREM NewestAreKept == ASSUME SinglePod PROVE StoreSpec => KeepsNewest
  <1>1. ASSUME OnePodInv, StoreNext, NEW p \in Pod, NEW e \in table \ table',
               prune[p].step = "delete", prune'[p] # prune[p], ready'[p] = "ok"
        PROVE  Cardinality({d \in took : at[d] < prune[p].cutoff /\ IsNewer(Position(d), Position(e))})
                 >= KeepLast
    <2>1. Next
      BY <1>1 DEF StoreNext, Writing, Booting, Counting, vars
    <2>2. \A q \in Pod : q = p
      BY DEF SinglePod
    <2>3. prune[p] # Idle /\ ~ PrunePosition(p) /\ ~ PruneEdge(p) /\ ~ PruneStart(p)
      BY <1>1 DEF Idle, PrunePosition, PruneEdge, PruneStart
    <2>4. ~ Crash(p)
      BY <1>1 DEF Crash, OnePodInv, LucidInv, Shape
    <2>5. PruneDelete(p)
      BY <1>1, <2>1, <2>2, <2>3, <2>4
      DEF Next, Tick, Record, Queue, InitStep, InitBegins, InitDone, InitFails, DrainStep,
          TakeBatch, InsertBatch, InsertBatchFails, InsertOne, DrainEnds, DrainAgain, Clear,
          ClearStep, Flushed, DeleteAll, PruneStep
    <2>. QED
      BY <1>1, <2>5, PruneTakesOlder DEF OnePodInv, LucidInv
  <1>2. OnePodInv /\ [StoreNext]_sqlStoreVars =>
          [\A p \in Pod, e \in table \ table' :
             prune[p].step = "delete" /\ prune'[p] # prune[p] /\ ready'[p] = "ok" =>
               Cardinality({d \in took : at[d] < prune[p].cutoff /\ IsNewer(Position(d), Position(e))})
                 >= KeepLast]_vars
    BY <1>1 DEF sqlStoreVars
  <1>. QED
    BY <1>2, OnePodInvHolds, PTL DEF StoreSpec, KeepsNewest

-----------------------------------------------------------------------------
(* The schema                                                              *)

BootState == [how : {"creates", "migrated", "script"}, schema : DOMAIN Schema,
              step : {"idle", "issue", "commit", "read", "unmark", "mark", "seed", "ready", "failed"},
              at : Nat, attempt : Nat, why : {"none", "race", "no table", "database"}]

\* Where a process may be: who leaves the table to a migration issues no statement, and a script
\* writes no marker.
Placed(b) ==
  /\ b \in BootState /\ b.at <= Len(Schema[b.schema])
  /\ b.step \in {"issue", "commit"} => b.how # "migrated" /\ (b.at = 0 => b.how = "creates")
  /\ b.step \in {"read", "unmark", "mark"} => b.how = "creates"
  /\ b.how = "script" => b.step # "seed"

ObjectAt(b) == IF b.at = 0 THEN "meta" ELSE Schema[b.schema][b.at]

\* The statement a process is at has lost a race once at most, and once more when the table was
\* dropped between; what it would lose the next race to is there, and will be found.
RaceEnds(b, present, dropped) ==
  /\ b.step = "commit" => b.attempt = 1 \/ (dropped /\ b.attempt = 2)
  /\ b.step = "issue" => \/ b.attempt = 1
                         \/ b.attempt = 2 /\ (dropped \/ ObjectAt(b) \in present)
                         \/ b.attempt = 3 /\ dropped /\ ObjectAt(b) \in present
  /\ b.why # "race"

\* As long as nobody drops the table, what a process has passed is there.
Passed(b, present) ==
  /\ b.step \in {"issue", "commit"} => \A i \in 1 .. b.at - 1 : Schema[b.schema][i] \in present
  /\ b.step \in {"unmark", "mark"} => ObjectsOf(b.schema) \subseteq present
  /\ b.step = "seed" /\ b.how = "creates" => ObjectsOf(b.schema) \subseteq present
  /\ b.step = "ready" =>
       (IF b.how = "migrated" THEN {"table"} ELSE ObjectsOf(b.schema)) \subseteq present
  /\ b.why = "no table" => b.how = "migrated"

Fits(b, present, dropped) ==
  Placed(b) /\ RaceEnds(b, present, dropped) /\ (~ dropped => Passed(b, present))

SchemaInv ==
  /\ dialect \in {"mysql", "other"}
  /\ marker \in {0} \cup DOMAIN Schema /\ rolledBack \in BOOLEAN
  /\ ~ rolledBack /\ marker # 0 => ObjectsOf(marker) \subseteq objects
  /\ boot \in [Booter -> BootState]
  /\ \A p \in Booter : Fits(boot[p], objects, rolledBack)

\* A release has at least the table, which comes first.
LEMMA TableIsFirst ==
  ASSUME NEW v \in DOMAIN Schema
  PROVE  /\ Schema[v] \in Seq(STRING) /\ Len(Schema[v]) \in Nat \ {0} /\ v # 0
         /\ Schema[v][1] = "table" /\ "table" \in ObjectsOf(v)
         /\ DOMAIN Schema[v] = 1 .. Len(Schema[v])
         /\ ObjectsOf(v) = {Schema[v][i] : i \in 1 .. Len(Schema[v])}
         /\ \A i \in 1 .. Len(Schema[v]) : Schema[v][i] \in STRING
  <1>1. Schema[v] \in Seq(STRING) /\ Schema[v] # <<>> /\ Schema[v][1] = "table" /\ v # 0
    BY SchemaAssumption
  <1>2. Len(Schema[v]) \in Nat \ {0} /\ DOMAIN Schema[v] = 1 .. Len(Schema[v])
        /\ \A i \in 1 .. Len(Schema[v]) : Schema[v][i] \in STRING
    BY <1>1, EmptySeq, LenProperties
  <1>. QED
    BY <1>1, <1>2 DEF ObjectsOf

\* A process that has not begun fits any database.
LEMMA AsleepFits ==
  ASSUME NEW how \in {"creates", "migrated", "script"}, NEW v \in DOMAIN Schema,
         NEW present, NEW dropped
  PROVE  Asleep(how, v) \in BootState /\ Fits(Asleep(how, v), present, dropped)
  <1>1. Asleep(how, v) \in BootState
    BY DEF Asleep, BootState
  <1>2. Len(Schema[v]) \in Nat
    BY TableIsFirst
  <1>. QED
    BY <1>1, <1>2 DEF Asleep, Fits, Placed, RaceEnds, Passed

LEMMA SchemaInvInit == SchemaInit => SchemaInv
  <1>. SUFFICES ASSUME SchemaInit PROVE SchemaInv
    OBVIOUS
  <1>1. \A p \in Booter : \E how \in {"creates", "migrated", "script"}, v \in DOMAIN Schema :
                            boot[p] = Asleep(how, v)
    BY DEF SchemaInit
  <1>2. \A p \in Booter : boot[p] \in BootState /\ Fits(boot[p], objects, rolledBack)
    BY <1>1, AsleepFits
  <1>3. boot \in [Booter -> BootState]
    BY <1>2 DEF SchemaInit
  <1>4. dialect \in {"mysql", "other"} /\ marker = 0 /\ rolledBack = FALSE
    BY DEF SchemaInit
  <1>. QED
    BY <1>2, <1>3, <1>4 DEF SchemaInv

\* What fitted still fits when objects only came, or when the table went for the first time.
LEMMA FitsStill ==
  ASSUME NEW b, NEW present, NEW other, NEW dropped \in BOOLEAN, NEW goes \in BOOLEAN,
         Fits(b, present, dropped),
         (present \subseteq other /\ (goes <=> dropped)) \/ (~ dropped /\ goes)
  PROVE  Fits(b, other, goes)
  <1>1. Placed(b) /\ b.attempt \in Nat
    BY DEF Fits, Placed, BootState
  <1>2. RaceEnds(b, other, goes)
    BY <1>1 DEF Fits, RaceEnds
  <1>3. ~ goes => Passed(b, other)
    BY DEF Fits, Passed
  <1>. QED
    BY <1>1, <1>2, <1>3 DEF Fits

\* A process that stops with an error fits, unless it lost its last race or misses the table.
LEMMA FailedFits ==
  ASSUME NEW b, NEW present, NEW dropped \in BOOLEAN, Fits(b, present, dropped),
         NEW why \in {"no table", "database"}, why = "no table" /\ ~ dropped => b.how = "migrated"
  PROVE  Fits([b EXCEPT !.step = "failed", !.why = why], present, dropped)
  <1>. DEFINE c == [b EXCEPT !.step = "failed", !.why = why]
  <1>1. b \in BootState
    BY DEF Fits, Placed
  <1>2. /\ c \in BootState /\ c.step = "failed" /\ c.why = why /\ c.how = b.how /\ c.schema = b.schema
        /\ c.at = b.at
    BY <1>1 DEF BootState
  <1>. HIDE DEF c
  <1>3. Fits(c, present, dropped)
    BY <1>2 DEF Fits, Placed, RaceEnds, Passed
  <1>. QED
    BY <1>3 DEF c

\* A statement fits at its first attempt when those before it are done.
LEMMA StatementFits ==
  ASSUME NEW c \in BootState, NEW present, NEW dropped \in BOOLEAN, c.step = "issue", c.attempt = 1,
         c.at <= Len(Schema[c.schema]), c.how # "migrated", c.at = 0 => c.how = "creates",
         c.why # "race",
         ~ dropped => /\ \A i \in 1 .. c.at - 1 : Schema[c.schema][i] \in present
                      /\ c.why # "no table"
  PROVE  Fits(c, present, dropped)
  BY DEF Fits, Placed, RaceEnds, Passed

\* So does what follows the last statement, or any step at which none is issued.
LEMMA StepFits ==
  ASSUME NEW c \in BootState, NEW present, NEW dropped \in BOOLEAN,
         c.step \in {"read", "unmark", "mark", "seed", "ready"},
         c.at <= Len(Schema[c.schema]), c.why # "race",
         c.step \in {"read", "unmark", "mark"} => c.how = "creates",
         c.step = "seed" => c.how # "script",
         ~ dropped =>
           /\ c.why = "no table" => c.how = "migrated"
           /\ c.step \in {"unmark", "mark"} => ObjectsOf(c.schema) \subseteq present
           /\ c.step = "seed" /\ c.how = "creates" => ObjectsOf(c.schema) \subseteq present
           /\ c.step = "ready" /\ c.how # "migrated" => ObjectsOf(c.schema) \subseteq present
           /\ c.step = "ready" => "table" \in present
  PROVE  Fits(c, present, dropped)
  BY DEF Fits, Placed, RaceEnds, Passed

\* A step of one process, with the objects it adds, leaves the others as they fit.
LEMMA OneProcessMoves ==
  ASSUME SchemaInv, NEW p \in Booter, NEW c \in BootState, Goes(p, c),
         objects \subseteq objects', UNCHANGED <<dialect, rolledBack>>,
         marker' \in {0} \cup DOMAIN Schema,
         ~ rolledBack /\ marker' # 0 => ObjectsOf(marker') \subseteq objects',
         Fits(c, objects', rolledBack)
  PROVE  SchemaInv'
  <1>1. boot' \in [Booter -> BootState] /\ \A q \in Booter : boot'[q] = IF q = p THEN c ELSE boot[q]
    BY DEF Goes, SchemaInv
  <1>2. \A q \in Booter : Fits(boot'[q], objects', rolledBack')
    <2>. SUFFICES ASSUME NEW q \in Booter PROVE Fits(boot'[q], objects', rolledBack')
      OBVIOUS
    <2>1. CASE q = p
      BY <2>1, <1>1
    <2>2. CASE q # p
      <3>1. Fits(boot[q], objects, rolledBack) /\ rolledBack \in BOOLEAN
        BY DEF SchemaInv
      <3>2. Fits(boot[q], objects', rolledBack)
        BY <3>1, FitsStill
      <3>. QED
        BY <2>2, <3>2, <1>1
    <2>. QED
      BY <2>1, <2>2
  <1>. QED
    BY <1>1, <1>2 DEF SchemaInv

\* What SchemaInv says of one process.
LEMMA OneProcess ==
  ASSUME SchemaInv, NEW p \in Booter
  PROVE  /\ boot[p] \in BootState /\ boot[p].schema \in DOMAIN Schema
         /\ Fits(boot[p], objects, rolledBack) /\ Placed(boot[p])
         /\ RaceEnds(boot[p], objects, rolledBack)
         /\ ~ rolledBack => Passed(boot[p], objects)
         /\ boot[p].at \in Nat /\ boot[p].at <= Len(Schema[boot[p].schema])
         /\ boot[p].why \in {"none", "no table", "database"}
         /\ rolledBack \in BOOLEAN
  <1>1. boot[p] \in BootState /\ Fits(boot[p], objects, rolledBack) /\ rolledBack \in BOOLEAN
    BY DEF SchemaInv
  <1>. QED
    BY <1>1 DEF BootState, Fits, Placed, RaceEnds

\* A statement that is done leads to the next, or past the last.
LEMMA AfterFits ==
  ASSUME SchemaInv, NEW p \in Booter, boot[p].step \in {"issue", "commit"},
         NEW present, objects \subseteq present, Object(p) \in present
  PROVE  After(p) \in BootState /\ Fits(After(p), present, rolledBack)
  <1>b. PICK b : b = boot[p]
    OBVIOUS
  <1>s. PICK S : S = Schema[b.schema]
    OBVIOUS
  <1>1. /\ b \in BootState /\ b.at \in Nat /\ b.at <= Len(S) /\ b.why \in {"none", "no table", "database"}
        /\ Placed(b) /\ (~ rolledBack => Passed(b, objects))
        /\ rolledBack \in BOOLEAN /\ b.schema \in DOMAIN Schema
        /\ b.step \in {"issue", "commit"}
    BY OneProcess, <1>b, <1>s
  <1>2. /\ Len(S) \in Nat /\ Len(S) # 0 /\ S[1] = "table" /\ "table" \in ObjectsOf(b.schema)
        /\ ObjectsOf(b.schema) = {S[i] : i \in 1 .. Len(S)}
    BY <1>1, <1>s, TableIsFirst
  <1>3. b.how # "migrated" /\ (b.at = 0 => b.how = "creates")
    BY <1>1 DEF Placed
  <1>4. ~ rolledBack => (\A i \in 1 .. b.at - 1 : S[i] \in present) /\ b.why # "no table"
    BY <1>1, <1>3, <1>s DEF Passed
  <1>n. PICK n \in Nat : n = b.at
    BY <1>1
  <1>l. PICK L \in Nat : L = Len(S)
    BY <1>2
  <1>5. n <= L /\ (~ rolledBack => \A i \in 1 .. n - 1 : S[i] \in present)
    BY <1>1, <1>4, <1>n, <1>l
  <1>6. n # 0 => S[n] \in present
    BY <1>b, <1>s, <1>n DEF Object
  <1>7. ~ rolledBack => \A i \in 1 .. n : S[i] \in present
    <2>. SUFFICES ASSUME ~ rolledBack, NEW i \in 1 .. n PROVE S[i] \in present
      OBVIOUS
    <2>1. i = n \/ i \in 1 .. n - 1
      OBVIOUS
    <2>. QED
      BY <2>1, <1>5, <1>6
  <1>c. PICK c : c = After(p)
    OBVIOUS
  <1>8. b.schema \in DOMAIN Schema /\ b.how \in {"creates", "migrated", "script"}
    BY <1>1 DEF BootState
  <1>9. CASE n = 0
    <2>1. /\ c \in BootState /\ c.step = "read" /\ c.how = b.how /\ c.schema = b.schema /\ c.why = b.why
          /\ b.how = "creates" /\ c.at <= Len(Schema[c.schema])
      BY <1>1, <1>3, <1>9, <1>b, <1>n, <1>s, <1>c DEF After, To, BootState
    <2>2. ~ rolledBack => (b.why = "no table" => b.how = "migrated")
      BY <1>4
    <2>. QED
      BY <2>1, <2>2, <1>1, StepFits, <1>c
  <1>10. CASE n # 0 /\ n < L
    <2>1. PICK m \in Nat : m = n + 1
      OBVIOUS
    <2>2. /\ c \in BootState /\ c.step = "issue" /\ c.at = m /\ c.attempt = 1
          /\ c.how = b.how /\ c.schema = b.schema /\ c.why = b.why
      BY <2>1, <1>1, <1>10, <1>b, <1>n, <1>s, <1>l, <1>c DEF After, Statement, BootState
    <2>3. m <= L /\ m # 0 /\ m - 1 = n
      BY <2>1, <1>10
    <2>4. m <= Len(Schema[b.schema]) /\ (~ rolledBack => \A i \in 1 .. m - 1 : Schema[b.schema][i] \in present)
      BY <2>3, <1>7, <1>s, <1>l
    <2>. QED
      BY <2>2, <2>3, <2>4, <1>1, <1>3, <1>4, StatementFits, <1>c
  <1>11. CASE n # 0 /\ ~ (n < L)
    <2>1. n = L
      BY <1>5, <1>11
    <2>2. ~ rolledBack => ObjectsOf(b.schema) \subseteq present /\ "table" \in present
      BY <2>1, <1>2, <1>7, <1>l
    <2>3. b.at <= Len(Schema[b.schema])
      BY <1>1, <1>s
    <2>4. CASE b.how = "script"
      <3>1. /\ c \in BootState /\ c.step = "ready" /\ c.at = b.at
            /\ c.how = b.how /\ c.schema = b.schema /\ c.why = b.why
        BY <1>1, <1>11, <2>4, <1>b, <1>n, <1>s, <1>l, <1>c DEF After, To, BootState
      <3>. QED
        BY <3>1, <2>2, <2>3, <1>1, <1>4, <2>4, StepFits, <1>c
    <2>5. CASE b.how # "script"
      <3>1. b.how = "creates"
        BY <2>5, <1>3, <1>8
      <3>2. /\ c \in BootState /\ c.step = "unmark" /\ c.at = b.at
            /\ c.how = b.how /\ c.schema = b.schema /\ c.why = b.why
        BY <1>1, <1>11, <2>5, <1>b, <1>n, <1>s, <1>l, <1>c DEF After, To, BootState
      <3>. QED
        BY <3>1, <3>2, <2>2, <2>3, <1>1, <1>4, StepFits, <1>c
    <2>. QED
      BY <2>4, <2>5
  <1>. QED
    BY <1>9, <1>10, <1>11

LEMMA BeginsFit == ASSUME SchemaInv, NEW p \in Booter, SchemaBegins(p) PROVE SchemaInv'
  <1>1. boot[p] \in BootState /\ boot[p].schema \in DOMAIN Schema /\ rolledBack \in BOOLEAN
        /\ Len(Schema[boot[p].schema]) \in Nat \ {0} /\ boot[p].at <= Len(Schema[boot[p].schema])
    BY OneProcess, TableIsFirst
  <1>2. PICK c : Goes(p, c) /\ c = CASE boot[p].how = "creates" -> [Statement(p, 0) EXCEPT !.why = "none"]
                                     [] boot[p].how = "migrated" -> [To(p, "seed") EXCEPT !.why = "none"]
                                     [] boot[p].how = "script" -> [Statement(p, 1) EXCEPT !.why = "none"]
    BY DEF SchemaBegins
  <1>3. c \in BootState /\ Fits(c, objects, rolledBack)
    <2>1. CASE boot[p].how = "creates"
      <3>1. /\ c \in BootState /\ c.step = "issue" /\ c.at = 0 /\ c.attempt = 1 /\ c.why = "none"
            /\ c.how = "creates" /\ c.schema = boot[p].schema
        BY <1>1, <1>2, <2>1 DEF Statement, BootState
      <3>2. c.at <= Len(Schema[c.schema]) /\ \A i \in 1 .. c.at - 1 : FALSE
        BY <3>1, <1>1
      <3>. QED
        BY <3>1, <3>2, <1>1, StatementFits
    <2>2. CASE boot[p].how = "migrated"
      <3>1. /\ c \in BootState /\ c.step = "seed" /\ c.at = boot[p].at /\ c.why = "none"
            /\ c.how = "migrated" /\ c.schema = boot[p].schema
        BY <1>1, <1>2, <2>2 DEF To, BootState
      <3>. QED
        BY <3>1, <1>1, StepFits
    <2>3. CASE boot[p].how = "script"
      <3>1. /\ c \in BootState /\ c.step = "issue" /\ c.at = 1 /\ c.attempt = 1 /\ c.why = "none"
            /\ c.how = "script" /\ c.schema = boot[p].schema
        BY <1>1, <1>2, <2>3 DEF Statement, BootState
      <3>2. c.at <= Len(Schema[c.schema]) /\ c.at # 0 /\ c.how # "migrated" /\ c.why # "race"
        BY <3>1, <1>1
      <3>3. ~ rolledBack => c.why # "no table" /\ \A i \in 1 .. c.at - 1 : FALSE
        BY <3>1, <1>1
      <3>. QED
        BY <3>1, <3>2, <3>3, <1>1, StatementFits
    <2>. QED
      BY <1>1, <2>1, <2>2, <2>3 DEF BootState
  <1>. QED
    BY <1>2, <1>3, OneProcessMoves DEF SchemaBegins, SchemaInv

LEMMA IssuesFit == ASSUME SchemaInv, NEW p \in Booter, Issues(p) PROVE SchemaInv'
  <1>1. /\ boot[p] \in BootState /\ Placed(boot[p]) /\ RaceEnds(boot[p], objects, rolledBack)
        /\ ~ rolledBack => Passed(boot[p], objects)
    BY OneProcess
  <1>2. boot[p].step = "issue"
    BY DEF Issues, At0
  <1>3. Object(p) = ObjectAt(boot[p])
    BY DEF Object, ObjectAt
  <1>4. PICK c : Goes(p, c) /\ c = IF Object(p) \in objects THEN After(p) ELSE To(p, "commit")
    BY DEF Issues
  <1>5. CASE Object(p) \in objects
    BY <1>2, <1>4, <1>5, AfterFits, OneProcessMoves DEF Issues, SchemaInv
  <1>6. CASE Object(p) \notin objects
    <2>1. /\ c \in BootState /\ c.step = "commit" /\ c.at = boot[p].at /\ c.attempt = boot[p].attempt
          /\ c.why = boot[p].why /\ c.how = boot[p].how /\ c.schema = boot[p].schema
      BY <1>1, <1>4, <1>6 DEF To, BootState
    <2>2. Placed(c)
      BY <2>1, <1>1, <1>2 DEF Placed
    <2>3. RaceEnds(c, objects, rolledBack)
      BY <2>1, <1>1, <1>2, <1>3, <1>6 DEF RaceEnds
    <2>4. ~ rolledBack => Passed(c, objects)
      BY <2>1, <1>1, <1>2 DEF Passed
    <2>. QED
      BY <2>1, <2>2, <2>3, <2>4, <1>4, OneProcessMoves DEF Fits, Issues, SchemaInv
  <1>. QED
    BY <1>5, <1>6

\* The third attempt is the last that is needed.
LEMMA CommitsFit == ASSUME SchemaInv, Attempts >= 3, NEW p \in Booter, Commits(p) PROVE SchemaInv'
  <1>1. /\ boot[p] \in BootState /\ Placed(boot[p]) /\ RaceEnds(boot[p], objects, rolledBack)
        /\ ~ rolledBack => Passed(boot[p], objects)
        /\ boot[p].schema \in DOMAIN Schema /\ Fits(boot[p], objects, rolledBack)
        /\ rolledBack \in BOOLEAN
    BY OneProcess
  <1>2. boot[p].step = "commit" /\ (boot[p].attempt = 1 \/ (rolledBack /\ boot[p].attempt = 2))
    BY <1>1 DEF Commits, At0, RaceEnds
  <1>3. Object(p) = ObjectAt(boot[p])
    BY DEF Object, ObjectAt
  <1>4. CASE Object(p) \in objects /\ dialect = "mysql" /\ Index(p)
    <2>1. Goes(p, After(p)) /\ UNCHANGED <<dialect, objects, marker, rolledBack>>
      BY <1>4 DEF Commits
    <2>. QED
      BY <2>1, <1>2, <1>4, AfterFits, OneProcessMoves DEF SchemaInv
  <1>5. CASE Object(p) \in objects /\ ~ (dialect = "mysql" /\ Index(p))
    <2>1. Lost(p) /\ UNCHANGED <<dialect, objects, marker, rolledBack>>
      BY <1>5 DEF Commits
    <2>2. boot[p].attempt < Attempts
      BY <1>2, SchemaAssumption
    <2>3. PICK c : Goes(p, c) /\ c = [boot[p] EXCEPT !.step = "issue", !.attempt = @ + 1]
      BY <2>1, <2>2 DEF Lost
    <2>n. PICK n \in Nat : n = boot[p].attempt + 1
      BY <1>2
    <2>e. c = [boot[p] EXCEPT !.step = "issue", !.attempt = n]
      BY <2>3, <2>n
    <2>4. /\ c \in BootState /\ c.step = "issue" /\ c.at = boot[p].at /\ c.attempt = n
          /\ c.why = boot[p].why /\ c.how = boot[p].how /\ c.schema = boot[p].schema
      BY <1>1, <2>e DEF BootState
    <2>5. Placed(c)
      BY <2>4, <1>1, <1>2 DEF Placed
    <2>6. ObjectAt(c) \in objects
      BY <2>4, <1>3, <1>5 DEF ObjectAt
    <2>7. RaceEnds(c, objects, rolledBack)
      BY <2>4, <2>6, <2>n, <1>1, <1>2 DEF RaceEnds
    <2>8. ~ rolledBack => Passed(c, objects)
      BY <2>4, <1>1, <1>2 DEF Passed
    <2>. QED
      BY <2>1, <2>3, <2>4, <2>5, <2>7, <2>8, OneProcessMoves DEF Fits, SchemaInv
  <1>6. CASE Object(p) \notin objects /\ Index(p) /\ "table" \notin objects
    <2>1. /\ UNCHANGED <<dialect, objects, marker, rolledBack>>
          /\ Goes(p, [boot[p] EXCEPT !.step = "failed", !.why = "no table"])
      BY <1>6 DEF Commits, Fails
    <2>2. boot[p].at # 0 /\ boot[p].at # 1
      BY <1>1, <1>6, TableIsFirst DEF Index, Object
    <2>3. rolledBack
      <3>. SUFFICES ASSUME ~ rolledBack PROVE FALSE
        BY <1>1
      <3>1. PICK n \in Nat : n = boot[p].at
        BY <1>1 DEF BootState
      <3>2. 1 \in 1 .. n - 1
        BY <2>2, <3>1
      <3>3. Schema[boot[p].schema][1] \in objects
        BY <1>1, <1>2, <3>1, <3>2 DEF Passed
      <3>. QED
        BY <3>3, <1>1, <1>6, TableIsFirst
    <2>4. PICK c : c = [boot[p] EXCEPT !.step = "failed", !.why = "no table"]
      OBVIOUS
    <2>5. c \in BootState
      BY <2>4, <1>1 DEF BootState
    <2>6. Fits(c, objects, rolledBack)
      BY <2>3, <2>4, <1>1, FailedFits
    <2>. QED
      BY <2>1, <2>4, <2>5, <2>6, OneProcessMoves DEF SchemaInv
  <1>7. CASE Object(p) \notin objects /\ ~ (Index(p) /\ "table" \notin objects)
    <2>1. /\ objects' = objects \cup {Object(p)} /\ Goes(p, After(p))
          /\ UNCHANGED <<dialect, marker, rolledBack>>
      BY <1>7 DEF Commits
    <2>2. After(p) \in BootState /\ Fits(After(p), objects', rolledBack)
      BY <2>1, <1>2, AfterFits
    <2>. QED
      BY <2>1, <2>2, OneProcessMoves DEF SchemaInv
  <1>. QED
    BY <1>4, <1>5, <1>6, <1>7

\* A marker found to be the release's own spares the statements it stands for.
LEMMA ReadsFit == ASSUME SchemaInv, NEW p \in Booter, ReadsMarker(p) PROVE SchemaInv'
  <1>1. /\ boot[p] \in BootState /\ Placed(boot[p]) /\ rolledBack \in BOOLEAN
        /\ ~ rolledBack => Passed(boot[p], objects)
        /\ boot[p].schema \in DOMAIN Schema /\ boot[p].why \in {"none", "no table", "database"}
        /\ boot[p].at <= Len(Schema[boot[p].schema])
    BY OneProcess
  <1>2. boot[p].step = "read" /\ boot[p].how = "creates"
    BY <1>1 DEF ReadsMarker, At0, Placed
  <1>3. ~ rolledBack => boot[p].why # "no table"
    BY <1>1, <1>2 DEF Passed
  <1>4. /\ Len(Schema[boot[p].schema]) \in Nat \ {0} /\ boot[p].schema # 0
    BY <1>1, TableIsFirst
  <1>5. PICK c : Goes(p, c) /\ c = IF marker = boot[p].schema THEN To(p, "seed") ELSE Statement(p, 1)
    BY DEF ReadsMarker
  <1>6. c \in BootState /\ Fits(c, objects, rolledBack)
    <2>1. CASE marker = boot[p].schema
      <3>1. /\ c \in BootState /\ c.step = "seed" /\ c.at = boot[p].at /\ c.why = boot[p].why
            /\ c.how = "creates" /\ c.schema = boot[p].schema
        BY <1>1, <1>2, <1>5, <2>1 DEF To, BootState
      <3>2. ~ rolledBack => ObjectsOf(c.schema) \subseteq objects
        BY <3>1, <1>4, <2>1 DEF SchemaInv
      <3>. QED
        BY <3>1, <3>2, <1>1, <1>3, StepFits
    <2>2. CASE marker # boot[p].schema
      <3>1. /\ c \in BootState /\ c.step = "issue" /\ c.at = 1 /\ c.attempt = 1
            /\ c.why = boot[p].why /\ c.how = "creates" /\ c.schema = boot[p].schema
        BY <1>1, <1>2, <1>5, <2>2 DEF Statement, BootState
      <3>2. c.at <= Len(Schema[c.schema]) /\ \A i \in 1 .. c.at - 1 : FALSE
        BY <3>1, <1>4
      <3>. QED
        BY <3>1, <3>2, <1>1, <1>3, <1>4, StatementFits
    <2>. QED
      BY <2>1, <2>2
  <1>. QED
    BY <1>5, <1>6, OneProcessMoves DEF ReadsMarker, SchemaInv

\* The marker is written by who ran the statements, and after them.
LEMMA MarksFit ==
  ASSUME SchemaInv, NEW p \in Booter, Unmarks(p) \/ Marks(p)
  PROVE  SchemaInv'
  <1>1. /\ boot[p] \in BootState /\ Placed(boot[p]) /\ rolledBack \in BOOLEAN
        /\ ~ rolledBack => Passed(boot[p], objects)
        /\ boot[p].schema \in DOMAIN Schema /\ boot[p].why \in {"none", "no table", "database"}
        /\ boot[p].at <= Len(Schema[boot[p].schema])
    BY OneProcess
  <1>2. boot[p].step \in {"unmark", "mark"} /\ boot[p].how = "creates"
    BY <1>1 DEF Unmarks, Marks, At0, Placed
  <1>3. ~ rolledBack => ObjectsOf(boot[p].schema) \subseteq objects /\ boot[p].why # "no table"
    BY <1>1, <1>2 DEF Passed
  <1>4. PICK step \in {"mark", "seed"} :
          /\ Goes(p, To(p, step))
          /\ marker' \in {0, marker, boot[p].schema} /\ UNCHANGED <<dialect, objects, rolledBack>>
    BY DEF Unmarks, Marks
  <1>5. PICK c : c = To(p, step)
    OBVIOUS
  <1>6. /\ c \in BootState /\ c.step = step /\ c.at = boot[p].at /\ c.why = boot[p].why
        /\ c.how = "creates" /\ c.schema = boot[p].schema
    BY <1>1, <1>2, <1>5 DEF To, BootState
  <1>7. Fits(c, objects, rolledBack)
    BY <1>1, <1>3, <1>4, <1>6, StepFits
  <1>8. /\ marker' \in {0} \cup DOMAIN Schema
        /\ ~ rolledBack /\ marker' # 0 => ObjectsOf(marker') \subseteq objects'
    BY <1>1, <1>3, <1>4 DEF SchemaInv
  <1>. QED
    BY <1>4, <1>5, <1>6, <1>7, <1>8, OneProcessMoves

LEMMA SeedsFit == ASSUME SchemaInv, NEW p \in Booter, Seeds(p) PROVE SchemaInv'
  <1>1. /\ boot[p] \in BootState /\ Placed(boot[p]) /\ rolledBack \in BOOLEAN
        /\ Fits(boot[p], objects, rolledBack)
        /\ ~ rolledBack => Passed(boot[p], objects)
        /\ boot[p].schema \in DOMAIN Schema /\ boot[p].why \in {"none", "no table", "database"}
        /\ boot[p].at <= Len(Schema[boot[p].schema]) /\ "table" \in ObjectsOf(boot[p].schema)
    BY OneProcess, TableIsFirst
  <1>2. boot[p].step = "seed" /\ boot[p].how \in {"creates", "migrated"}
    BY <1>1 DEF Seeds, At0, Placed, BootState
  <1>3. ~ rolledBack => /\ boot[p].how = "creates" => ObjectsOf(boot[p].schema) \subseteq objects
                        /\ boot[p].why = "no table" => boot[p].how = "migrated"
    BY <1>1, <1>2 DEF Passed
  <1>4. CASE "table" \in objects
    <2>1. Goes(p, To(p, "ready"))
      BY <1>4 DEF Seeds
    <2>2. PICK c : c = To(p, "ready")
      OBVIOUS
    <2>3. /\ c \in BootState /\ c.step = "ready" /\ c.at = boot[p].at /\ c.why = boot[p].why
          /\ c.how = boot[p].how /\ c.schema = boot[p].schema
      BY <1>1, <2>2 DEF To, BootState
    <2>4. Fits(c, objects, rolledBack)
      BY <2>3, <1>1, <1>2, <1>3, <1>4, StepFits
    <2>. QED
      BY <2>1, <2>2, <2>3, <2>4, OneProcessMoves DEF Seeds, SchemaInv
  <1>5. CASE "table" \notin objects
    <2>1. Goes(p, [boot[p] EXCEPT !.step = "failed", !.why = "no table"])
      BY <1>5 DEF Seeds, Fails
    <2>2. PICK c : c = [boot[p] EXCEPT !.step = "failed", !.why = "no table"]
      OBVIOUS
    <2>3. c \in BootState
      BY <1>1, <2>2 DEF BootState
    <2>4. ~ rolledBack => boot[p].how = "migrated"
      BY <1>1, <1>2, <1>3, <1>5
    <2>5. Fits(c, objects, rolledBack)
      BY <2>2, <2>4, <1>1, FailedFits
    <2>. QED
      BY <2>1, <2>2, <2>3, <2>5, OneProcessMoves DEF Seeds, SchemaInv
  <1>. QED
    BY <1>4, <1>5

\* A call that the database failed may have taken effect, but only with what it was asked for.
LEMMA DatabaseFailureFits == ASSUME SchemaInv, NEW p \in Booter, DatabaseFails(p) PROVE SchemaInv'
  <1>1. /\ boot[p] \in BootState /\ rolledBack \in BOOLEAN /\ Fits(boot[p], objects, rolledBack)
        /\ ~ rolledBack => Passed(boot[p], objects)
        /\ boot[p].schema \in DOMAIN Schema
    BY OneProcess
  <1>2. PICK c : c = [boot[p] EXCEPT !.step = "failed", !.why = "database"]
    OBVIOUS
  <1>3. Goes(p, c) /\ UNCHANGED <<dialect, rolledBack>>
    BY <1>2 DEF DatabaseFails, Fails
  <1>4. c \in BootState
    BY <1>1, <1>2 DEF BootState
  <1>5. objects \subseteq objects'
    BY DEF DatabaseFails
  <1>6. /\ marker' \in {0} \cup DOMAIN Schema
        /\ ~ rolledBack /\ marker' # 0 => ObjectsOf(marker') \subseteq objects'
    BY <1>1, <1>5 DEF DatabaseFails, SchemaInv, At0, Passed
  <1>7. Fits(c, objects, rolledBack)
    BY <1>1, <1>2, FailedFits
  <1>8. Fits(c, objects', rolledBack)
    BY <1>1, <1>5, <1>7, FitsStill
  <1>. QED
    BY <1>3, <1>4, <1>5, <1>6, <1>8, OneProcessMoves

LEMMA RebootFits == ASSUME SchemaInv, NEW p \in Booter, Reboots(p) PROVE SchemaInv'
  <1>1. boot[p].how \in {"creates", "migrated", "script"}
    BY OneProcess DEF BootState
  <1>2. PICK v \in DOMAIN Schema : Goes(p, Asleep(boot[p].how, v))
    BY DEF Reboots
  <1>3. Asleep(boot[p].how, v) \in BootState /\ Fits(Asleep(boot[p].how, v), objects, rolledBack)
    BY <1>1, AsleepFits
  <1>. QED
    BY <1>2, <1>3, OneProcessMoves DEF Reboots, SchemaInv

\* A migration drops the table once at most in a behaviour, and may bring it back.
LEMMA MigrationFits == ASSUME SchemaInv, RollsBack \/ Migrates PROVE SchemaInv'
  <1>1. /\ UNCHANGED <<dialect, marker, boot>> /\ rolledBack' \in BOOLEAN /\ rolledBack \in BOOLEAN
        /\ (objects \subseteq objects' /\ rolledBack' = rolledBack) \/ (~ rolledBack /\ rolledBack')
    BY DEF RollsBack, Migrates, SchemaInv
  <1>2. \A p \in Booter : Fits(boot[p], objects', rolledBack')
    BY <1>1, FitsStill DEF SchemaInv
  <1>3. ~ rolledBack' /\ marker # 0 => ObjectsOf(marker) \subseteq objects'
    BY <1>1 DEF SchemaInv
  <1>. QED
    BY <1>1, <1>2, <1>3 DEF SchemaInv

LEMMA SchemaInvStep ==
  ASSUME SchemaInv, Attempts >= 3, SchemaNext \/ UNCHANGED schemaVars
  PROVE  SchemaInv'
  <1>1. CASE UNCHANGED schemaVars
    BY <1>1 DEF schemaVars, SchemaInv
  <1>2. CASE SchemaNext
    BY <1>2, BeginsFit, IssuesFit, CommitsFit, ReadsFit, MarksFit, SeedsFit, DatabaseFailureFits,
       RebootFits, MigrationFits
    DEF SchemaNext
  <1>. QED
    BY <1>1, <1>2

LEMMA SchemaInvMeansInPlace == SchemaInv => SchemaIsInPlace
  <1>. SUFFICES ASSUME SchemaInv PROVE SchemaIsInPlace
    OBVIOUS
  <1>1. \A p \in Booter : boot[p].why # "race"
    BY OneProcess
  <1>2. ASSUME ~ rolledBack, NEW p \in Booter
        PROVE  /\ At0(p, "ready") =>
                    (IF boot[p].how = "migrated" THEN {"table"} ELSE ObjectsOf(boot[p].schema)) \subseteq objects
               /\ boot[p].why = "no table" => boot[p].how = "migrated"
    BY <1>2, OneProcess DEF At0, Passed
  <1>. QED
    BY <1>1, <1>2 DEF SchemaIsInPlace, SchemaInv

-----------------------------------------------------------------------------
(* An initialisation that fails                                            *)

\* Of the calls that have not begun to wait, only those that find a failure that is too fresh
\* to be tried again fail.
LEMMA FailsOnlyFresh ==
  ASSUME LucidInv, Next, NEW e \in Entry, call[e] = "none", call'[e] = "failed"
  PROVE  now - failedAt[owner[e]] < RetryDelay
  <1>1. call \in [Entry -> Answer] /\ e \notin {d \in Entry : call[d] = "queued"}
    BY DEF LucidInv, Shape
  <1>2. \A p \in Pod : e \notin ToSet(batch[p])
    BY DEF LucidInv, InOrder, Ordered, Buffered
  <1>3. ASSUME NEW p \in Pod, InsertOne(p) PROVE FALSE
    <2>1. Head(batch[p]) \in ToSet(batch[p])
      BY <1>3, HeadParts DEF InsertOne, LucidInv, Shape, NoWriteStranded
    <2>. QED
      BY <1>2, <1>3, <2>1 DEF InsertOne, Settle
  <1>4. ASSUME NEW p \in Pod, InsertBatch(p) \/ InsertBatchFails(p) PROVE FALSE
    BY <1>2, <1>4 DEF InsertBatch, InsertBatchFails, Settle
  <1>5. ASSUME NEW p \in Pod, InitFails(p) \/ Crash(p) PROVE FALSE
    BY <1>5 DEF InitFails, Crash
  <1>6. ~ UNCHANGED call
    OBVIOUS
  <1>7. ASSUME NEW d \in Entry, Queue(d) PROVE FALSE
    BY <1>1, <1>7 DEF Queue
  <1>8. PICK d \in Entry : Record(d)
    BY <1>3, <1>4, <1>5, <1>6, <1>7
    DEF Next, Tick, InitStep, InitBegins, InitDone, DrainStep, TakeBatch, DrainEnds, DrainAgain,
        Clear, ClearStep, Flushed, DeleteAll, PruneStart, PruneStep, PrunePosition, PruneEdge,
        PruneDelete, callVars
  <1>9. d = e /\ ready[owner[e]] = "failed" /\ ~ Retries(owner[e])
    BY <1>1, <1>8 DEF Record
  <1>10. ~ (now - failedAt[owner[e]] >= RetryDelay)
    BY <1>9 DEF Retries
  <1>11. now \in Int /\ failedAt[owner[e]] \in Int /\ RetryDelay \in Int
    BY LucidAssumption DEF LucidInv, Shape
  <1>. QED
    BY <1>10, <1>11

\* A step of the whole store is one of its schema or leaves it alone.
LEMMA SchemaOrNot == [StoreNext]_sqlStoreVars => SchemaNext \/ UNCHANGED schemaVars
  BY DEF StoreNext, Writing, Booting, Counting, sqlStoreVars

LEMMA SchemaInvHolds == ASSUME Attempts >= 3 PROVE StoreSpec => []SchemaInv
  <1>1. StoreInit => SchemaInv
    BY SchemaInvInit DEF StoreInit
  <1>2. SchemaInv /\ [StoreNext]_sqlStoreVars => SchemaInv'
    BY SchemaOrNot, SchemaInvStep
  <1>. QED
    BY <1>1, <1>2, PTL DEF StoreSpec

\* The schema of the SQL store is in place, for any number of processes and releases that boot,
\* fail and restart together (reconcileSchema): what the marker stands for exists, a store that
\* is ready has its objects, and with three attempts at a statement, DDL_RACE_ATTEMPTS being
\* four, none fails for a race it lost (runIdempotentDdl).
THEOREM SchemaStaysInPlace == ASSUME Attempts >= 3 PROVE StoreSpec => []SchemaIsInPlace
  <1>1. SchemaInv => SchemaIsInPlace
    BY SchemaInvMeansInPlace
  <1>. QED
    BY <1>1, SchemaInvHolds, PTL

\* An initialisation that failed does not fail later calls for ever: a call fails at once only
\* within the delay after the failure (init), and the schema stays in place whatever fails.
THEOREM InitStaysSound == ASSUME Attempts >= 3 PROVE StoreSpec => InitIsSound
  <1>1. LucidInv /\ SchemaInv /\ [StoreNext]_sqlStoreVars =>
          [/\ SchemaIsInPlace'
           /\ \A e \in Entry :
                call[e] = "none" /\ call'[e] = "failed" => now - failedAt[owner[e]] < RetryDelay]_sqlStoreVars
    <2>. SUFFICES ASSUME LucidInv, SchemaInv, [StoreNext]_sqlStoreVars
                  PROVE  /\ SchemaIsInPlace'
                         /\ \A e \in Entry :
                              call[e] = "none" /\ call'[e] = "failed" =>
                                now - failedAt[owner[e]] < RetryDelay
      OBVIOUS
    <2>1. SchemaInv'
      BY SchemaOrNot, SchemaInvStep
    <2>2. SchemaIsInPlace'
      BY <2>1, SchemaInvMeansInPlace, PTL
    <2>3. ASSUME NEW e \in Entry, call[e] = "none", call'[e] = "failed"
          PROVE  now - failedAt[owner[e]] < RetryDelay
      BY <2>3, WritesOrNot, FailsOnlyFresh DEF vars, callVars
    <2>. QED
      BY <2>2, <2>3
  <1>. QED
    BY <1>1, LucidInvHolds, SchemaInvHolds, PTL DEF StoreSpec, InitIsSound

-----------------------------------------------------------------------------
(* What an ORDER BY answers                                               *)

\* A sorted sequence of a finite set has each of its elements, in their order.
LEMMA SortedHasAll ==
  ASSUME NEW S, IsFiniteSet(S), NEW before, NEW s \in Sorted(S, before)
  PROVE  /\ s \in Seq(S) /\ Len(s) = Cardinality(S) /\ Cardinality(S) \in Nat
         /\ DOMAIN s = 1 .. Cardinality(S)
         /\ \A x \in S : \E i \in 1 .. Cardinality(S) : s[i] = x
         /\ \A i, j \in 1 .. Cardinality(S) : i < j => s[i] # s[j] /\ <<s[j], s[i]>> \notin before
  <1>1. PICK n \in Nat : n = Cardinality(S)
    BY FS_CardinalityType
  <1>2. s \in [1 .. n -> S] /\ DOMAIN s = 1 .. n
        /\ \A i, j \in 1 .. n : i < j => s[i] # s[j] /\ <<s[j], s[i]>> \notin before
    BY <1>1 DEF Sorted
  <1>3. s \in Seq(S) /\ Len(s) = n
    BY <1>2
  <1>4. s \in Injection(1 .. n, S)
    <2>1. \A i, j \in 1 .. n : s[i] = s[j] => i = j
      <3>1. \A i, j \in 1 .. n : i # j => i < j \/ j < i
        OBVIOUS
      <3>. QED
        BY <1>2, <3>1
    <2>. QED
      BY <1>2, <2>1 DEF Injection, IsInjective
  <1>5. IsFiniteSet(1 .. n) /\ Cardinality(1 .. n) = n
    <2>1. IsFiniteSet(1 .. n) /\ Cardinality(1 .. n) = IF 1 > n THEN 0 ELSE n - 1 + 1
      BY FS_Interval
    <2>. QED
      BY <2>1
  <1>6. s \in Surjection(1 .. n, S)
    BY <1>1, <1>4, <1>5, FS_Injection
  <1>7. \A x \in S : \E i \in 1 .. n : s[i] = x
    BY <1>6 DEF Surjection
  <1>. QED
    BY <1>1, <1>2, <1>3, <1>7

\* An order in which no two elements of a set are alike.
Orders(before, S) ==
  /\ \A x \in S : <<x, x>> \notin before
  /\ \A x, y \in S : x = y \/ <<x, y>> \in before \/ <<y, x>> \in before
  /\ \A x, y, z \in S : <<x, y>> \in before /\ <<y, z>> \in before => <<x, z>> \in before

\* What comes before an element.
Below(x, S, before) == {y \in S : <<y, x>> \in before}

\* Elements are ranked as they are ordered.
LEMMA RanksRise ==
  ASSUME NEW S, IsFiniteSet(S), NEW before, Orders(before, S)
  PROVE  /\ \A x \in S : Cardinality(Below(x, S, before)) \in 0 .. Cardinality(S) - 1
         /\ \A x, y \in S : <<x, y>> \in before =>
              Cardinality(Below(x, S, before)) < Cardinality(Below(y, S, before))
  <1>0. Cardinality(S) \in Nat
    BY FS_CardinalityType
  <1>1. \A x \in S : IsFiniteSet(Below(x, S, before)) /\ Cardinality(Below(x, S, before)) \in Nat
    <2>1. \A x \in S : Below(x, S, before) \subseteq S
      BY DEF Below
    <2>2. \A x \in S : IsFiniteSet(Below(x, S, before))
      BY <2>1, FS_Subset
    <2>. QED
      BY <2>2, FS_CardinalityType
  <1>2. ASSUME NEW x \in S, NEW T \in SUBSET S, x \in T, Below(x, S, before) \subseteq T
        PROVE  Cardinality(Below(x, S, before)) < Cardinality(T)
    <2>1. IsFiniteSet(T) /\ Cardinality(T) \in Nat
      BY FS_Subset, FS_CardinalityType
    <2>2. x \notin Below(x, S, before)
      BY DEF Orders, Below
    <2>3. IsFiniteSet(Below(x, S, before) \cup {x})
          /\ Cardinality(Below(x, S, before) \cup {x}) = Cardinality(Below(x, S, before)) + 1
      BY <1>1, <2>2, FS_AddElement
    <2>4. Below(x, S, before) \cup {x} \in SUBSET T
      BY <1>2
    <2>5. Cardinality(Below(x, S, before) \cup {x}) <= Cardinality(T)
      BY <2>1, <2>4, FS_Subset
    <2>. QED
      BY <1>1, <2>1, <2>3, <2>5
  <1>3. ASSUME NEW x \in S PROVE Cardinality(Below(x, S, before)) < Cardinality(S)
    <2>1. Below(x, S, before) \subseteq S /\ S \in SUBSET S
      BY DEF Below
    <2>. QED
      BY <1>2, <2>1
  <1>4. ASSUME NEW x \in S, NEW y \in S, <<x, y>> \in before
        PROVE  Cardinality(Below(x, S, before)) < Cardinality(Below(y, S, before))
    <2>1. Below(x, S, before) \subseteq Below(y, S, before) /\ x \in Below(y, S, before)
          /\ Below(y, S, before) \in SUBSET S
      BY <1>4 DEF Orders, Below
    <2>. QED
      BY <1>2, <2>1
  <1>5. ASSUME NEW x \in S PROVE Cardinality(Below(x, S, before)) \in 0 .. Cardinality(S) - 1
    <2>1. Cardinality(Below(x, S, before)) < Cardinality(S) /\ Cardinality(Below(x, S, before)) \in Nat
      BY <1>1, <1>3
    <2>. QED
      BY <1>0, <2>1
  <1>. QED
    BY <1>4, <1>5

\* What an order ranks it can sort.
LEMMA SortedExists ==
  ASSUME NEW S, IsFiniteSet(S), NEW before, Orders(before, S)
  PROVE  \E s : s \in Sorted(S, before)
  <1>1. PICK n \in Nat : n = Cardinality(S)
    BY FS_CardinalityType
  <1>. DEFINE Rank(x) == Cardinality(Below(x, S, before))
  <1>2. \A x \in S : Rank(x) \in 0 .. n - 1
    BY <1>1, RanksRise
  <1>3. \A x, y \in S : <<x, y>> \in before => Rank(x) < Rank(y)
    BY RanksRise
  <1>. HIDE DEF Rank
  <1>4. PICK rank : rank = [x \in S |-> Rank(x)]
    OBVIOUS
  <1>5. rank \in Injection(S, 0 .. n - 1)
    <2>1. rank \in [S -> 0 .. n - 1]
      BY <1>2, <1>4
    <2>2. ASSUME NEW x \in S, NEW y \in S, rank[x] = rank[y] PROVE x = y
      <3>1. Rank(x) = Rank(y) /\ Rank(x) \in Int
        BY <1>2, <1>4, <2>2
      <3>2. ~ (Rank(x) < Rank(y)) /\ ~ (Rank(y) < Rank(x))
        BY <3>1
      <3>. QED
        BY <1>3, <3>2 DEF Orders
    <2>. QED
      BY <2>1, <2>2 DEF Injection, IsInjective
  <1>6. IsFiniteSet(0 .. n - 1) /\ Cardinality(0 .. n - 1) = n
    <2>1. 0 \in Int /\ n - 1 \in Int
      OBVIOUS
    <2>2. IsFiniteSet(0 .. n - 1)
          /\ Cardinality(0 .. n - 1) = IF 0 > n - 1 THEN 0 ELSE n - 1 - 0 + 1
      BY <2>1, FS_Interval
    <2>3. (IF 0 > n - 1 THEN 0 ELSE n - 1 - 0 + 1) = n
      OBVIOUS
    <2>. QED
      BY <2>2, <2>3
  <1>7. rank \in Surjection(S, 0 .. n - 1)
    BY <1>1, <1>5, <1>6, FS_Injection
  <1>8. \A k \in 0 .. n - 1 : \E x \in S : rank[x] = k
    BY <1>7 DEF Surjection
  <1>9. PICK s : s = [i \in 1 .. n |-> CHOOSE x \in S : rank[x] = i - 1]
    OBVIOUS
  <1>10. \A i \in 1 .. n : s[i] \in S /\ rank[s[i]] = i - 1
    <2>1. \A i \in 1 .. n : i - 1 \in 0 .. n - 1
      OBVIOUS
    <2>. QED
      BY <1>8, <1>9, <2>1
  <1>11. s \in [1 .. n -> S] /\ DOMAIN s = 1 .. n
    BY <1>9, <1>10
  <1>12. ASSUME NEW i \in 1 .. n, NEW j \in 1 .. n, i < j
         PROVE  s[i] # s[j] /\ <<s[j], s[i]>> \notin before
    <2>1. rank[s[i]] = i - 1 /\ rank[s[j]] = j - 1 /\ s[i] \in S /\ s[j] \in S
      BY <1>10
    <2>2. i - 1 # j - 1 /\ ~ (j - 1 < i - 1)
      BY <1>12
    <2>3. ~ (Rank(s[j]) < Rank(s[i]))
      BY <1>4, <2>1, <2>2
    <2>. QED
      BY <1>3, <2>1, <2>2, <2>3
  <1>13. s \in Sorted(S, before)
    BY <1>1, <1>11, <1>12 DEF Sorted
  <1>. QED
    BY <1>13

\* The element at a position of a sorted sequence has as many before it.
LEMMA SortedByRank ==
  ASSUME NEW S, IsFiniteSet(S), NEW before, Orders(before, S), NEW s \in Sorted(S, before),
         NEW k \in 1 .. Cardinality(S)
  PROVE  Cardinality(Below(s[k], S, before)) = k - 1
  <1>1. PICK n \in Nat : n = Cardinality(S)
    BY FS_CardinalityType
  <1>2. /\ DOMAIN s = 1 .. n /\ \A i \in 1 .. n : s[i] \in S
        /\ \A x \in S : \E i \in 1 .. n : s[i] = x
        /\ \A i, j \in 1 .. n : i < j => s[i] # s[j] /\ <<s[j], s[i]>> \notin before
    <2>1. s \in [1 .. n -> S]
      BY <1>1 DEF Sorted
    <2>2. /\ \A x \in S : \E i \in 1 .. Cardinality(S) : s[i] = x
          /\ \A i, j \in 1 .. Cardinality(S) :
               i < j => s[i] # s[j] /\ <<s[j], s[i]>> \notin before
      BY SortedHasAll
    <2>3. 1 .. Cardinality(S) = 1 .. n
      BY <1>1
    <2>. QED
      BY <2>1, <2>2, <2>3
  <1>3. k \in 1 .. n
    BY <1>1
  <1>4. \A i \in 1 .. n : <<s[i], s[k]>> \in before <=> i < k
    <2>1. ASSUME NEW i \in 1 .. n, i < k PROVE <<s[i], s[k]>> \in before
      <3>1. s[i] # s[k] /\ <<s[k], s[i]>> \notin before
        BY <1>2, <1>3, <2>1
      <3>. QED
        BY <1>2, <1>3, <3>1 DEF Orders
    <2>2. ASSUME NEW i \in 1 .. n, ~ (i < k) PROVE <<s[i], s[k]>> \notin before
      <3>1. i = k \/ k < i
        BY <1>3, <2>2
      <3>. QED
        BY <1>2, <1>3, <3>1 DEF Orders
    <2>. QED
      BY <2>1, <2>2
  <1>5. PICK f : f = [i \in 1 .. k - 1 |-> s[i]]
    OBVIOUS
  <1>6. \A i \in 1 .. k - 1 : i \in 1 .. n /\ i < k /\ f[i] = s[i]
    BY <1>3, <1>5
  <1>7. f \in Injection(1 .. k - 1, Below(s[k], S, before))
    <2>1. f \in [1 .. k - 1 -> Below(s[k], S, before)]
      BY <1>2, <1>4, <1>5, <1>6 DEF Below
    <2>2. ASSUME NEW i \in 1 .. k - 1, NEW j \in 1 .. k - 1, f[i] = f[j] PROVE i = j
      <3>1. i = j \/ i < j \/ j < i
        OBVIOUS
      <3>. QED
        BY <1>2, <1>6, <2>2, <3>1
    <2>. QED
      BY <2>1, <2>2 DEF Injection, IsInjective
  <1>8. f \in Surjection(1 .. k - 1, Below(s[k], S, before))
    <2>1. f \in [1 .. k - 1 -> Below(s[k], S, before)]
      BY <1>7 DEF Injection
    <2>2. ASSUME NEW x \in Below(s[k], S, before) PROVE \E i \in 1 .. k - 1 : f[i] = x
      <3>1. x \in S /\ <<x, s[k]>> \in before
        BY DEF Below
      <3>2. PICK i \in 1 .. n : s[i] = x
        BY <1>2, <3>1
      <3>3. i < k
        BY <1>4, <3>1, <3>2
      <3>4. i \in 1 .. k - 1
        BY <1>3, <3>3
      <3>. QED
        BY <1>6, <3>2, <3>4
    <2>. QED
      BY <2>1, <2>2 DEF Surjection
  <1>9. ExistsBijection(1 .. k - 1, Below(s[k], S, before))
    BY <1>7, <1>8 DEF ExistsBijection, Bijection
  <1>10. k - 1 \in Nat
    BY <1>3
  <1>. QED
    BY <1>9, <1>10, FS_CountingElements

\* How many elements are on the pages before.
Skipped(page, size) == (page - 1) * size

LEMMA SkippedIsNatural ==
  ASSUME NEW page \in Nat \ {0}, NEW size \in Nat \ {0}
  PROVE  Skipped(page, size) \in Nat /\ page * size = Skipped(page, size) + size
  <1>1. page - 1 \in Nat /\ page = (page - 1) + 1
    OBVIOUS
  <1>2. (page - 1) * size \in Nat
    BY <1>1
  <1>3. ASSUME NEW m \in Int PROVE (m + 1) * size = m * size + size
    OBVIOUS
  <1>4. page * size = (page - 1) * size + size
    BY <1>1, <1>3
  <1>. QED
    BY <1>2, <1>4 DEF Skipped

\* The elements at the positions that a page takes, a of them being on the pages before.
Takes(S, s, page, size, a) ==
  LET c == Cut(s, page, size)
  IN  /\ c \in Seq(S) /\ DOMAIN c = 1 .. Len(c)
      /\ Len(c) = IF a + size < Len(s) THEN size ELSE IF a < Len(s) THEN Len(s) - a ELSE 0
      /\ \A i \in 1 .. Len(c) : a + i \in 1 .. Len(s) /\ c[i] = s[a + i]
      /\ {c[i] : i \in DOMAIN c} = {s[k] : k \in {m \in 1 .. Len(s) : a < m /\ m <= a + size}}

LEMMA CutTakes ==
  ASSUME NEW S, NEW s \in Seq(S), NEW page \in Nat \ {0}, NEW size \in Nat \ {0}
  PROVE  Takes(S, s, page, size, Skipped(page, size))
  <1>2. PICK a \in Nat : a = Skipped(page, size)
    BY SkippedIsNatural
  <1>1. PICK l \in Nat : l = Len(s)
    BY LenProperties
  <1>3. page * size = a + size /\ (page - 1) * size = a
    BY <1>2, SkippedIsNatural DEF Skipped
  <1>4. PICK b \in Nat : b = IF a + size < l THEN a + size ELSE l
    OBVIOUS
  <1>5. b <= l /\ b <= a + size
    BY <1>4
  <1>6. \A i \in a + 1 .. b : s[i] \in S
    <2>1. \A i \in a + 1 .. b : i \in 1 .. l
      BY <1>5
    <2>. QED
      BY <1>1, <2>1, LenProperties
  <1>7. PICK c : c = SubSeq(s, a + 1, b)
    OBVIOUS
  <1>8. Cut(s, page, size) = c
    BY <1>1, <1>3, <1>4, <1>7 DEF Cut
  <1>9. /\ c \in Seq(S) /\ Len(c) = (IF a + 1 <= b THEN b - (a + 1) + 1 ELSE 0)
        /\ \A i \in 1 .. b - (a + 1) + 1 : c[i] = s[a + 1 + i - 1]
    <2>1. a + 1 \in Int /\ b \in Int
      OBVIOUS
    <2>. QED
      BY <1>6, <1>7, <2>1, SubSeqProperties
  <1>10. DOMAIN c = 1 .. Len(c)
    BY <1>9, LenProperties
  <1>11. Len(c) = IF a < b THEN b - a ELSE 0
    <2>1. (IF a + 1 <= b THEN b - (a + 1) + 1 ELSE 0) = IF a < b THEN b - a ELSE 0
      OBVIOUS
    <2>. QED
      BY <1>9, <2>1
  <1>12. \A i \in 1 .. Len(c) : i \in Nat /\ i >= 1 /\ a < b /\ i <= b - a
    <2>1. PICK n : n = Len(c)
      OBVIOUS
    <2>2. n = IF a < b THEN b - a ELSE 0
      BY <1>11, <2>1
    <2>3. \A i \in 1 .. n : i \in Nat /\ i >= 1 /\ a < b /\ i <= b - a
      BY <2>2
    <2>. QED
      BY <2>1, <2>3
  <1>13. ASSUME NEW i \in 1 .. Len(c)
         PROVE  a + i \in 1 .. l /\ a < a + i /\ a + i <= a + size /\ c[i] = s[a + i]
    <2>1. i \in Nat /\ i >= 1 /\ a < b /\ i <= b - a
      BY <1>12
    <2>2. i \in 1 .. b - (a + 1) + 1 /\ a + 1 + i - 1 = a + i
      BY <2>1
    <2>3. a + i \in 1 .. l /\ a < a + i /\ a + i <= a + size
      BY <1>5, <2>1
    <2>. QED
      BY <1>9, <2>2, <2>3
  <1>14. ASSUME NEW k \in 1 .. l, a < k, k <= a + size
         PROVE  k - a \in 1 .. Len(c) /\ c[k - a] = s[k]
    <2>1. k <= b /\ a < b
      BY <1>4, <1>14
    <2>2. Len(c) = b - a
      BY <1>11, <2>1
    <2>3. k - a \in 1 .. b - a /\ a + (k - a) = k
      BY <1>14, <2>1
    <2>4. k - a \in 1 .. Len(c)
      BY <2>2, <2>3
    <2>. QED
      BY <1>13, <2>3, <2>4
  <1>15. {c[i] : i \in DOMAIN c} = {s[k] : k \in {m \in 1 .. l : a < m /\ m <= a + size}}
    <2>1. \A i \in DOMAIN c : c[i] \in {s[k] : k \in {m \in 1 .. l : a < m /\ m <= a + size}}
      BY <1>10, <1>13
    <2>2. \A k \in {m \in 1 .. l : a < m /\ m <= a + size} : s[k] \in {c[i] : i \in DOMAIN c}
      BY <1>10, <1>14
    <2>. QED
      BY <2>1, <2>2
  <1>16. \A i \in 1 .. Len(c) : a + i \in 1 .. l /\ c[i] = s[a + i]
    BY <1>13
  <1>17. Len(c) = IF a + size < l THEN size ELSE IF a < l THEN l - a ELSE 0
    <2>1. (IF a < b THEN b - a ELSE 0) = IF a + size < l THEN size ELSE IF a < l THEN l - a ELSE 0
      BY <1>4
    <2>. QED
      BY <1>11, <2>1
  <1>. QED
    BY <1>1, <1>2, <1>8, <1>9, <1>10, <1>15, <1>16, <1>17 DEF Takes

\* Of finitely many positions there is one that is last, and one only.
LEMMA LatestIsLast ==
  ASSUME NEW S \in SUBSET (Int \X Int), IsFiniteSet(S), S # {}
  PROVE  /\ Latest(S) \in S /\ \A b \in S : ~ Newer(b, Latest(S))
         /\ \A a \in S : (\A b \in S : ~ Newer(b, a)) => a = Latest(S)
  <1>. DEFINE Firsts == {a[1] : a \in S}
  <1>1. PICK T : T = Firsts
    OBVIOUS
  <1>2. T \in SUBSET Int /\ T # {} /\ IsFiniteSet(T)
    <2>1. PICK f : f = [a \in S |-> a[1]]
      OBVIOUS
    <2>2. f \in Surjection(S, T)
      BY <1>1, <2>1 DEF Surjection
    <2>3. IsFiniteSet(T)
      BY <2>2, FS_Surjection
    <2>. QED
      BY <1>1, <2>3
  <1>3. PICK m \in T : \A x \in T : x <= m
    BY <1>2, FiniteHasMax
  <1>4. PICK U : U = {a[2] : a \in {b \in S : b[1] = m}}
    OBVIOUS
  <1>5. U \in SUBSET Int /\ U # {} /\ IsFiniteSet(U)
    <2>1. PICK V : V = {b \in S : b[1] = m}
      OBVIOUS
    <2>2. IsFiniteSet(V)
      BY <2>1, FS_Subset
    <2>3. PICK f : f = [a \in V |-> a[2]]
      OBVIOUS
    <2>4. f \in Surjection(V, U)
      BY <1>4, <2>1, <2>3 DEF Surjection
    <2>5. IsFiniteSet(U)
      BY <2>2, <2>4, FS_Surjection
    <2>6. U # {}
      BY <1>1, <1>3, <1>4
    <2>. QED
      BY <1>4, <2>5, <2>6
  <1>6. PICK n \in U : \A x \in U : x <= n
    BY <1>5, FiniteHasMax
  <1>7. PICK l \in S : l[1] = m /\ l[2] = n
    BY <1>4, <1>6
  <1>8. m \in Int /\ n \in Int
    BY <1>2, <1>5
  <1>9. ASSUME NEW b \in S PROVE ~ Newer(b, l)
    <2>1. b[1] \in Int /\ b[2] \in Int /\ b[1] <= m
      BY <1>1, <1>3
    <2>2. b[1] = m => b[2] <= n
      BY <1>4, <1>6
    <2>. QED
      BY <1>7, <1>8, <2>1, <2>2 DEF Newer
  <1>10. Latest(S) \in S /\ \A b \in S : ~ Newer(b, Latest(S))
    BY <1>9 DEF Latest
  <1>11. ASSUME NEW a \in S, NEW c \in S, ~ Newer(a, c), ~ Newer(c, a) PROVE a = c
    <2>1. a[1] \in Int /\ a[2] \in Int /\ c[1] \in Int /\ c[2] \in Int
          /\ a = <<a[1], a[2]>> /\ c = <<c[1], c[2]>>
      OBVIOUS
    <2>2. a[1] = c[1]
      BY <1>11, <2>1 DEF Newer
    <2>3. a[2] = c[2]
      BY <1>11, <2>1, <2>2 DEF Newer
    <2>. QED
      BY <2>1, <2>2, <2>3
  <1>. QED
    BY <1>10, <1>11

\* What is last of some is enough to find what is last of all.
LEMMA LatestOfBoth ==
  ASSUME NEW S \in SUBSET (Int \X Int), IsFiniteSet(S), S # {},
         NEW T \in SUBSET (Int \X Int), IsFiniteSet(T)
  PROVE  Latest({Latest(S)} \cup T) = Latest(S \cup T)
  <1>1. PICK l \in S : l = Latest(S) /\ \A b \in S : ~ Newer(b, l)
    BY LatestIsLast
  <1>2. PICK U : U = {l} \cup T
    OBVIOUS
  <1>3. U \in SUBSET (Int \X Int) /\ U # {} /\ IsFiniteSet(U)
    <2>1. IsFiniteSet({l})
      BY FS_Singleton
    <2>. QED
      BY <1>2, <2>1, FS_Union
  <1>4. PICK h \in U : h = Latest(U) /\ \A b \in U : ~ Newer(b, h)
    BY <1>3, LatestIsLast
  <1>5. PICK W : W = S \cup T
    OBVIOUS
  <1>6. W \in SUBSET (Int \X Int) /\ W # {} /\ IsFiniteSet(W)
    BY <1>5, FS_Union
  <1>7. ASSUME NEW b \in W PROVE ~ Newer(b, h)
    <2>1. CASE b \in T
      BY <1>2, <1>4, <2>1
    <2>2. CASE b \in S
      <3>1. ~ Newer(b, l) /\ ~ Newer(l, h)
        BY <1>1, <1>2, <1>4, <2>2
      <3>2. b[1] \in Int /\ b[2] \in Int /\ l[1] \in Int /\ l[2] \in Int /\ h[1] \in Int /\ h[2] \in Int
        BY <1>3, <2>2
      <3>. QED
        BY <3>1, <3>2 DEF Newer
    <2>. QED
      BY <1>5, <2>1, <2>2
  <1>8. h \in W
    BY <1>1, <1>2, <1>5
  <1>9. h = Latest(W)
    BY <1>6, <1>7, <1>8, LatestIsLast
  <1>. QED
    BY <1>1, <1>2, <1>4, <1>5, <1>9

-----------------------------------------------------------------------------
(* One statement                                                           *)

\* The rows there may be are finitely many, and each is typed.
LEMMA ShelfIsFinite ==
  /\ Shelf \subseteq Rows /\ IsFiniteSet(Shelf)
  /\ \A r \in Rows : /\ r.id \in Nat /\ r.id # 0 /\ r.at \in Nat /\ r.seq \in Nat
                     /\ r.trace \in Nat /\ r.family \in Nat /\ IsFiniteSet(r.tags)
  /\ \A S \in SUBSET Rows : IsFiniteSet(S) /\ Cardinality(S) \in Nat
  <1>1. IsFiniteSet(Rows) /\ Shelf \subseteq Rows
    BY SqlReadsAssumption DEF Shelf
  <1>2. \A S \in SUBSET Rows : IsFiniteSet(S)
    BY <1>1, FS_Subset
  <1>3. \A S \in SUBSET Rows : Cardinality(S) \in Nat
    BY <1>2, FS_CardinalityType
  <1>4. \A r \in Rows : /\ r.id \in Nat /\ r.id # 0 /\ r.at \in Nat /\ r.seq \in Nat
                        /\ r.trace \in Nat /\ r.family \in Nat /\ IsFiniteSet(r.tags)
    BY SqlReadsAssumption
  <1>. QED
    BY <1>1, <1>2, <1>3, <1>4

\* The order of a list.
NewestPairs == {rt \in Shelf \X Shelf : NewestFirst(rt[1], rt[2])}

\* Rows no two of which share a position are ordered by them.
LEMMA NewestOrders ==
  ASSUME \A r, s \in Shelf : r # s => Place(r) # Place(s), NEW found \in SUBSET Shelf
  PROVE  /\ Orders(NewestPairs, found)
         /\ \A r \in found : Below(r, found, NewestPairs) = {s \in found : NewestFirst(s, r)}
  <1>1. \A r, s \in found : <<r, s>> \in NewestPairs <=> NewestFirst(r, s)
    BY DEF NewestPairs
  <1>2. \A r \in found : r.at \in Nat /\ r.seq \in Nat
    BY ShelfIsFinite
  <1>3. \A r, s \in found : NewestFirst(r, s) <=> r.at > s.at \/ (r.at = s.at /\ r.seq > s.seq)
    BY DEF NewestFirst, Newer, Place
  <1>4. \A r, s \in found : r = s \/ r.at # s.at \/ r.seq # s.seq
    BY DEF Place
  <1>5. \A r, s \in found : r = s \/ NewestFirst(r, s) \/ NewestFirst(s, r)
    BY <1>2, <1>3, <1>4
  <1>6. \A r \in found : ~ NewestFirst(r, r)
    BY <1>2, <1>3
  <1>7. \A r, s, t \in found : NewestFirst(r, s) /\ NewestFirst(s, t) => NewestFirst(r, t)
    BY <1>2, <1>3
  <1>8. Orders(NewestPairs, found)
    BY <1>1, <1>5, <1>6, <1>7 DEF Orders
  <1>9. \A r \in found : Below(r, found, NewestPairs) = {s \in found : NewestFirst(s, r)}
    BY <1>1 DEF Below
  <1>. QED
    BY <1>8, <1>9

\* A page of rows no two of which share a position is those that so many are newer than.
LEMMA PageIsWindow ==
  ASSUME \A r, s \in Shelf : r # s => Place(r) # Place(s), NEW q, NEW page \in Nat \ {0}
  PROVE  {{s[i] : i \in DOMAIN s} : s \in List(q, page, Limit)} =
           {{r \in Matches(q) : LET n == Cardinality({s \in Matches(q) : NewestFirst(s, r)})
                                IN  (page - 1) * Limit <= n /\ n < page * Limit}}
  <1>1. PICK found : found = Matches(q)
    OBVIOUS
  <1>2. found \in SUBSET Shelf /\ IsFiniteSet(found)
    <2>1. found \subseteq Shelf
      BY <1>1 DEF Matches
    <2>. QED
      BY <2>1, ShelfIsFinite
  <1>3. /\ Orders(NewestPairs, found)
        /\ \A r \in found : Below(r, found, NewestPairs) = {s \in found : NewestFirst(s, r)}
    BY <1>2, NewestOrders
  <1>4. Limit \in Nat \ {0}
    BY SqlReadsAssumption
  <1>5. PICK a \in Nat : a = Skipped(page, Limit)
    BY <1>4, SkippedIsNatural
  <1>13. page * Limit = a + Limit /\ (page - 1) * Limit = a
    BY <1>4, <1>5, SkippedIsNatural DEF Skipped
  <1>. DEFINE Rank(r) == Cardinality({s \in found : NewestFirst(s, r)})
  <1>6. PICK W : W = {r \in found : a <= Rank(r) /\ Rank(r) < a + Limit}
    OBVIOUS
  <1>7. ASSUME NEW s \in Sorted(found, NewestPairs)
        PROVE  {Cut(s, page, Limit)[i] : i \in DOMAIN Cut(s, page, Limit)} = W
    <2>1. PICK n : n = Cardinality(found)
      OBVIOUS
    <2>2. /\ s \in Seq(found) /\ Len(s) = n /\ n \in Nat
          /\ \A x \in found : \E i \in 1 .. n : s[i] = x
      BY <1>2, <2>1, SortedHasAll
    <2>3. {Cut(s, page, Limit)[i] : i \in DOMAIN Cut(s, page, Limit)} =
            {s[k] : k \in {m \in 1 .. Len(s) : a < m /\ m <= a + Limit}}
      <3>1. s \in Seq(found)
        BY <2>2
      <3>2. Takes(found, s, page, Limit, a)
        BY <1>4, <1>5, <3>1, CutTakes
      <3>. QED
        BY <3>2 DEF Takes
    <2>4. ASSUME NEW k \in 1 .. n PROVE Rank(s[k]) = k - 1 /\ s[k] \in found
      <3>1. Cardinality(Below(s[k], found, NewestPairs)) = k - 1
        BY <1>2, <1>3, <2>1, SortedByRank
      <3>2. s[k] \in found
        BY <2>2, LenProperties
      <3>. QED
        BY <1>3, <3>1, <3>2
    <2>. HIDE DEF Rank
    <2>5. \A k \in 1 .. n : s[k] \in W <=> a < k /\ k <= a + Limit
      <3>1. \A k \in 1 .. n : a <= k - 1 /\ k - 1 < a + Limit <=> a < k /\ k <= a + Limit
        BY <1>4
      <3>. QED
        BY <1>6, <2>4, <3>1
    <2>6. {s[k] : k \in {m \in 1 .. Len(s) : a < m /\ m <= a + Limit}} = W
      <3>1. \A x \in W : \E k \in 1 .. n : s[k] = x
        BY <1>6, <2>2
      <3>. QED
        BY <2>2, <2>5, <3>1
    <2>. QED
      BY <2>3, <2>6
  <1>8. PICK s : s \in Sorted(found, NewestPairs)
    BY <1>2, <1>3, SortedExists
  <1>9. List(q, page, Limit) = {Cut(t, page, Limit) : t \in Sorted(found, NewestPairs)}
    BY <1>1 DEF List, NewestPairs
  <1>10. \A c \in List(q, page, Limit) : {c[i] : i \in DOMAIN c} = W
    BY <1>7, <1>9
  <1>11. Cut(s, page, Limit) \in List(q, page, Limit)
    BY <1>8, <1>9
  <1>12. {{c[i] : i \in DOMAIN c} : c \in List(q, page, Limit)} = {W}
    BY <1>10, <1>11
  <1>14. W = {r \in found : (page - 1) * Limit <= Rank(r) /\ Rank(r) < page * Limit}
    BY <1>6, <1>13
  <1>. QED
    BY <1>1, <1>12, <1>14

\* The pages of a list are its rows once each (list).
LEMMA PagesAreWindows == PagesHold
  <1>. SUFFICES ASSUME \A r, s \in Shelf : r # s => Place(r) # Place(s), NEW q \in Queries,
                       NEW p \in 1 .. Cardinality(Matches(q)) \div Limit + 1
                PROVE  {{s[i] : i \in DOMAIN s} : s \in List(q, p, Limit)} =
                         {{r \in Matches(q) : LET n == Cardinality({s \in Matches(q) : NewestFirst(s, r)})
                                              IN  (p - 1) * Limit <= n /\ n < p * Limit}}
    BY DEF PagesHold
  <1>1. p \in Nat \ {0}
    OBVIOUS
  <1>. QED
    BY <1>1, PageIsWindow

\* A sum over one set is its size.
LEMMA SumOfOne ==
  ASSUME NEW g
  PROVE  Cardinality(g) \in Nat => MapThenSumSet(Cardinality, {g}) = Cardinality(g)
  <1>. SUFFICES ASSUME Cardinality(g) \in Nat PROVE MapThenSumSet(Cardinality, {g}) = Cardinality(g)
    OBVIOUS
  <1>. DEFINE Step(h) == [s \in SUBSET {g} |->
                            IF s = {} THEN 0 ELSE Cardinality(CHOOSE x \in s : TRUE) + h[s \ {CHOOSE x \in s : TRUE}]]
              sums == [s \in SUBSET {g} |-> IF s = {} THEN 0 ELSE Cardinality(g)]
  <1>1. \A s \in SUBSET {g} : s # {} => s = {g} /\ (CHOOSE x \in s : TRUE) = g
    OBVIOUS
  <1>2. sums = Step(sums)
    BY <1>1
  <1>3. PICK it : it = CHOOSE h : h = Step(h)
    OBVIOUS
  <1>4. MapThenSumSet(Cardinality, {g}) = it[{g}]
    BY <1>3 DEF MapThenSumSet, MapThenFoldSet
  <1>5. it = Step(it)
    BY <1>2, <1>3
  <1>6. it[{}] = 0
    BY <1>5
  <1>7. it[{g}] = Cardinality(g) + it[{g} \ {g}]
    BY <1>1, <1>5
  <1>8. {g} \ {g} = {}
    OBVIOUS
  <1>9. it[{g}] = Cardinality(g)
    BY <1>6, <1>7, <1>8
  <1>. QED
    BY <1>4, <1>9

\* Rounding down to the bucket tells apart what the bucket's index does.
LEMMA RoundingIsIndexing ==
  ASSUME NEW x \in Nat, NEW y \in Nat, NEW b \in 1 .. 3
  PROVE  /\ x - (x % b) = y - (y % b) <=> x \div b = y \div b
         /\ x \div b \in Nat
  <1>1. CASE b = 1
    BY <1>1
  <1>2. CASE b = 2
    BY <1>2
  <1>3. CASE b = 3
    BY <1>3
  <1>. QED
    BY <1>1, <1>2, <1>3

\* A grouped count is the count of the bucket's rows: the groups of the statement and the buckets
\* of the answer are the same sets of rows (countByBucket).
LEMMA BucketsAreCounts == BucketsHold
  <1>. SUFFICES ASSUME NEW after \in 0 .. 2, NEW b \in 1 .. 3
       PROVE  LET count == CountByBucket(after, Horizon, b)
                  BucketOf(r) == (r.at - after) \div b
              IN  /\ DOMAIN count = {<<BucketOf(r), r.type>> : r \in Window(after, Horizon)}
                  /\ \A k \in DOMAIN count :
                       count[k] = Cardinality({r \in Window(after, Horizon) : <<BucketOf(r), r.type>> = k})
    BY DEF BucketsHold
  <1>1. PICK found : found = Window(after, Horizon)
    OBVIOUS
  <1>. DEFINE BucketOf(r) == <<(r.at - after) \div b, r.type>>
              groups == {{r \in found : GroupKey(r, after, b) = k} : k \in {GroupKey(r, after, b) : r \in found}}
              Key(g) == <<(Max({r.at : r \in g}) - after) \div b, (CHOOSE r \in g : TRUE).type>>
  <1>2. found \in SUBSET Rows /\ \A r \in found : r.at - after \in Nat /\ r.at \in Nat
    <2>1. found \subseteq Shelf /\ \A r \in found : r.at > after
      BY <1>1 DEF Window
    <2>2. \A r \in found : r \in Rows /\ r.at \in Nat
      BY <2>1, ShelfIsFinite
    <2>. QED
      BY <2>1, <2>2
  <1>3. \A r, s \in found : GroupKey(r, after, b) = GroupKey(s, after, b) <=> BucketOf(r) = BucketOf(s)
    <2>1. ASSUME NEW r \in found, NEW s \in found
          PROVE  GroupKey(r, after, b) = GroupKey(s, after, b) <=> BucketOf(r) = BucketOf(s)
      <3>1. PICK x \in Nat : x = r.at - after
        BY <1>2
      <3>2. PICK y \in Nat : y = s.at - after
        BY <1>2
      <3>3. x - (x % b) = y - (y % b) <=> x \div b = y \div b
        BY RoundingIsIndexing
      <3>4. GroupKey(r, after, b) = <<x - (x % b), r.type>> /\ GroupKey(s, after, b) = <<y - (y % b), s.type>>
        BY <3>1, <3>2 DEF GroupKey
      <3>5. BucketOf(r) = <<x \div b, r.type>> /\ BucketOf(s) = <<y \div b, s.type>>
        BY <3>1, <3>2
      <3>. QED
        BY <3>3, <3>4, <3>5
    <2>. QED
      BY <2>1
  <1>4. ASSUME NEW g \in groups
        PROVE  /\ g \in SUBSET found /\ g # {}
               /\ \A r \in g : Key(g) = BucketOf(r)
               /\ \A r \in found : BucketOf(r) = Key(g) => r \in g
    <2>1. PICK s \in found : g = {r \in found : GroupKey(r, after, b) = GroupKey(s, after, b)}
      OBVIOUS
    <2>. HIDE DEF groups
    <2>2. s \in g /\ g \in SUBSET found
      BY <2>1
    <2>3. \A r \in g : BucketOf(r) = BucketOf(s)
      BY <1>3, <2>1
    <2>4. \A r \in found : BucketOf(r) = BucketOf(s) => r \in g
      BY <1>3, <2>1
    <2>5. PICK T : T = {r.at : r \in g}
      OBVIOUS
    <2>6. T \in SUBSET Int /\ T # {}
      BY <1>2, <2>2, <2>5
    <2>7. IsFiniteSet(T)
      <3>1. PICK f : f = [r \in g |-> r.at]
        OBVIOUS
      <3>2. f \in Surjection(g, T)
        BY <2>5, <3>1 DEF Surjection
      <3>3. IsFiniteSet(g)
        BY <1>2, <2>2, ShelfIsFinite
      <3>. QED
        BY <3>2, <3>3, FS_Surjection
    <2>8. Max(T) \in T
      BY <2>6, <2>7, FiniteHasMax
    <2>9. PICK m \in g : m.at = Max(T)
      BY <2>5, <2>8
    <2>10. PICK c \in g : c = CHOOSE r \in g : TRUE
      BY <2>2
    <2>11. Key(g) = <<(m.at - after) \div b, c.type>>
      BY <2>5, <2>9, <2>10
    <2>12. BucketOf(m) = BucketOf(s) /\ BucketOf(c) = BucketOf(s)
      BY <2>3
    <2>13. Key(g) = BucketOf(s)
      BY <2>11, <2>12
    <2>. HIDE DEF Key, BucketOf
    <2>. QED
      BY <2>2, <2>3, <2>4, <2>13
  <1>5. ASSUME NEW r \in found PROVE \E g \in groups : r \in g
    <2>1. {s \in found : GroupKey(s, after, b) = GroupKey(r, after, b)} \in groups
      OBVIOUS
    <2>. HIDE DEF groups
    <2>. QED
      BY <2>1
  <1>6. PICK G : G = groups
    OBVIOUS
  <1>7. CountByBucket(after, Horizon, b) =
          [k \in {Key(g) : g \in G} |-> MapThenSumSet(Cardinality, {g \in G : Key(g) = k})]
    BY <1>1, <1>6 DEF CountByBucket
  <1>8. \A g \in G : g \in SUBSET found /\ g # {} /\ (\A r \in g : Key(g) = BucketOf(r))
                     /\ (\A r \in found : BucketOf(r) = Key(g) => r \in g)
    BY <1>4, <1>6
  <1>9. \A r \in found : \E g \in G : r \in g
    BY <1>5, <1>6
  <1>. HIDE DEF groups, Key, BucketOf
  <1>10. {Key(g) : g \in G} = {BucketOf(r) : r \in found}
    <2>1. \A g \in G : \E r \in found : Key(g) = BucketOf(r)
      BY <1>8
    <2>2. \A r \in found : \E g \in G : Key(g) = BucketOf(r)
      BY <1>8, <1>9
    <2>. QED
      BY <2>1, <2>2
  <1>11. ASSUME NEW k \in {Key(g) : g \in G}
         PROVE  MapThenSumSet(Cardinality, {g \in G : Key(g) = k}) = Cardinality({r \in found : BucketOf(r) = k})
    <2>1. PICK g \in G : Key(g) = k
      OBVIOUS
    <2>2. g = {r \in found : BucketOf(r) = k}
      BY <1>8, <2>1
    <2>3. \A h \in G : Key(h) = k => h = {r \in found : BucketOf(r) = k}
      BY <1>8
    <2>4. {h \in G : Key(h) = k} = {g}
      BY <2>1, <2>2, <2>3
    <2>5. Cardinality(g) \in Nat
      BY <1>2, <1>8, ShelfIsFinite
    <2>6. MapThenSumSet(Cardinality, {g}) = Cardinality(g)
      BY <2>5, SumOfOne
    <2>. QED
      BY <2>2, <2>4, <2>6
  <1>12. CountByBucket(after, Horizon, b) = [k \in {BucketOf(r) : r \in found} |-> Cardinality({r \in found : BucketOf(r) = k})]
    BY <1>7, <1>10, <1>11
  <1>. QED
    BY <1>1, <1>12 DEF BucketOf

\* The first page of a sorted sequence: its elements from the front, and no more than fit.
LEMMA FirstPage ==
  ASSUME NEW S, NEW s \in Seq(S)
  PROVE  LET c == Cut(s, 1, Limit)
         IN  /\ c \in Seq(S) /\ DOMAIN c = 1 .. Len(c) /\ Len(c) \in Nat
             /\ Len(c) = IF Limit < Len(s) THEN Limit ELSE Len(s)
             /\ \A i \in 1 .. Len(c) : i \in 1 .. Len(s) /\ c[i] = s[i]
  <1>1. Limit \in Nat \ {0} /\ 1 \in Nat \ {0}
    BY SqlReadsAssumption
  <1>2. Skipped(1, Limit) = 0
    BY <1>1 DEF Skipped
  <1>3. Takes(S, s, 1, Limit, 0)
    <2>1. Takes(S, s, 1, Limit, Skipped(1, Limit))
      BY <1>1, CutTakes
    <2>. QED
      BY <1>2, <2>1
  <1>4. PICK c : c = Cut(s, 1, Limit)
    OBVIOUS
  <1>5. PICK l \in Nat : l = Len(s)
    BY LenProperties
  <1>6. /\ c \in Seq(S) /\ DOMAIN c = 1 .. Len(c)
        /\ Len(c) = IF 0 + Limit < l THEN Limit ELSE IF 0 < l THEN l - 0 ELSE 0
        /\ \A i \in 1 .. Len(c) : 0 + i \in 1 .. l /\ c[i] = s[0 + i]
    BY <1>3, <1>4, <1>5 DEF Takes
  <1>7. Len(c) = IF Limit < l THEN Limit ELSE l
    <2>1. (IF 0 + Limit < l THEN Limit ELSE IF 0 < l THEN l - 0 ELSE 0) = IF Limit < l THEN Limit ELSE l
      BY <1>1
    <2>. QED
      BY <1>6, <2>1
  <1>8. \A i \in 1 .. Len(c) : i \in 1 .. l /\ c[i] = s[i]
    <2>1. \A i \in 1 .. Len(c) : 0 + i = i
      OBVIOUS
    <2>. QED
      BY <1>6, <2>1
  <1>9. Len(c) \in Nat
    BY <1>6, LenProperties
  <1>. QED
    BY <1>4, <1>5, <1>6, <1>7, <1>8, <1>9

\* The largest of what rows say.
LEMMA ImagesOfRows ==
  ASSUME NEW S \in SUBSET Rows, S # {}
  PROVE  /\ Max({r.at : r \in S}) \in {r.at : r \in S} /\ \A r \in S : r.at <= Max({s.at : s \in S})
         /\ Max({r.seq : r \in S}) \in {r.seq : r \in S} /\ \A r \in S : r.seq <= Max({s.seq : s \in S})
         /\ {Place(r) : r \in S} \in SUBSET (Int \X Int) /\ IsFiniteSet({Place(r) : r \in S})
         /\ {Place(r) : r \in S} # {}
  <1>1. IsFiniteSet(S) /\ \A r \in S : r.at \in Nat /\ r.seq \in Nat
    BY ShelfIsFinite
  <1>2. PICK T : T = {r.at : r \in S}
    OBVIOUS
  <1>3. PICK U : U = {r.seq : r \in S}
    OBVIOUS
  <1>4. PICK V : V = {Place(r) : r \in S}
    OBVIOUS
  <1>5. T \in SUBSET Int /\ T # {} /\ U \in SUBSET Int /\ U # {} /\ V # {}
    BY <1>1, <1>2, <1>3, <1>4
  <1>6. IsFiniteSet(T)
    <2>1. PICK f : f = [r \in S |-> r.at]
      OBVIOUS
    <2>2. f \in Surjection(S, T)
      BY <1>2, <2>1 DEF Surjection
    <2>. QED
      BY <1>1, <2>2, FS_Surjection
  <1>7. IsFiniteSet(U)
    <2>1. PICK f : f = [r \in S |-> r.seq]
      OBVIOUS
    <2>2. f \in Surjection(S, U)
      BY <1>3, <2>1 DEF Surjection
    <2>. QED
      BY <1>1, <2>2, FS_Surjection
  <1>8. IsFiniteSet(V)
    <2>1. PICK f : f = [r \in S |-> Place(r)]
      OBVIOUS
    <2>2. f \in Surjection(S, V)
      BY <1>4, <2>1 DEF Surjection
    <2>. QED
      BY <1>1, <2>2, FS_Surjection
  <1>9. V \in SUBSET (Int \X Int)
    BY <1>1, <1>4 DEF Place
  <1>10. Max(T) \in T /\ \A x \in T : x <= Max(T)
    BY <1>5, <1>6, FiniteHasMax
  <1>11. Max(U) \in U /\ \A x \in U : x <= Max(U)
    BY <1>5, <1>7, FiniteHasMax
  <1>12. \A r \in S : r.at \in T /\ r.seq \in U
    BY <1>2, <1>3
  <1>13. (\A r \in S : r.at <= Max(T)) /\ (\A r \in S : r.seq <= Max(U))
    BY <1>10, <1>11, <1>12
  <1>. QED
    BY <1>2, <1>3, <1>4, <1>5, <1>8, <1>9, <1>10, <1>11, <1>13

\* Where clock and sequence agree, the larger of each by itself is the position of one row.
LEMMA LastIsLatest ==
  ASSUME InStep, NEW S \in SUBSET Shelf, S # {}
  PROVE  <<Max({r.at : r \in S}), Max({r.seq : r \in S})>> = Latest({Place(r) : r \in S})
  <1>0. S \in SUBSET Rows
    BY ShelfIsFinite
  <1>1. PICK V : V = {Place(r) : r \in S}
    OBVIOUS
  <1>2. V \in SUBSET (Int \X Int) /\ IsFiniteSet(V) /\ V # {}
    BY <1>0, <1>1, ImagesOfRows
  <1>3. Latest(V) \in V /\ \A b \in V : ~ Newer(b, Latest(V))
    BY <1>2, LatestIsLast
  <1>4. PICK m \in S : Latest(V) = Place(m)
    BY <1>1, <1>3
  <1>5. \A r \in S : ~ Newer(Place(r), Place(m))
    BY <1>1, <1>3, <1>4
  <1>6. \A r \in S : r.at \in Nat /\ r.seq \in Nat /\ r \in Shelf
    BY <1>0, ShelfIsFinite
  <1>7. \A r \in S : ~ (r.at > m.at \/ (r.at = m.at /\ r.seq > m.seq))
    BY <1>5 DEF Newer, Place
  <1>8. \A r \in S : r.at <= m.at /\ r.seq <= m.seq
    <2>1. \A r \in S : r.at < m.at => r.seq < m.seq
      BY <1>6 DEF InStep
    <2>. QED
      BY <1>6, <1>7, <2>1
  <1>9. PICK a : a = Max({r.at : r \in S})
    OBVIOUS
  <1>10. PICK n : n = Max({r.seq : r \in S})
    OBVIOUS
  <1>11. a \in {r.at : r \in S} /\ n \in {r.seq : r \in S} /\ m.at <= a /\ m.seq <= n
    BY <1>0, <1>9, <1>10, ImagesOfRows
  <1>12. a = m.at /\ n = m.seq
    <2>1. a \in Nat /\ n \in Nat /\ a <= m.at /\ n <= m.seq /\ m.at \in Nat /\ m.seq \in Nat
      BY <1>6, <1>8, <1>11
    <2>. QED
      BY <1>11, <2>1
  <1>. QED
    BY <1>1, <1>4, <1>9, <1>10, <1>12 DEF Place

\* What CountFamilies is built from.
Families == {r.family : r \in Shelf} \ {0}
OfFamily(f) == {r \in Shelf : r.family = f}
LastOf(f) == <<Max({r.at : r \in OfFamily(f)}), Max({r.seq : r \in OfFamily(f)})>>
Busier(f, g) == \/ Cardinality(OfFamily(f)) > Cardinality(OfFamily(g))
                \/ Cardinality(OfFamily(f)) = Cardinality(OfFamily(g)) /\ Newer(LastOf(f), LastOf(g))
BusierPairs == {fg \in Families \X Families : Busier(fg[1], fg[2])}

\* There are no more families than rows.
LEMMA FamiliesAreFinite == IsFiniteSet(Families)
  <1>1. PICK f : f = [r \in Shelf |-> r.family]
    OBVIOUS
  <1>2. PICK T : T = {r.family : r \in Shelf}
    OBVIOUS
  <1>3. f \in Surjection(Shelf, T)
    BY <1>1, <1>2 DEF Surjection
  <1>4. IsFiniteSet(T)
    BY <1>3, ShelfIsFinite, FS_Surjection
  <1>5. Families \in SUBSET T
    BY <1>2 DEF Families
  <1>. QED
    BY <1>4, <1>5, FS_Subset

\* A family that is listed is counted in full, and one that is not is no busier (countFamilies).
LEMMA FamiliesAreCounts ==
  ASSUME InStep, NEW c \in CountFamilies(Limit), NEW i \in DOMAIN c
  PROVE  LET Of(f) == {r \in Shelf : r.family = f}
         IN  /\ c[i][2] = Cardinality(Of(c[i][1]))
             /\ \A f \in {r.family : r \in Shelf} \ {0} :
                  (\A j \in 1 .. i : c[j][1] # f) =>
                    \/ c[i][2] > Cardinality(Of(f))
                    \/ /\ c[i][2] = Cardinality(Of(f))
                       /\ ~ Newer(Latest({Place(r) : r \in Of(f)}), Latest({Place(r) : r \in Of(c[i][1])}))
  <1>1. CountFamilies(Limit) =
          {Cut([k \in DOMAIN s |-> <<s[k], Cardinality(OfFamily(s[k]))>>], 1, Limit) : s \in Sorted(Families, BusierPairs)}
    BY DEF CountFamilies, Families, BusierPairs, Busier, LastOf, OfFamily
  <1>2. PICK s \in Sorted(Families, BusierPairs) :
          c = Cut([k \in DOMAIN s |-> <<s[k], Cardinality(OfFamily(s[k]))>>], 1, Limit)
    BY <1>1
  <1>3. PICK w : w = [k \in DOMAIN s |-> <<s[k], Cardinality(OfFamily(s[k]))>>]
    OBVIOUS
  <1>4. PICK n : n = Cardinality(Families)
    OBVIOUS
  <1>5. /\ s \in Seq(Families) /\ Len(s) = n /\ n \in Nat /\ DOMAIN s = 1 .. n
        /\ \A x \in Families : \E k \in 1 .. n : s[k] = x
        /\ \A k, j \in 1 .. n : k < j => s[k] # s[j] /\ <<s[j], s[k]>> \notin BusierPairs
    BY <1>4, FamiliesAreFinite, SortedHasAll
  <1>6. \A k \in 1 .. n : s[k] \in Families
    BY <1>5, LenProperties
  <1>7. \A f \in Families : /\ OfFamily(f) \in SUBSET Shelf /\ OfFamily(f) # {}
                            /\ Cardinality(OfFamily(f)) \in Nat
    <2>1. \A f \in Families : OfFamily(f) \in SUBSET Shelf /\ OfFamily(f) # {}
      BY DEF Families, OfFamily
    <2>. QED
      BY <2>1, ShelfIsFinite
  <1>8. w \in Seq(Families \X Nat) /\ Len(w) = n /\ \A k \in 1 .. n : w[k] = <<s[k], Cardinality(OfFamily(s[k]))>>
    <2>1. w \in [1 .. n -> Families \X Nat]
      BY <1>3, <1>5, <1>6, <1>7
    <2>. QED
      BY <1>3, <1>5, <2>1
  <1>9. /\ DOMAIN c = 1 .. Len(c) /\ Len(c) \in Nat
        /\ \A k \in 1 .. Len(c) : k \in 1 .. Len(w) /\ c[k] = w[k]
    <2>1. c = Cut(w, 1, Limit)
      BY <1>2, <1>3
    <2>2. w \in Seq(Families \X Nat)
      BY <1>8
    <2>. QED
      BY <2>1, <2>2, FirstPage
  <1>10. \A k \in 1 .. Len(c) : k \in 1 .. n /\ c[k][1] = s[k] /\ c[k][2] = Cardinality(OfFamily(s[k]))
    BY <1>8, <1>9
  <1>11. i \in 1 .. Len(c) /\ i \in 1 .. n /\ i \in Nat
    BY <1>9, <1>10
  <1>12. ASSUME NEW f \in Families, \A j \in 1 .. i : c[j][1] # f
         PROVE  \/ c[i][2] > Cardinality(OfFamily(f))
                \/ /\ c[i][2] = Cardinality(OfFamily(f))
                   /\ ~ Newer(LastOf(f), LastOf(s[i]))
    <2>1. PICK k \in 1 .. n : s[k] = f
      BY <1>5
    <2>2. i < k
      <3>1. ASSUME k <= i PROVE FALSE
        <4>1. k \in 1 .. i /\ k \in 1 .. Len(c)
          BY <1>9, <1>11, <3>1
        <4>. QED
          BY <1>10, <1>12, <2>1, <4>1
      <3>. QED
        BY <1>11, <3>1
    <2>3. ~ Busier(f, s[i])
      BY <1>5, <1>6, <1>11, <2>1, <2>2 DEF BusierPairs
    <2>4. Cardinality(OfFamily(f)) \in Nat /\ Cardinality(OfFamily(s[i])) \in Nat
          /\ c[i][2] = Cardinality(OfFamily(s[i]))
      BY <1>6, <1>7, <1>10, <1>11
    <2>5. ~ (Cardinality(OfFamily(f)) > Cardinality(OfFamily(s[i])))
          /\ ~ (Cardinality(OfFamily(f)) = Cardinality(OfFamily(s[i])) /\ Newer(LastOf(f), LastOf(s[i])))
      BY <2>3 DEF Busier
    <2>. QED
      BY <2>4, <2>5
  <1>13. ASSUME NEW f \in Families PROVE LastOf(f) = Latest({Place(r) : r \in OfFamily(f)})
    <2>1. OfFamily(f) \in SUBSET Shelf /\ OfFamily(f) # {}
      BY <1>7
    <2>2. PICK S : S = OfFamily(f)
      OBVIOUS
    <2>3. <<Max({r.at : r \in S}), Max({r.seq : r \in S})>> = Latest({Place(r) : r \in S})
      BY <2>1, <2>2, LastIsLatest
    <2>. QED
      BY <2>2, <2>3 DEF LastOf
  <1>14. ASSUME NEW f \in Families, \A j \in 1 .. i : c[j][1] # f
         PROVE  \/ c[i][2] > Cardinality(OfFamily(f))
                \/ /\ c[i][2] = Cardinality(OfFamily(f))
                   /\ ~ Newer(Latest({Place(r) : r \in OfFamily(f)}), Latest({Place(r) : r \in OfFamily(c[i][1])}))
    <2>1. s[i] \in Families /\ c[i][1] = s[i]
      BY <1>6, <1>10, <1>11
    <2>2. LastOf(f) = Latest({Place(r) : r \in OfFamily(f)})
          /\ LastOf(s[i]) = Latest({Place(r) : r \in OfFamily(s[i])})
      BY <1>13, <2>1
    <2>. QED
      BY <1>12, <1>14, <2>1, <2>2
  <1>15. c[i][2] = Cardinality(OfFamily(c[i][1]))
    BY <1>10, <1>11
  <1>. QED
    BY <1>14, <1>15 DEF OfFamily, Families

\* A trace that is not listed was last seen no later than one that is (listTraceIds).
LEMMA TracesAreByTime ==
  ASSUME NEW c \in ListTraces(1, Limit), NEW i \in DOMAIN c, NEW r \in Shelf,
         r.trace \notin {0} \cup {c[j] : j \in 1 .. i}
  PROVE  \E m \in Shelf : m.trace = c[i] /\ m.at >= r.at
  <1>. DEFINE Of(t) == {s \in Shelf : s.trace = t}
  <1>1. PICK traces : traces = {s.trace : s \in Shelf} \ {0}
    OBVIOUS
  <1>2. PICK lastAt : lastAt = [t \in traces |-> Max({s.at : s \in Of(t)})]
    OBVIOUS
  <1>3. PICK later : later = {tu \in traces \X traces : lastAt[tu[1]] > lastAt[tu[2]]}
    OBVIOUS
  <1>4. ListTraces(1, Limit) = {Cut(s, 1, Limit) : s \in Sorted(traces, later)}
    BY <1>1, <1>2, <1>3 DEF ListTraces
  <1>5. PICK s \in Sorted(traces, later) : c = Cut(s, 1, Limit)
    BY <1>4
  <1>6. IsFiniteSet(traces)
    <2>1. PICK f : f = [x \in Shelf |-> x.trace]
      OBVIOUS
    <2>2. PICK T : T = {x.trace : x \in Shelf}
      OBVIOUS
    <2>3. f \in Surjection(Shelf, T)
      BY <2>1, <2>2 DEF Surjection
    <2>4. IsFiniteSet(T)
      BY <2>3, ShelfIsFinite, FS_Surjection
    <2>5. traces \in SUBSET T
      BY <1>1, <2>2
    <2>. QED
      BY <2>4, <2>5, FS_Subset
  <1>7. PICK n : n = Cardinality(traces)
    OBVIOUS
  <1>8. /\ s \in Seq(traces) /\ Len(s) = n /\ n \in Nat
        /\ \A x \in traces : \E k \in 1 .. n : s[k] = x
        /\ \A k, j \in 1 .. n : k < j => s[k] # s[j] /\ <<s[j], s[k]>> \notin later
    BY <1>6, <1>7, SortedHasAll
  <1>9. /\ DOMAIN c = 1 .. Len(c) /\ Len(c) \in Nat
        /\ \A k \in 1 .. Len(c) : k \in 1 .. Len(s) /\ c[k] = s[k]
    BY <1>5, <1>8, FirstPage
  <1>10. i \in 1 .. n /\ i \in 1 .. Len(c) /\ i \in Nat /\ c[i] = s[i]
    BY <1>8, <1>9
  <1>11. r.trace \in traces
    BY <1>1
  <1>12. PICK k \in 1 .. n : s[k] = r.trace
    BY <1>8, <1>11
  <1>13. i < k
    <2>1. ASSUME k <= i PROVE FALSE
      <3>1. k \in 1 .. i /\ k \in 1 .. Len(c)
        BY <1>9, <1>10, <2>1
      <3>. QED
        BY <1>9, <1>12, <3>1
    <2>. QED
      BY <1>10, <2>1
  <1>14. s[i] \in traces
    BY <1>8, <1>10, LenProperties
  <1>15. ~ (lastAt[r.trace] > lastAt[s[i]])
    BY <1>3, <1>8, <1>10, <1>11, <1>12, <1>13, <1>14
  <1>16. \A t \in traces : /\ lastAt[t] \in {x.at : x \in Of(t)}
                           /\ \A x \in Of(t) : x.at <= lastAt[t]
    <2>1. ASSUME NEW t \in traces
          PROVE  lastAt[t] \in {x.at : x \in Of(t)} /\ \A x \in Of(t) : x.at <= lastAt[t]
      <3>1. PICK S : S = Of(t)
        OBVIOUS
      <3>2. S \in SUBSET Rows /\ S # {}
        BY <1>1, <3>1, ShelfIsFinite
      <3>3. Max({x.at : x \in S}) \in {x.at : x \in S} /\ \A x \in S : x.at <= Max({y.at : y \in S})
        BY <3>2, ImagesOfRows
      <3>. QED
        BY <1>2, <3>1, <3>3
    <2>. QED
      BY <2>1
  <1>17. PICK m \in Of(s[i]) : lastAt[s[i]] = m.at
    BY <1>14, <1>16
  <1>18. r.at <= lastAt[r.trace] /\ lastAt[r.trace] \in Nat
    <2>1. r \in Of(r.trace)
      OBVIOUS
    <2>2. \A x \in Of(r.trace) : x.at \in Nat
      BY ShelfIsFinite
    <2>. QED
      BY <1>11, <1>16, <2>1, <2>2
  <1>19. m.at \in Nat /\ r.at \in Nat /\ m \in Shelf /\ m.trace = s[i]
    BY ShelfIsFinite
  <1>. QED
    BY <1>10, <1>15, <1>17, <1>18, <1>19

\* Families and traces are those of the rows.
LEMMA GroupsAreRows == GroupsHold
  BY FamiliesAreCounts, TracesAreByTime DEF GroupsHold

-----------------------------------------------------------------------------
(* Counting tags from page to page                                         *)

\* The states of a scan, and the positions of the rows with a tag.
ScanState == [step : {"idle", "page", "done"}, wanted : SUBSET Tags, after : Nat,
              uses : [Tags -> Nat], newest : [Tags -> Int \X Int], top : Seq(Tags \X Nat)]

PlacesWith(t, S) == {Place(r) : r \in {s \in S : t \in s.tags}}

\* What has been counted so far is what these rows hold: rows that were there, and all of those
\* that stayed, as far as the scan has come.
Tallies(C, sc) ==
  \A t \in Tags : /\ sc.uses[t] = IF t \in sc.wanted THEN Uses(t, C) ELSE 0
                  /\ sc.newest[t] = Latest({<<-1, -1>>} \cup PlacesWith(t, C))
Tallied(C) ==
  /\ C \subseteq met /\ {r \in steady : r.id <= scan.after} \subseteq C
  /\ \A r \in C : r.id <= scan.after
  /\ Tallies(C, scan)

\* What TagsHold says of an answer, for the rows that stayed and those that were there.
AnswerHolds(sc, S, M) ==
  /\ \A t \in sc.wanted : Uses(t, S) <= sc.uses[t] /\ sc.uses[t] <= Uses(t, M)
  /\ Len(sc.top) = Min({Limit, Cardinality({t \in sc.wanted : sc.uses[t] > 0})})
  /\ S = M =>
       \A i \in DOMAIN sc.top :
         LET t == sc.top[i][1]
             Seen(u) == Latest({Place(r) : r \in {s \in S : u \in s.tags}})
         IN  /\ sc.top[i][2] = Uses(t, S)
             /\ \A u \in sc.wanted \ {sc.top[j][1] : j \in 1 .. i} :
                  Uses(u, S) > 0 =>
                    \/ Uses(t, S) > Uses(u, S)
                    \/ Uses(t, S) = Uses(u, S) /\ ~ Newer(Seen(u), Seen(t))

\* The types, and at every page which rows have been counted.
ReadsInv ==
  /\ fate \in [Rows -> {"none", "there", "gone"}] /\ scan \in ScanState
  /\ steady \subseteq Shelf /\ steady \subseteq met /\ met \subseteq Rows
  /\ scan.step = "page" => Shelf \subseteq met /\ \E C \in SUBSET Rows : Tallied(C)
  /\ scan.step = "done" => AnswerHolds(scan, steady, met)

\* There are finitely many tags.
LEMMA TagsAreFinite == IsFiniteSet(Tags) /\ \A T \in SUBSET Tags : IsFiniteSet(T) /\ Cardinality(T) \in Nat
  <1>1. PICK f : f = [r \in Rows |-> r.tags]
    OBVIOUS
  <1>2. PICK T : T = {r.tags : r \in Rows}
    OBVIOUS
  <1>3. f \in Surjection(Rows, T)
    BY <1>1, <1>2 DEF Surjection
  <1>4. IsFiniteSet(T)
    BY <1>3, ShelfIsFinite, FS_Surjection
  <1>5. \A S \in T : IsFiniteSet(S)
    BY <1>2, ShelfIsFinite
  <1>6. IsFiniteSet(Tags)
    BY <1>2, <1>4, <1>5, FS_UNION DEF Tags
  <1>7. \A S \in SUBSET Tags : IsFiniteSet(S)
    BY <1>6, FS_Subset
  <1>. QED
    BY <1>6, <1>7, FS_CardinalityType

\* The positions of the rows with a tag, by themselves and beside the one before every row.
LEMMA PlacesArePairs ==
  ASSUME NEW t, NEW S \in SUBSET Rows
  PROVE  /\ PlacesWith(t, S) \in SUBSET (Int \X Int) /\ IsFiniteSet(PlacesWith(t, S))
         /\ Uses(t, S) \in Nat /\ (Uses(t, S) > 0 => PlacesWith(t, S) # {})
         /\ {<<-1, -1>>} \cup PlacesWith(t, S) \in SUBSET (Int \X Int)
         /\ IsFiniteSet({<<-1, -1>>} \cup PlacesWith(t, S)) /\ {<<-1, -1>>} \cup PlacesWith(t, S) # {}
  <1>1. PICK T : T = {s \in S : t \in s.tags}
    OBVIOUS
  <1>2. T \in SUBSET Rows /\ Uses(t, S) = Cardinality(T) /\ PlacesWith(t, S) = {Place(r) : r \in T}
    BY <1>1 DEF Uses, PlacesWith
  <1>3. IsFiniteSet(T) /\ Cardinality(T) \in Nat
    BY <1>2, ShelfIsFinite
  <1>4. CASE T = {}
    <2>1. PlacesWith(t, S) = {} /\ Uses(t, S) = 0
      BY <1>2, <1>4, FS_EmptySet
    <2>2. {<<-1, -1>>} \cup PlacesWith(t, S) = {<<-1, -1>>} /\ IsFiniteSet({<<-1, -1>>})
      BY <2>1, FS_Singleton
    <2>3. IsFiniteSet(PlacesWith(t, S))
      BY <2>1, FS_EmptySet
    <2>. QED
      BY <2>1, <2>2, <2>3
  <1>5. CASE T # {}
    <2>1. PlacesWith(t, S) \in SUBSET (Int \X Int) /\ IsFiniteSet(PlacesWith(t, S)) /\ PlacesWith(t, S) # {}
      BY <1>2, <1>5, ImagesOfRows
    <2>2. IsFiniteSet({<<-1, -1>>})
      BY FS_Singleton
    <2>3. IsFiniteSet({<<-1, -1>>} \cup PlacesWith(t, S))
      BY <2>1, <2>2, FS_Union
    <2>. QED
      BY <1>2, <1>3, <2>1, <2>3
  <1>. QED
    BY <1>4, <1>5

\* What a tag counts over two sets of rows that have none in common.
LEMMA UsesAddUp ==
  ASSUME NEW t, NEW C \in SUBSET Rows, NEW P \in SUBSET Rows, C \cap P = {}
  PROVE  Uses(t, C \cup P) = Uses(t, C) + Uses(t, P)
  <1>1. PICK T : T = {s \in C : t \in s.tags}
    OBVIOUS
  <1>2. PICK U : U = {s \in P : t \in s.tags}
    OBVIOUS
  <1>3. T \in SUBSET Rows /\ U \in SUBSET Rows /\ T \cap U = {} /\ {s \in C \cup P : t \in s.tags} = T \cup U
    BY <1>1, <1>2
  <1>4. IsFiniteSet(T) /\ IsFiniteSet(U) /\ Cardinality(T) \in Nat /\ Cardinality(U) \in Nat
    BY <1>3, ShelfIsFinite
  <1>5. Cardinality(T \cup U) = Cardinality(T) + Cardinality(U) - Cardinality(T \cap U)
    BY <1>4, FS_Union
  <1>6. Cardinality(T \cap U) = 0
    BY <1>3, FS_EmptySet
  <1>7. Uses(t, C) = Cardinality(T) /\ Uses(t, P) = Cardinality(U) /\ Uses(t, C \cup P) = Cardinality(T \cup U)
    BY <1>1, <1>2, <1>3 DEF Uses
  <1>. QED
    BY <1>4, <1>5, <1>6, <1>7

\* Fewer rows have no more of a tag.
LEMMA UsesGrow ==
  ASSUME NEW t, NEW C \in SUBSET Rows, NEW D \in SUBSET C
  PROVE  Uses(t, D) <= Uses(t, C)
  <1>1. PICK T : T = {s \in C : t \in s.tags}
    OBVIOUS
  <1>2. PICK U : U = {s \in D : t \in s.tags}
    OBVIOUS
  <1>3. IsFiniteSet(T) /\ U \in SUBSET T
    BY <1>1, <1>2, ShelfIsFinite
  <1>4. Cardinality(U) <= Cardinality(T)
    BY <1>3, FS_Subset
  <1>. QED
    BY <1>1, <1>2, <1>4 DEF Uses

\* What a page does to the scan.
LEMMA CountedParts ==
  ASSUME scan \in ScanState, NEW P \in SUBSET Rows
  PROVE  /\ Counted(P) \in ScanState
         /\ Counted(P).step = scan.step /\ Counted(P).wanted = scan.wanted /\ Counted(P).after = scan.after
         /\ \A t \in Tags :
              /\ Counted(P).uses[t] = scan.uses[t] + IF t \in scan.wanted THEN Uses(t, P) ELSE 0
              /\ Counted(P).newest[t] = Latest({scan.newest[t]} \cup PlacesWith(t, P))
  <1>1. PICK U : U = [t \in Tags |-> scan.uses[t] + IF t \in scan.wanted THEN Uses(t, P) ELSE 0]
    OBVIOUS
  <1>2. PICK N : N = [t \in Tags |-> Latest({scan.newest[t]} \cup PlacesWith(t, P))]
    OBVIOUS
  <1>3. scan.uses \in [Tags -> Nat] /\ scan.newest \in [Tags -> Int \X Int] /\ scan.wanted \in SUBSET Tags
    BY DEF ScanState
  <1>4. U \in [Tags -> Nat]
    <2>1. \A t \in Tags : Uses(t, P) \in Nat /\ scan.uses[t] \in Nat
      BY <1>3, PlacesArePairs
    <2>. QED
      BY <1>1, <2>1
  <1>5. N \in [Tags -> Int \X Int]
    <2>1. ASSUME NEW t \in Tags PROVE Latest({scan.newest[t]} \cup PlacesWith(t, P)) \in Int \X Int
      <3>1. scan.newest[t] \in Int \X Int /\ IsFiniteSet({scan.newest[t]})
        BY <1>3, FS_Singleton
      <3>2. PICK W : W = {scan.newest[t]} \cup PlacesWith(t, P)
        OBVIOUS
      <3>3. W \in SUBSET (Int \X Int) /\ IsFiniteSet(W) /\ W # {}
        BY <3>1, <3>2, PlacesArePairs, FS_Union
      <3>4. Latest(W) \in W
        BY <3>3, LatestIsLast
      <3>. QED
        BY <3>2, <3>3, <3>4
    <2>. QED
      BY <1>2, <2>1
  <1>6. Counted(P) = [scan EXCEPT !.uses = U, !.newest = N]
    BY <1>1, <1>2 DEF Counted, Uses, PlacesWith
  <1>7. Counted(P) \in ScanState
    BY <1>4, <1>5, <1>6 DEF ScanState
  <1>8. /\ Counted(P).step = scan.step /\ Counted(P).wanted = scan.wanted /\ Counted(P).after = scan.after
        /\ Counted(P).uses = U /\ Counted(P).newest = N
    BY <1>6 DEF ScanState
  <1>. QED
    BY <1>1, <1>2, <1>7, <1>8

\* A page adds its rows to those counted.
LEMMA PageIsTallied ==
  ASSUME scan \in ScanState, NEW C \in SUBSET Rows, Tallies(C, scan), NEW P \in SUBSET Rows, C \cap P = {}
  PROVE  Tallies(C \cup P, Counted(P))
  <1>. SUFFICES ASSUME NEW t \in Tags
                PROVE  /\ Counted(P).uses[t] = IF t \in Counted(P).wanted THEN Uses(t, C \cup P) ELSE 0
                       /\ Counted(P).newest[t] = Latest({<<-1, -1>>} \cup PlacesWith(t, C \cup P))
    BY DEF Tallies
  <1>1. /\ Counted(P).wanted = scan.wanted
        /\ Counted(P).uses[t] = scan.uses[t] + IF t \in scan.wanted THEN Uses(t, P) ELSE 0
        /\ Counted(P).newest[t] = Latest({scan.newest[t]} \cup PlacesWith(t, P))
    BY CountedParts
  <1>2. /\ scan.uses[t] = IF t \in scan.wanted THEN Uses(t, C) ELSE 0
        /\ scan.newest[t] = Latest({<<-1, -1>>} \cup PlacesWith(t, C))
    BY DEF Tallies
  <1>3. Uses(t, C \cup P) = Uses(t, C) + Uses(t, P) /\ Uses(t, C) \in Nat /\ Uses(t, P) \in Nat
    BY UsesAddUp, PlacesArePairs
  <1>4. Counted(P).uses[t] = IF t \in Counted(P).wanted THEN Uses(t, C \cup P) ELSE 0
    BY <1>1, <1>2, <1>3
  <1>5. PICK S : S = {<<-1, -1>>} \cup PlacesWith(t, C)
    OBVIOUS
  <1>6. PICK T : T = PlacesWith(t, P)
    OBVIOUS
  <1>7. S \in SUBSET (Int \X Int) /\ IsFiniteSet(S) /\ S # {} /\ T \in SUBSET (Int \X Int) /\ IsFiniteSet(T)
    BY <1>5, <1>6, PlacesArePairs
  <1>8. Latest({Latest(S)} \cup T) = Latest(S \cup T)
    BY <1>7, LatestOfBoth
  <1>9. S \cup T = {<<-1, -1>>} \cup PlacesWith(t, C \cup P)
    BY <1>5, <1>6 DEF PlacesWith
  <1>. QED
    BY <1>1, <1>2, <1>4, <1>5, <1>6, <1>8, <1>9

\* Before every row there is none.
LEMMA SeenOfRows ==
  ASSUME NEW t, NEW D \in SUBSET Rows, Uses(t, D) > 0
  PROVE  Latest({<<-1, -1>>} \cup PlacesWith(t, D)) = Latest(PlacesWith(t, D))
  <1>1. PICK V : V = PlacesWith(t, D)
    OBVIOUS
  <1>2. V \in SUBSET (Int \X Int) /\ IsFiniteSet(V) /\ V # {}
    BY <1>1, PlacesArePairs
  <1>3. PICK l \in V : l = Latest(V) /\ \A b \in V : ~ Newer(b, l)
    BY <1>2, LatestIsLast
  <1>4. PICK r \in Rows : l = Place(r)
    BY <1>1 DEF PlacesWith
  <1>5. ~ Newer(<<-1, -1>>, l)
    <2>1. r.at \in Nat /\ l[1] = r.at
      BY <1>4, ShelfIsFinite DEF Place
    <2>. QED
      BY <2>1 DEF Newer
  <1>6. PICK W : W = {<<-1, -1>>} \cup V
    OBVIOUS
  <1>7. W \in SUBSET (Int \X Int) /\ IsFiniteSet(W) /\ W # {}
    BY <1>1, <1>6, PlacesArePairs
  <1>8. l \in W /\ \A b \in W : ~ Newer(b, l)
    BY <1>3, <1>5, <1>6
  <1>9. l = Latest(W)
    BY <1>7, <1>8, LatestIsLast
  <1>. QED
    BY <1>1, <1>3, <1>6, <1>9

\* The answer of a scan.
Commonest(so, s) == [so EXCEPT !.step = "done", !.top = [i \in DOMAIN Cut(s, 1, Limit) |-> <<s[i], so.uses[s[i]]>>]]

\* The answer to a scan that counted every row that stayed, and none that was never there.
LEMMA CommonestHold ==
  ASSUME NEW so \in ScanState, NEW M \in SUBSET Rows, NEW D \in SUBSET M, NEW S \in SUBSET D,
         Tallies(D, so),
         NEW s \in Sorted({t \in Tags : so.uses[t] > 0}, {tu \in Tags \X Tags : Commoner(so, tu[1], tu[2])})
  PROVE  Commonest(so, s) \in ScanState /\ Commonest(so, s).step = "done" /\ AnswerHolds(Commonest(so, s), S, M)
  <1>0. so.uses \in [Tags -> Nat] /\ so.wanted \in SUBSET Tags
    BY DEF ScanState
  <1>1. PICK U : U = {t \in Tags : so.uses[t] > 0}
    OBVIOUS
  <1>2. PICK commoner : commoner = {tu \in Tags \X Tags : Commoner(so, tu[1], tu[2])}
    OBVIOUS
  <1>3. PICK n : n = Cardinality(U)
    OBVIOUS
  <1>4. U \in SUBSET Tags /\ IsFiniteSet(U) /\ s \in Sorted(U, commoner)
    BY <1>1, <1>2, TagsAreFinite
  <1>5. /\ s \in Seq(U) /\ Len(s) = n /\ n \in Nat
        /\ \A x \in U : \E k \in 1 .. n : s[k] = x
        /\ \A k, j \in 1 .. n : k < j => s[k] # s[j] /\ <<s[j], s[k]>> \notin commoner
    BY <1>3, <1>4, SortedHasAll
  <1>6. \A k \in 1 .. n : s[k] \in U
    BY <1>5, LenProperties
  <1>7. PICK c : c = Cut(s, 1, Limit)
    OBVIOUS
  <1>8. /\ DOMAIN c = 1 .. Len(c) /\ Len(c) \in Nat /\ Len(c) = (IF Limit < n THEN Limit ELSE n)
        /\ \A k \in 1 .. Len(c) : k \in 1 .. n /\ c[k] = s[k]
    BY <1>5, <1>7, FirstPage
  <1>9. PICK l \in Nat : l = Len(c)
    BY <1>8
  <1>10. PICK top : top = [i \in 1 .. l |-> <<s[i], so.uses[s[i]]>>]
    OBVIOUS
  <1>11. top \in [1 .. l -> Tags \X Nat]
    <2>1. \A i \in 1 .. l : s[i] \in Tags
      BY <1>4, <1>6, <1>8, <1>9
    <2>. QED
      BY <1>0, <1>10, <2>1
  <1>12. top \in Seq(Tags \X Nat) /\ Len(top) = l /\ DOMAIN top = 1 .. l
    BY <1>11
  <1>13. Commonest(so, s) = [so EXCEPT !.step = "done", !.top = top]
    BY <1>7, <1>8, <1>9, <1>10 DEF Commonest
  <1>14. PICK done : done = Commonest(so, s)
    OBVIOUS
  <1>15. /\ done \in ScanState /\ done.step = "done" /\ done.top = top /\ done.uses = so.uses
         /\ done.wanted = so.wanted
    BY <1>12, <1>13, <1>14 DEF ScanState
  <1>16. ASSUME NEW t \in Tags
         PROVE  so.uses[t] \in Nat /\ so.uses[t] = IF t \in so.wanted THEN Uses(t, D) ELSE 0
    BY <1>0 DEF Tallies
  <1>17. \A t \in done.wanted : Uses(t, S) <= done.uses[t] /\ done.uses[t] <= Uses(t, M)
    <2>1. ASSUME NEW t \in so.wanted PROVE Uses(t, S) <= so.uses[t] /\ so.uses[t] <= Uses(t, M)
      <3>1. so.uses[t] = Uses(t, D)
        BY <1>0, <1>16
      <3>2. D \in SUBSET Rows /\ S \in SUBSET D /\ D \in SUBSET M
        OBVIOUS
      <3>3. Uses(t, S) <= Uses(t, D) /\ Uses(t, D) <= Uses(t, M)
        BY <3>2, UsesGrow
      <3>. QED
        BY <3>1, <3>3
    <2>. QED
      BY <1>15, <2>1
  <1>18. Len(done.top) = Min({Limit, Cardinality({t \in done.wanted : done.uses[t] > 0})})
    <2>1. {t \in so.wanted : so.uses[t] > 0} = U
      BY <1>0, <1>1, <1>16
    <2>2. Limit \in Nat
      BY SqlReadsAssumption
    <2>3. PICK B : B = {Limit, n}
      OBVIOUS
    <2>4. B \in SUBSET Nat /\ B # {}
      BY <1>5, <2>2, <2>3
    <2>5. Min(B) \in B /\ \A x \in B : Min(B) <= x
      BY <2>4, NaturalsHaveMin
    <2>6. Min(B) = IF Limit < n THEN Limit ELSE n
      BY <1>5, <2>2, <2>3, <2>5
    <2>. QED
      BY <1>3, <1>8, <1>9, <1>12, <1>15, <2>1, <2>3, <2>6
  <1>19. ASSUME S = M, NEW i \in DOMAIN done.top
         PROVE  LET t == done.top[i][1]
                    Seen(u) == Latest({Place(r) : r \in {x \in S : u \in x.tags}})
                IN  /\ done.top[i][2] = Uses(t, S)
                    /\ \A u \in done.wanted \ {done.top[j][1] : j \in 1 .. i} :
                         Uses(u, S) > 0 =>
                           \/ Uses(t, S) > Uses(u, S)
                           \/ Uses(t, S) = Uses(u, S) /\ ~ Newer(Seen(u), Seen(t))
    <2>0. D = S
      BY <1>19
    <2>1. i \in 1 .. l /\ i \in 1 .. n /\ i \in Nat
      BY <1>8, <1>9, <1>12, <1>15
    <2>2. PICK t : t = s[i]
      OBVIOUS
    <2>3. \A j \in 1 .. i : j \in 1 .. l /\ top[j][1] = s[j]
      BY <1>10, <2>1
    <2>4. top[i][1] = t /\ top[i][2] = so.uses[t] /\ t \in U
      BY <1>6, <1>10, <2>1, <2>2
    <2>5. t \in Tags /\ t \in so.wanted /\ so.uses[t] > 0 /\ so.uses[t] = Uses(t, S)
      BY <1>1, <1>16, <2>0, <2>4
    <2>6. ASSUME NEW u \in so.wanted \ {top[j][1] : j \in 1 .. i}, Uses(u, S) > 0
          PROVE  \/ Uses(t, S) > Uses(u, S)
                 \/ Uses(t, S) = Uses(u, S) /\ ~ Newer(Latest(PlacesWith(u, S)), Latest(PlacesWith(t, S)))
      <3>1. u \in Tags /\ so.uses[u] = Uses(u, S) /\ u \in U
        BY <1>0, <1>1, <1>16, <2>0, <2>6
      <3>2. PICK k \in 1 .. n : s[k] = u
        BY <1>5, <3>1
      <3>3. i < k
        <4>1. ASSUME k <= i PROVE FALSE
          <5>1. k \in 1 .. i
            BY <2>1, <4>1
          <5>. QED
            BY <2>3, <2>6, <3>2, <5>1
        <4>. QED
          BY <2>1, <4>1
      <3>4. ~ Commoner(so, u, t)
        BY <1>2, <1>5, <2>1, <2>2, <2>5, <3>1, <3>2, <3>3
      <3>5. so.newest[u] = Latest(PlacesWith(u, S)) /\ so.newest[t] = Latest(PlacesWith(t, S))
        <4>1. /\ so.newest[u] = Latest({<<-1, -1>>} \cup PlacesWith(u, S))
              /\ so.newest[t] = Latest({<<-1, -1>>} \cup PlacesWith(t, S))
          BY <2>0, <2>5, <3>1 DEF Tallies
        <4>2. Uses(t, S) > 0 /\ Uses(u, S) > 0 /\ S \in SUBSET Rows
          BY <1>19, <2>5, <2>6
        <4>. QED
          BY <4>1, <4>2, SeenOfRows
      <3>6. ~ (Uses(u, S) > Uses(t, S))
            /\ ~ (Uses(u, S) = Uses(t, S) /\ Newer(Latest(PlacesWith(u, S)), Latest(PlacesWith(t, S))))
        BY <2>5, <3>1, <3>4, <3>5 DEF Commoner
      <3>7. Uses(u, S) \in Nat /\ Uses(t, S) \in Nat
        BY <1>19, PlacesArePairs
      <3>. QED
        BY <3>6, <3>7
    <2>. QED
      BY <1>15, <2>4, <2>5, <2>6 DEF PlacesWith
  <1>20. AnswerHolds(done, S, M)
    BY <1>17, <1>18, <1>19 DEF AnswerHolds
  <1>. QED
    BY <1>14, <1>15, <1>20

\* It holds before anything is counted.
LEMMA ReadsInvInit == SqlInit => ReadsInv
  <1>. SUFFICES ASSUME SqlInit PROVE ReadsInv
    OBVIOUS
  <1>1. NoScan \in ScanState /\ NoScan.step = "idle"
    <2>1. <<>> \in Seq(Tags \X Nat)
      BY EmptySeq
    <2>. QED
      BY <2>1 DEF NoScan, ScanState
  <1>2. fate \in [Rows -> {"none", "there", "gone"}] /\ steady = {} /\ met = {} /\ scan = NoScan
    BY DEF SqlInit
  <1>. QED
    BY <1>1, <1>2 DEF ReadsInv

\* Rows that come and go do not touch what was counted, and those that stay are fewer.
LEMMA MovesKeep ==
  ASSUME ReadsInv, NEW life \in [Rows -> {"none", "there", "gone"}], Moves(life)
  PROVE  ReadsInv'
  <1>1. /\ fate' = life /\ scan' = scan /\ steady' = {r \in steady : life[r] = "there"}
        /\ met' = met \cup (IF scan.step = "page" THEN {r \in Rows : life[r] = "there"} ELSE {})
    BY DEF Moves
  <1>2. Shelf' = {r \in Rows : life[r] = "there"} /\ Shelf' \subseteq Rows
    BY <1>1 DEF Shelf
  <1>3. steady' \subseteq steady /\ steady' \subseteq Shelf' /\ met \subseteq met' /\ met' \subseteq Rows
        /\ (scan.step = "page" => Shelf' \subseteq met')
        /\ (scan.step # "page" => met' = met)
    BY <1>1, <1>2 DEF ReadsInv
  <1>4. steady' \subseteq met'
    BY <1>3 DEF ReadsInv
  <1>5. ASSUME scan.step = "page" PROVE \E C \in SUBSET Rows : Tallied(C)'
    <2>1. PICK C \in SUBSET Rows : Tallied(C)
      BY <1>5 DEF ReadsInv
    <2>2. Tallied(C)'
      <3>1. C \subseteq met' /\ {r \in steady' : r.id <= scan'.after} \subseteq C /\ \A r \in C : r.id <= scan'.after
        BY <1>1, <1>3, <2>1 DEF Tallied
      <3>2. Tallies(C, scan')
        BY <1>1, <2>1 DEF Tallied
      <3>3. Tallies(C, scan)'
        BY <1>1, <3>2 DEF Tallies, Uses, PlacesWith
      <3>. QED
        BY <3>1, <3>3 DEF Tallied
    <2>. QED
      BY <2>2
  <1>6. ASSUME scan.step = "done" PROVE AnswerHolds(scan', steady', met')
    <2>1. AnswerHolds(scan, steady, met) /\ met' = met /\ steady \subseteq met /\ met \subseteq Rows
          /\ scan \in ScanState
      BY <1>3, <1>6 DEF ReadsInv
    <2>2. CASE steady' = steady
      BY <1>1, <2>1, <2>2
    <2>3. CASE steady' # steady
      <3>1. steady' # met
        BY <1>3, <2>1, <2>3
      <3>2. ASSUME NEW t \in scan.wanted PROVE Uses(t, steady') <= scan.uses[t]
        <4>1. steady \in SUBSET Rows /\ steady' \in SUBSET steady
          BY <1>3, <2>1
        <4>2. Uses(t, steady') <= Uses(t, steady)
          BY <4>1, UsesGrow
        <4>3. Uses(t, steady) <= scan.uses[t]
          BY <2>1 DEF AnswerHolds
        <4>4. Uses(t, steady) \in Nat /\ Uses(t, steady') \in Nat
          <5>1. steady' \in SUBSET Rows
            BY <4>1
          <5>. QED
            BY <4>1, <5>1, PlacesArePairs
        <4>5. scan.uses[t] \in Nat
          BY <2>1 DEF ScanState
        <4>. QED
          BY <4>2, <4>3, <4>4, <4>5
      <3>. QED
        BY <1>1, <2>1, <3>1, <3>2 DEF AnswerHolds
    <2>. QED
      BY <2>2, <2>3
  <1>7. fate' \in [Rows -> {"none", "there", "gone"}] /\ scan' \in ScanState
    BY <1>1 DEF ReadsInv
  <1>8. scan'.step = "page" => Shelf' \subseteq met' /\ \E C \in SUBSET Rows : Tallied(C)'
    BY <1>1, <1>3, <1>5
  <1>9. scan'.step = "done" => AnswerHolds(scan', steady', met')
    BY <1>1, <1>6
  <1>10. ReadsInv' = (/\ fate' \in [Rows -> {"none", "there", "gone"}] /\ scan' \in ScanState
                      /\ steady' \subseteq Shelf' /\ steady' \subseteq met' /\ met' \subseteq Rows
                      /\ scan'.step = "page" => Shelf' \subseteq met' /\ \E C \in SUBSET Rows : Tallied(C)'
                      /\ scan'.step = "done" => AnswerHolds(scan', steady', met'))
    BY DEF ReadsInv, AnswerHolds, ScanState, Uses
  <1>. QED
    BY <1>3, <1>4, <1>7, <1>8, <1>9, <1>10

\* The invariant of the next state, with what is constant in it.
LEMMA ReadsInvParts ==
  ReadsInv' = (/\ fate' \in [Rows -> {"none", "there", "gone"}] /\ scan' \in ScanState
               /\ steady' \subseteq Shelf' /\ steady' \subseteq met' /\ met' \subseteq Rows
               /\ scan'.step = "page" => Shelf' \subseteq met' /\ \E C \in SUBSET Rows : Tallied(C)'
               /\ scan'.step = "done" => AnswerHolds(scan', steady', met'))
  BY DEF ReadsInv, AnswerHolds, ScanState, Uses

\* A scan begins with nothing counted.
LEMMA BeginsKeep ==
  ASSUME ReadsInv, NEW wanted \in SUBSET Tags, TagsBegins(wanted)
  PROVE  ReadsInv'
  <1>1. /\ scan' = [NoScan EXCEPT !.step = "page", !.wanted = wanted]
        /\ steady' = Shelf /\ met' = Shelf /\ fate' = fate
    BY DEF TagsBegins
  <1>2. Shelf' = Shelf /\ Shelf \subseteq Rows
    BY <1>1 DEF Shelf
  <1>3. NoScan \in ScanState
    <2>1. <<>> \in Seq(Tags \X Nat)
      BY EmptySeq
    <2>. QED
      BY <2>1 DEF NoScan, ScanState
  <1>4. /\ scan' \in ScanState /\ scan'.step = "page" /\ scan'.wanted = wanted
        /\ scan'.after = 0 /\ scan'.uses = NoScan.uses /\ scan'.newest = NoScan.newest
    <2>1. NoScan.after = 0
      BY DEF NoScan
    <2>. QED
      BY <1>1, <1>3, <2>1 DEF ScanState
  <1>5. ASSUME NEW t \in Tags
        PROVE  /\ NoScan.uses[t] = IF t \in wanted THEN Uses(t, {}) ELSE 0
               /\ NoScan.newest[t] = Latest({<<-1, -1>>} \cup PlacesWith(t, {}))
    <2>1. PlacesWith(t, {}) = {} /\ {<<-1, -1>>} \cup {} = {<<-1, -1>>}
      BY DEF PlacesWith
    <2>2. Uses(t, {}) = 0
      <3>1. {r \in {} : t \in r.tags} = {}
        OBVIOUS
      <3>. QED
        BY <3>1, FS_EmptySet DEF Uses
    <2>3. Latest({<<-1, -1>>}) = <<-1, -1>>
      <3>1. {<<-1, -1>>} \in SUBSET (Int \X Int) /\ {<<-1, -1>>} # {}
        OBVIOUS
      <3>2. Latest({<<-1, -1>>}) \in {<<-1, -1>>}
        BY <3>1, FS_Singleton, LatestIsLast
      <3>. QED
        BY <3>2
    <2>4. NoScan.uses[t] = 0 /\ NoScan.newest[t] = <<-1, -1>>
      BY DEF NoScan
    <2>. QED
      BY <2>1, <2>2, <2>3, <2>4
  <1>6. Tallies({}, scan')
    BY <1>4, <1>5 DEF Tallies
  <1>7. Tallied({})'
    <2>1. {r \in steady' : r.id <= scan'.after} \subseteq {}
      <3>1. \A r \in Shelf : ~ (r.id <= 0)
        BY ShelfIsFinite
      <3>. QED
        BY <1>1, <1>4, <3>1
    <2>2. Tallies({}, scan)'
      BY <1>6 DEF Tallies, Uses, PlacesWith
    <2>. QED
      BY <2>1, <2>2 DEF Tallied
  <1>8. \E C \in SUBSET Rows : Tallied(C)'
    <2>1. {} \in SUBSET Rows
      OBVIOUS
    <2>. QED
      BY <1>7, <2>1
  <1>. QED
    BY <1>1, <1>2, <1>4, <1>8, ReadsInvParts DEF ReadsInv

\* The page past an id.
PageOf(after) == {r \in NextRows(after) : Cardinality({s \in NextRows(after) : s.id < r.id}) < ScanRows}

\* A page that is not full is the last: no row is past it.  A full one has every row up to the
\* largest id it read.
LEMMA PageIsPrefix ==
  ASSUME NEW after \in Nat
  PROVE  /\ PageOf(after) \subseteq NextRows(after) /\ NextRows(after) \subseteq Shelf
         /\ Cardinality(PageOf(after)) < ScanRows => PageOf(after) = NextRows(after)
         /\ ~ (Cardinality(PageOf(after)) < ScanRows) =>
              /\ Max({r.id : r \in PageOf(after)}) \in Nat
              /\ \A r \in PageOf(after) : r.id <= Max({s.id : s \in PageOf(after)})
              /\ \A r \in NextRows(after) : r.id <= Max({s.id : s \in PageOf(after)}) => r \in PageOf(after)
  <1>1. PICK N : N = NextRows(after)
    OBVIOUS
  <1>2. PICK P : P = PageOf(after)
    OBVIOUS
  <1>3. N \in SUBSET Rows /\ N \subseteq Shelf /\ P \in SUBSET N /\ P \in SUBSET Rows
    BY <1>1, <1>2, ShelfIsFinite DEF NextRows, PageOf
  <1>4. \A r \in N : r.id \in Nat /\ {s \in N : s.id < r.id} \in SUBSET Rows
    BY <1>3, ShelfIsFinite
  <1>5. P = {r \in N : Cardinality({s \in N : s.id < r.id}) < ScanRows}
    BY <1>1, <1>2 DEF PageOf
  <1>6. ScanRows \in Nat /\ ScanRows # 0
    BY SqlReadsAssumption
  <1>7. ASSUME Cardinality(P) < ScanRows PROVE P = N
    <2>1. ASSUME N \ P # {} PROVE FALSE
      <3>1. PICK I : I = {r.id : r \in N \ P}
        OBVIOUS
      <3>2. I \in SUBSET Nat /\ I # {}
        BY <1>4, <2>1, <3>1
      <3>3. PICK m \in I : \A x \in I : m <= x
        BY <3>2, NaturalsHaveMin
      <3>4. PICK r \in N \ P : r.id = m
        BY <3>1, <3>3
      <3>5. \A s \in N : s.id < r.id => s \in P
        <4>1. ASSUME NEW s \in N, s.id < r.id, s \notin P PROVE FALSE
          <5>1. m <= s.id /\ s.id \in Nat /\ m \in Nat
            BY <1>4, <3>1, <3>2, <3>3, <4>1
          <5>. QED
            BY <3>4, <4>1, <5>1
        <4>. QED
          BY <4>1
      <3>6. {s \in N : s.id < r.id} \in SUBSET P
        BY <3>5
      <3>7. IsFiniteSet(P) /\ Cardinality(P) \in Nat
        BY <1>3, ShelfIsFinite
      <3>8. Cardinality({s \in N : s.id < r.id}) <= Cardinality(P)
        BY <3>6, <3>7, FS_Subset
      <3>9. Cardinality({s \in N : s.id < r.id}) \in Nat
        BY <1>4, ShelfIsFinite
      <3>10. Cardinality({s \in N : s.id < r.id}) < ScanRows
        BY <1>6, <1>7, <3>7, <3>8, <3>9
      <3>. QED
        BY <1>5, <3>4, <3>10
    <2>. QED
      BY <1>3, <2>1
  <1>8. ASSUME ~ (Cardinality(P) < ScanRows)
        PROVE  /\ Max({r.id : r \in P}) \in Nat /\ \A r \in P : r.id <= Max({s.id : s \in P})
               /\ \A r \in N : r.id <= Max({s.id : s \in P}) => r \in P
    <2>1. P # {} /\ IsFiniteSet(P)
      BY <1>3, <1>6, <1>8, ShelfIsFinite, FS_EmptySet
    <2>2. PICK I : I = {r.id : r \in P}
      OBVIOUS
    <2>3. IsFiniteSet(I)
      <3>1. PICK f : f = [r \in P |-> r.id]
        OBVIOUS
      <3>2. f \in Surjection(P, I)
        BY <2>2, <3>1 DEF Surjection
      <3>. QED
        BY <2>1, <3>2, FS_Surjection
    <2>4. I \in SUBSET Int /\ I # {} /\ I \in SUBSET Nat
      BY <1>3, <1>4, <2>1, <2>2
    <2>5. PICK m \in I : m = Max(I) /\ \A x \in I : x <= m
      BY <2>3, <2>4, FiniteHasMax
    <2>6. PICK p \in P : p.id = m
      BY <2>2, <2>5
    <2>7. ASSUME NEW r \in N, r.id <= m PROVE r \in P
      <3>1. {s \in N : s.id < r.id} \in SUBSET {s \in N : s.id < p.id}
        <4>1. \A s \in N : s.id < r.id => s.id < p.id
          BY <1>3, <1>4, <2>6, <2>7
        <4>. QED
          BY <4>1
      <3>2. p \in N
        BY <1>3
      <3>3. {s \in N : s.id < p.id} \in SUBSET Rows /\ {s \in N : s.id < r.id} \in SUBSET Rows
        BY <1>4, <3>2
      <3>4. /\ IsFiniteSet({s \in N : s.id < p.id}) /\ Cardinality({s \in N : s.id < p.id}) \in Nat
            /\ Cardinality({s \in N : s.id < r.id}) \in Nat
        BY <3>3, ShelfIsFinite
      <3>5. Cardinality({s \in N : s.id < r.id}) <= Cardinality({s \in N : s.id < p.id})
        BY <3>1, <3>4, FS_Subset
      <3>6. Cardinality({s \in N : s.id < p.id}) < ScanRows
        BY <1>5
      <3>7. Cardinality({s \in N : s.id < r.id}) < ScanRows
        BY <1>6, <3>4, <3>5, <3>6
      <3>. QED
        BY <1>5, <3>7
    <2>8. m \in Nat /\ \A r \in P : r.id <= m
      BY <2>2, <2>4, <2>5
    <2>. QED
      BY <2>2, <2>5, <2>7, <2>8
  <1>9. P \subseteq N /\ N \subseteq Shelf
    BY <1>3
  <1>. QED
    BY <1>1, <1>2, <1>7, <1>8, <1>9

\* A page counts its rows; the last one answers.
LEMMA PageKeeps == ASSUME ReadsInv, TagsPage PROVE ReadsInv'
  <1>1. PICK P : P = PageOf(scan.after)
    OBVIOUS
  <1>2. PICK so : so = Counted(P)
    OBVIOUS
  <1>3. /\ scan.step = "page" /\ fate' = fate /\ steady' = steady /\ met' = met
        /\ IF Cardinality(P) < ScanRows
           THEN \E s \in Sorted({t \in Tags : so.uses[t] > 0}, {tu \in Tags \X Tags : Commoner(so, tu[1], tu[2])}) :
                  scan' = Commonest(so, s)
           ELSE scan' = [so EXCEPT !.after = Max({r.id : r \in P})]
    <2>1. /\ scan.step = "page" /\ UNCHANGED <<fate, steady, met>>
          /\ IF Cardinality(PageOf(scan.after)) < ScanRows
             THEN \E s \in Sorted({t \in Tags : Counted(PageOf(scan.after)).uses[t] > 0},
                                 {tu \in Tags \X Tags : Commoner(Counted(PageOf(scan.after)), tu[1], tu[2])}) :
                    scan' = Commonest(Counted(PageOf(scan.after)), s)
             ELSE scan' = [Counted(PageOf(scan.after)) EXCEPT !.after = Max({r.id : r \in PageOf(scan.after)})]
      BY Zenon DEF TagsPage, PageOf, Commonest
    <2>. QED
      BY <1>1, <1>2, <2>1
  <1>4. scan \in ScanState /\ scan.after \in Nat /\ Shelf \subseteq met /\ steady \subseteq Shelf
        /\ steady \subseteq met /\ met \subseteq Rows
    BY <1>3 DEF ReadsInv, ScanState
  <1>5. PICK C \in SUBSET Rows : Tallied(C)
    BY <1>3 DEF ReadsInv
  <1>6. P \subseteq NextRows(scan.after) /\ NextRows(scan.after) \subseteq Shelf
    BY <1>1, <1>4, PageIsPrefix
  <1>7. P \in SUBSET Rows /\ \A r \in P : r.id > scan.after
    BY <1>6, ShelfIsFinite DEF NextRows
  <1>8. C \cap P = {}
    <2>1. \A r \in C : r.id <= scan.after /\ r.id \in Nat
      BY <1>5, ShelfIsFinite DEF Tallied
    <2>2. \A r \in P : ~ (r.id <= scan.after)
      BY <1>4, <1>7, ShelfIsFinite
    <2>. QED
      BY <2>1, <2>2
  <1>9. PICK D : D = C \cup P
    OBVIOUS
  <1>10. Tallies(D, so)
    BY <1>2, <1>4, <1>5, <1>7, <1>8, <1>9, PageIsTallied DEF Tallied
  <1>11. D \in SUBSET Rows /\ D \subseteq met
    BY <1>4, <1>5, <1>6, <1>7, <1>9 DEF Tallied
  <1>12. so \in ScanState /\ so.step = "page" /\ so.wanted = scan.wanted /\ so.after = scan.after
    BY <1>2, <1>3, <1>4, <1>7, CountedParts
  <1>13. \A r \in steady : r \in C \/ r \in NextRows(scan.after)
    <2>1. \A r \in steady : r.id \in Nat /\ (r.id <= scan.after => r \in C)
      BY <1>4, <1>5, ShelfIsFinite DEF Tallied
    <2>2. \A r \in steady : r.id <= scan.after \/ r.id > scan.after
      BY <1>4, <2>1
    <2>. QED
      BY <1>4, <2>1, <2>2 DEF NextRows
  <1>14. CASE Cardinality(P) < ScanRows
    <2>1. P = NextRows(scan.after)
      BY <1>1, <1>4, <1>14, PageIsPrefix
    <2>2. steady \in SUBSET D /\ D \in SUBSET met /\ met \in SUBSET Rows
      BY <1>4, <1>9, <1>11, <1>13, <2>1
    <2>3. PICK s \in Sorted({t \in Tags : so.uses[t] > 0}, {tu \in Tags \X Tags : Commoner(so, tu[1], tu[2])}) :
            scan' = Commonest(so, s)
      BY <1>3, <1>14
    <2>4. Commonest(so, s) \in ScanState /\ Commonest(so, s).step = "done"
          /\ AnswerHolds(Commonest(so, s), steady, met)
      BY <1>10, <1>12, <2>2, CommonestHold
    <2>5. scan' \in ScanState /\ scan'.step = "done" /\ AnswerHolds(scan', steady', met')
      BY <1>3, <2>3, <2>4
    <2>6. Shelf' = Shelf
      BY <1>3 DEF Shelf
    <2>. QED
      BY <1>3, <1>4, <2>5, <2>6, ReadsInvParts DEF ReadsInv
  <1>15. CASE ~ (Cardinality(P) < ScanRows)
    <2>1. PICK m : m = Max({r.id : r \in P})
      OBVIOUS
    <2>2. m \in Nat /\ (\A r \in P : r.id <= m) /\ \A r \in NextRows(scan.after) : r.id <= m => r \in P
      BY <1>1, <1>4, <1>15, <2>1, PageIsPrefix
    <2>3. scan' = [so EXCEPT !.after = m]
      BY <1>3, <1>15, <2>1
    <2>4. /\ scan' \in ScanState /\ scan'.step = "page" /\ scan'.after = m
          /\ scan'.uses = so.uses /\ scan'.newest = so.newest /\ scan'.wanted = so.wanted
      BY <1>12, <2>2, <2>3 DEF ScanState
    <2>5. Tallies(D, scan')
      BY <1>10, <2>4 DEF Tallies
    <2>6. scan.after <= m
      <3>1. P # {}
        BY <1>7, <1>15, FS_EmptySet, SqlReadsAssumption
      <3>2. PICK r \in P : TRUE
        BY <3>1
      <3>3. r.id > scan.after /\ r.id <= m /\ r.id \in Nat
        BY <1>7, <2>2, ShelfIsFinite
      <3>. QED
        BY <1>4, <2>2, <3>3
    <2>7. \A r \in D : r.id <= m
      <3>1. \A r \in C : r.id <= scan.after /\ r.id \in Nat
        BY <1>5, ShelfIsFinite DEF Tallied
      <3>. QED
        BY <1>4, <1>9, <2>2, <2>6, <3>1
    <2>8. {r \in steady : r.id <= m} \subseteq D
      BY <1>9, <1>13, <2>2
    <2>9. Tallied(D)'
      <3>1. Tallies(D, scan)'
        BY <2>5 DEF Tallies, Uses, PlacesWith
      <3>. QED
        BY <1>3, <1>11, <2>4, <2>7, <2>8, <3>1 DEF Tallied
    <2>10. Shelf' = Shelf
      BY <1>3 DEF Shelf
    <2>. QED
      BY <1>3, <1>4, <1>11, <2>4, <2>9, <2>10, ReadsInvParts DEF ReadsInv
  <1>. QED
    BY <1>14, <1>15

\* Every step of the reads keeps it.
LEMMA ReadsInvStep == ReadsInv /\ [SqlNext]_sqlVars => ReadsInv'
  <1>. SUFFICES ASSUME ReadsInv, [SqlNext]_sqlVars PROVE ReadsInv'
    OBVIOUS
  <1>0. fate \in [Rows -> {"none", "there", "gone"}]
    BY DEF ReadsInv
  <1>1. ASSUME NEW r \in Rows, Stores(r) PROVE ReadsInv'
    <2>1. [fate EXCEPT ![r] = "there"] \in [Rows -> {"none", "there", "gone"}]
      BY <1>0
    <2>. QED
      BY <1>1, <2>1, MovesKeep DEF Stores
  <1>2. ASSUME NEW r \in Rows, Removes(r) PROVE ReadsInv'
    <2>1. [fate EXCEPT ![r] = "gone"] \in [Rows -> {"none", "there", "gone"}]
      BY <1>0
    <2>. QED
      BY <1>2, <2>1, MovesKeep DEF Removes
  <1>3. ASSUME NEW wanted \in {Tags} \cup {{t} : t \in Tags}, TagsBegins(wanted) PROVE ReadsInv'
    <2>1. wanted \in SUBSET Tags
      OBVIOUS
    <2>. QED
      BY <1>3, <2>1, BeginsKeep
  <1>4. ASSUME TagsPage PROVE ReadsInv'
    BY <1>4, PageKeeps
  <1>5. ASSUME TagsAnswered PROVE ReadsInv'
    <2>1. fate' = fate /\ scan' = NoScan /\ steady' = {} /\ met' = {}
      BY <1>5 DEF TagsAnswered
    <2>2. NoScan \in ScanState /\ NoScan.step = "idle"
      <3>1. <<>> \in Seq(Tags \X Nat)
        BY EmptySeq
      <3>. QED
        BY <3>1 DEF NoScan, ScanState
    <2>. QED
      BY <1>0, <2>1, <2>2, ReadsInvParts
  <1>6. ASSUME UNCHANGED sqlVars PROVE ReadsInv'
    <2>1. fate' = fate /\ scan' = scan /\ steady' = steady /\ met' = met
      BY <1>6 DEF sqlVars
    <2>2. Shelf' = Shelf /\ \A C \in SUBSET Rows : Tallied(C) => Tallied(C)'
      BY <2>1 DEF Shelf, Tallied, Tallies, Uses, PlacesWith
    <2>. QED
      BY <2>1, <2>2, ReadsInvParts DEF ReadsInv
  <1>. QED
    BY <1>1, <1>2, <1>3, <1>4, <1>5, <1>6 DEF SqlNext

\* It is what the reads promise.
LEMMA ReadsInvSuffices == ReadsInv => SqlReadsHold
  <1>1. ReadsInv => TagsHold
    BY DEF ReadsInv, TagsHold, AnswerHolds
  <1>. QED
    BY <1>1, PagesAreWindows, BucketsAreCounts, GroupsAreRows DEF SqlReadsHold

\* What the dashboard is told of the table is what its rows say, for any rows, page sizes and
\* limits, whatever other processes insert and delete between two pages of a count: list() pages
\* hold every row once, buckets and families are counted in full, traces come by when they were
\* last seen, and a tag counts every row that stayed once and no row twice (list, listTraceIds,
\* countByBucket, countFamilies, countTags).
THEOREM ReadsTellTheTable == StoreSpec => []SqlReadsHold
  <1>1. StoreInit => ReadsInv
    BY ReadsInvInit DEF StoreInit
  <1>2. [StoreNext]_sqlStoreVars => [SqlNext]_sqlVars
    BY DEF StoreNext, Writing, Booting, Counting, sqlStoreVars
  <1>3. ReadsInv /\ [StoreNext]_sqlStoreVars => ReadsInv'
    BY <1>2, ReadsInvStep
  <1>. QED
    BY <1>1, <1>3, ReadsInvSuffices, PTL DEF StoreSpec
=============================================================================

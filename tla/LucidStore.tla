------------------------------ MODULE LucidStore ------------------------------
(***************************************************************************)
(* The SQL store: record() buffers rows that one drain at a time inserts   *)
(* in batches; prune() deletes by position, oldest first, a batch per      *)
(* statement; clear() flushes and empties the table.  Any pod shares the   *)
(* table; each seeds its own sequence when it initialises, and an          *)
(* initialisation that failed is tried again after RetryDelay.             *)
(*                                                                         *)
(*   a call: none -> init -> queued -> written | failed;  dropped; lost    *)
(*   a drain: none -> scheduled -> taking <-> all -> one -> ... -> ended   *)
(***************************************************************************)
EXTENDS Integers, FiniteSets, SequencesExt

CONSTANTS Entry,        \* the calls of record() there will ever be
          Pod,          \* processes sharing the table
          MaxPending,   \* MAX_PENDING_WRITES
          BatchRows,    \* INSERT_BATCH_ROWS
          PruneRows,    \* PRUNE_BATCH_ROWS
          Retention,    \* age at which the caller of prune() wants rows gone
          KeepLast,     \* keepLast, or -1 when prune() is called without it
          RetryDelay,   \* INIT_RETRY_DELAY_MS
          MaxTime       \* bound: the clock stops there

ASSUME LucidAssumption ==
  /\ MaxPending \in Nat \ {0} /\ BatchRows \in Nat \ {0} /\ PruneRows \in Nat \ {0}
  /\ Retention \in Nat /\ KeepLast \in Int /\ RetryDelay \in Nat /\ MaxTime \in Nat

VARIABLES now,
          table,      \* entries with a row in the table
          at, seq,    \* entry -> created_at and sequence of its row
          call,       \* entry -> the state of its record()
          owner,      \* entry -> the pod that recorded it
          ready,      \* pod -> none, running, ok or failed
          failedAt,   \* pod -> when its last failed initialisation failed
          sequence,   \* pod -> the next sequence
          pending,    \* pod -> buffered entries, oldest first
          drain,      \* pod -> where its drain stands
          batch,      \* pod -> entries of the INSERT in flight, then of its retry
          clearing,   \* pod -> no, flush or delete
          covers,     \* history: pod -> entries buffered or written when clear() began
          cleared,    \* history: entries a finished clear() must have deleted
          prune,      \* pod -> the prune in progress
          took,       \* history: entries that ever had a row
          unsure      \* history: entries whose INSERT committed and was answered with an error

callVars == <<at, seq, call, owner>>
initVars == <<ready, failedAt, sequence>>
drainVars == <<pending, drain, batch>>
clearVars == <<clearing, covers, cleared>>
tableVars == <<table, took, unsure>>
vars == <<now, callVars, initVars, drainVars, clearVars, tableVars, prune>>

Idle == [step |-> "idle", cutoff |-> 0, from |-> {}, edge |-> {}]

Init ==
  /\ now = 0
  /\ table = {}
  /\ at = [e \in Entry |-> 0]
  /\ seq = [e \in Entry |-> 0]
  /\ call = [e \in Entry |-> "none"]
  /\ owner \in [Entry -> Pod]
  /\ ready = [p \in Pod |-> "none"]
  /\ failedAt = [p \in Pod |-> 0]
  /\ sequence = [p \in Pod |-> 0]
  /\ pending = [p \in Pod |-> <<>>]
  /\ drain = [p \in Pod |-> "none"]
  /\ batch = [p \in Pod |-> <<>>]
  /\ clearing = [p \in Pod |-> "no"]
  /\ covers = [p \in Pod |-> {}]
  /\ cleared = {}
  /\ prune = [p \in Pod |-> Idle]
  /\ took = {}
  /\ unsure = {}

Buffered(p) == ToSet(pending[p]) \cup ToSet(batch[p])

Tick ==
  /\ now < MaxTime
  /\ now' = now + 1
  /\ UNCHANGED <<callVars, initVars, drainVars, clearVars, tableVars, prune>>

-----------------------------------------------------------------------------
(* init(): once, shared by every caller, tried again some time after it failed. *)

Retries(p) == ready[p] = "failed" /\ now - failedAt[p] >= RetryDelay

\* What the caller of init() finds: a running, finished or freshly failed attempt is
\* shared, anything else starts one.
Begins(p) == ready[p] = "none" \/ Retries(p)

\* Mutant: the counter restarts at the persisted maximum itself.
InitDoneAtMax(p) ==
  /\ ready[p] = "running"
  /\ ready' = [ready EXCEPT ![p] = "ok"]
  /\ sequence' = [sequence EXCEPT ![p] = Max({0} \cup {seq[e] : e \in table})]
  /\ UNCHANGED <<now, callVars, failedAt, drainVars, clearVars, tableVars, prune>>

\* doInit(): the counter goes on from the largest persisted sequence.
InitDone(p) ==
  /\ ready[p] = "running"
  /\ ready' = [ready EXCEPT ![p] = "ok"]
  /\ sequence' = [sequence EXCEPT ![p] = Max({-1} \cup {seq[e] : e \in table}) + 1]
  /\ UNCHANGED <<now, callVars, failedAt, drainVars, clearVars, tableVars, prune>>

\* A read, a prune or a clear initialises the store as a record() does.
InitBegins(p) ==
  /\ Begins(p)
  /\ ready' = [ready EXCEPT ![p] = "running"]
  /\ UNCHANGED <<now, callVars, failedAt, sequence, drainVars, clearVars, tableVars, prune>>

InitFails(p) ==
  /\ ready[p] = "running"
  /\ ready' = [ready EXCEPT ![p] = "failed"]
  /\ failedAt' = [failedAt EXCEPT ![p] = now]
  /\ call' = [e \in Entry |-> IF call[e] = "init" /\ owner[e] = p THEN "failed" ELSE call[e]]
  /\ UNCHANGED <<now, at, seq, owner, sequence, drainVars, clearVars, tableVars, prune>>

-----------------------------------------------------------------------------
(* record()                                                                 *)

\* Mutant: a failed initialisation is cached for ever.
RecordNoRetry(e) ==
  LET p == owner[e]
  IN  /\ call[e] = "none"
      /\ call' = [call EXCEPT ![e] = IF ready[p] = "failed" THEN "failed" ELSE "init"]
      /\ ready' = [ready EXCEPT ![p] = IF @ = "none" THEN "running" ELSE @]
      /\ UNCHANGED <<now, at, seq, owner, failedAt, sequence, drainVars, clearVars, tableVars, prune>>

Record(e) ==
  LET p == owner[e]
  IN  /\ call[e] = "none"
      /\ call' = [call EXCEPT ![e] =
           IF ready[p] = "failed" /\ ~ Retries(p) THEN "failed" ELSE "init"]
      /\ ready' = [ready EXCEPT ![p] = IF Begins(p) THEN "running" ELSE @]
      /\ UNCHANGED <<now, at, seq, owner, failedAt, sequence, drainVars, clearVars, tableVars, prune>>

\* The row is built and buffered once init() has resolved; a full buffer drops it and
\* resolves all the same.
Queue(e) ==
  LET p == owner[e]
      full == Len(pending[p]) >= MaxPending
  IN  /\ call[e] = "init"
      /\ ready[p] = "ok"
      /\ at' = [at EXCEPT ![e] = now]
      /\ seq' = [seq EXCEPT ![e] = sequence[p]]
      /\ sequence' = [sequence EXCEPT ![p] = @ + 1]
      /\ call' = [call EXCEPT ![e] = IF full THEN "dropped" ELSE "queued"]
      /\ pending' = [pending EXCEPT ![p] = IF full THEN @ ELSE Append(@, e)]
      /\ drain' = [drain EXCEPT ![p] = IF ~ full /\ @ = "none" THEN "scheduled" ELSE @]
      /\ UNCHANGED <<now, owner, ready, failedAt, batch, clearVars, tableVars, prune>>

-----------------------------------------------------------------------------
(* drain()                                                                  *)

\* Mutant: the newest rows go first.
TakeNewest(p) ==
  /\ drain[p] \in {"scheduled", "taking"}
  /\ \E n \in 1 .. BatchRows :
       LET keep == Len(pending[p]) - n
       IN  /\ keep >= 0
           /\ batch' = [batch EXCEPT ![p] = SubSeq(pending[p], keep + 1, Len(pending[p]))]
           /\ pending' = [pending EXCEPT ![p] = SubSeq(@, 1, keep)]
  /\ drain' = [drain EXCEPT ![p] = "all"]
  /\ UNCHANGED <<now, callVars, initVars, clearVars, tableVars, prune>>

\* takeBatch(): up to BatchRows rows, fewer when they are too many bytes.
TakeBatch(p) ==
  /\ drain[p] \in {"scheduled", "taking"}
  /\ \E n \in 1 .. BatchRows :
       /\ n <= Len(pending[p])
       /\ batch' = [batch EXCEPT ![p] = SubSeq(pending[p], 1, n)]
       /\ pending' = [pending EXCEPT ![p] = SubSeq(@, n + 1, Len(@))]
  /\ drain' = [drain EXCEPT ![p] = "all"]
  /\ UNCHANGED <<now, callVars, initVars, clearVars, tableVars, prune>>

Stored(S) == table' = table \cup S /\ took' = took \cup S
Settle(S, how) == call' = [e \in Entry |-> IF e \in S THEN how ELSE call[e]]

\* The multi-row INSERT; the id is the primary key.
InsertBatch(p) ==
  /\ drain[p] = "all"
  /\ Stored(ToSet(batch[p]))
  /\ Settle(ToSet(batch[p]), "written")
  /\ batch' = [batch EXCEPT ![p] = <<>>]
  /\ drain' = [drain EXCEPT ![p] = "taking"]
  /\ UNCHANGED <<now, at, seq, owner, initVars, pending, clearVars, unsure, prune>>

\* Mutant: the rows of a failed batch are reported written.
InsertBatchFailsSilently(p) ==
  /\ drain[p] = "all"
  /\ Settle(ToSet(batch[p]), "written")
  /\ batch' = [batch EXCEPT ![p] = <<>>]
  /\ drain' = [drain EXCEPT ![p] = "taking"]
  /\ UNCHANGED <<now, at, seq, owner, initVars, pending, clearVars, tableVars, prune>>

\* It fails, or it commits and its answer is lost: its rows are retried one by one.
InsertBatchFails(p) ==
  LET S == ToSet(batch[p])
  IN  /\ drain[p] = "all"
      /\ \/ Stored({}) /\ UNCHANGED unsure
         \/ Stored(S) /\ unsure' = unsure \cup S
      /\ IF Cardinality(S) = 1
         THEN /\ Settle(S, "failed")
              /\ batch' = [batch EXCEPT ![p] = <<>>]
              /\ drain' = [drain EXCEPT ![p] = "taking"]
         ELSE drain' = [drain EXCEPT ![p] = "one"] /\ UNCHANGED <<call, batch>>
      /\ UNCHANGED <<now, at, seq, owner, initVars, pending, clearVars, prune>>

\* One row of the retry; a row that is in the table already violates the primary key.  It too
\* may fail, or commit and lose its answer.
InsertOne(p) ==
  LET e == Head(batch[p])
  IN  /\ drain[p] = "one"
      /\ \/ e \notin table /\ Stored({e}) /\ Settle({e}, "written") /\ UNCHANGED unsure
         \/ e \notin table /\ Stored({e}) /\ Settle({e}, "failed") /\ unsure' = unsure \cup {e}
         \/ Stored({}) /\ Settle({e}, "failed") /\ UNCHANGED unsure
      /\ batch' = [batch EXCEPT ![p] = Tail(@)]
      /\ drain' = [drain EXCEPT ![p] = IF Len(batch[p]) = 1 THEN "taking" ELSE "one"]
      /\ UNCHANGED <<now, at, seq, owner, initVars, pending, clearVars, prune>>

\* The buffer is empty; the drain's promise settles a moment later.
DrainEnds(p) ==
  /\ drain[p] \in {"scheduled", "taking"}
  /\ pending[p] = <<>>
  /\ drain' = [drain EXCEPT ![p] = "ended"]
  /\ UNCHANGED <<now, callVars, initVars, pending, batch, clearVars, tableVars, prune>>

\* Mutant: a write that arrived meanwhile is left to the next record().
DrainOnce(p) ==
  /\ drain[p] = "ended"
  /\ drain' = [drain EXCEPT ![p] = "none"]
  /\ UNCHANGED <<now, callVars, initVars, pending, batch, clearVars, tableVars, prune>>

\* finally: a write that arrived meanwhile gets a drain of its own.
DrainAgain(p) ==
  /\ drain[p] = "ended"
  /\ drain' = [drain EXCEPT ![p] = IF pending[p] = <<>> THEN "none" ELSE "scheduled"]
  /\ UNCHANGED <<now, callVars, initVars, pending, batch, clearVars, tableVars, prune>>

-----------------------------------------------------------------------------
(* clear()                                                                  *)

\* Mutant: the table is emptied without flushing the buffer first.
ClearUnflushed(p) ==
  /\ clearing[p] = "no"
  /\ ready[p] = "ok"
  /\ clearing' = [clearing EXCEPT ![p] = "delete"]
  /\ covers' = [covers EXCEPT ![p] = table \cup Buffered(p)]
  /\ UNCHANGED <<now, callVars, initVars, drainVars, cleared, tableVars, prune>>

Clear(p) ==
  /\ clearing[p] = "no"
  /\ ready[p] = "ok"
  /\ clearing' = [clearing EXCEPT ![p] = "flush"]
  /\ covers' = [covers EXCEPT ![p] = table \cup Buffered(p)]
  /\ UNCHANGED <<now, callVars, initVars, drainVars, cleared, tableVars, prune>>

\* flush(): wait until no drain is running.
Flushed(p) ==
  /\ clearing[p] = "flush"
  /\ drain[p] = "none"
  /\ clearing' = [clearing EXCEPT ![p] = "delete"]
  /\ UNCHANGED <<now, callVars, initVars, drainVars, covers, cleared, tableVars, prune>>

DeleteAll(p) ==
  /\ clearing[p] = "delete"
  /\ table' = {}
  /\ clearing' = [clearing EXCEPT ![p] = "no"]
  /\ cleared' = cleared \cup covers[p]
  /\ covers' = [covers EXCEPT ![p] = {}]
  /\ UNCHANGED <<now, callVars, initVars, drainVars, took, unsure, prune>>

-----------------------------------------------------------------------------
(* prune()                                                                  *)

Position(e) == <<at[e], seq[e]>>
IsNewer(a, b) == a[1] > b[1] \/ (a[1] = b[1] /\ a[2] > b[2])
Older(cutoff) == {e \in table : at[e] < cutoff}

\* Rows a position query may meet: older than the cutoff, or at or before `from`.
Doomed(q) ==
  IF q.from = {} THEN Older(q.cutoff)
  ELSE {e \in table : \A b \in q.from : ~ IsNewer(Position(e), b)}

PruneStart(p) ==
  /\ prune[p] = Idle
  /\ ready[p] = "ok"
  /\ prune' = [prune EXCEPT ![p] =
       [Idle EXCEPT !.step = IF KeepLast < 0 THEN "edge" ELSE "position", !.cutoff = now - Retention]]
  /\ UNCHANGED <<now, callVars, initVars, drainVars, clearVars, tableVars>>

\* Mutant: the first kept row counts as doomed.
PrunePositionShort(p) ==
  LET W == Older(prune[p].cutoff)
      found == {b \in {Position(e) : e \in W} :
                  /\ Cardinality({e \in W : IsNewer(Position(e), b)}) <= KeepLast - 1
                  /\ Cardinality({e \in W : ~ IsNewer(b, Position(e))}) > KeepLast - 1}
  IN  /\ prune[p].step = "position"
      /\ prune' = [prune EXCEPT ![p] =
           IF found = {} THEN Idle ELSE [@ EXCEPT !.step = "edge", !.from = found]]
      /\ UNCHANGED <<now, callVars, initVars, drainVars, clearVars, tableVars>>

\* The newest doomed row is the first one past the newest KeepLast of the old rows.
PrunePosition(p) ==
  LET W == Older(prune[p].cutoff)
      found == {b \in {Position(e) : e \in W} :
                  /\ Cardinality({e \in W : IsNewer(Position(e), b)}) <= KeepLast
                  /\ Cardinality({e \in W : ~ IsNewer(b, Position(e))}) > KeepLast}
  IN  /\ prune[p].step = "position"
      /\ prune' = [prune EXCEPT ![p] =
           IF found = {} THEN Idle ELSE [@ EXCEPT !.step = "edge", !.from = found]]
      /\ UNCHANGED <<now, callVars, initVars, drainVars, clearVars, tableVars>>

\* The batch ends at the PruneRows-th oldest doomed row, if there are that many.
PruneEdge(p) ==
  LET D == Doomed(prune[p])
      found == {b \in {Position(e) : e \in D} :
                  /\ Cardinality({e \in D : IsNewer(b, Position(e))}) <= PruneRows - 1
                  /\ Cardinality({e \in D : ~ IsNewer(Position(e), b)}) > PruneRows - 1}
  IN  /\ prune[p].step = "edge"
      /\ prune' = [prune EXCEPT ![p] = [@ EXCEPT !.step = "delete", !.edge = found]]
      /\ UNCHANGED <<now, callVars, initVars, drainVars, clearVars, tableVars>>

PruneDelete(p) ==
  LET q == prune[p]
      gone == {e \in Doomed(q) : \A b \in q.edge : ~ IsNewer(Position(e), b)}
  IN  /\ q.step = "delete"
      /\ table' = table \ gone
      /\ prune' = [prune EXCEPT ![p] =
           IF q.edge = {} THEN Idle ELSE [@ EXCEPT !.step = "edge", !.edge = {}]]
      /\ UNCHANGED <<now, callVars, initVars, drainVars, clearVars, took, unsure>>

-----------------------------------------------------------------------------
\* The process dies and another takes its place: an INSERT in flight may have committed.
Crash(p) ==
  /\ ready[p] # "none"
  /\ \E S \in {{}, IF drain[p] = "all" THEN ToSet(batch[p])
                   ELSE IF drain[p] = "one" THEN {Head(batch[p])} \ table ELSE {}} : Stored(S)
  /\ call' = [e \in Entry |->
       IF owner[e] = p /\ call[e] \in {"init", "queued"} THEN "lost" ELSE call[e]]
  /\ ready' = [ready EXCEPT ![p] = "none"]
  /\ failedAt' = [failedAt EXCEPT ![p] = 0]
  /\ sequence' = [sequence EXCEPT ![p] = 0]
  /\ pending' = [pending EXCEPT ![p] = <<>>]
  /\ drain' = [drain EXCEPT ![p] = "none"]
  /\ batch' = [batch EXCEPT ![p] = <<>>]
  /\ clearing' = [clearing EXCEPT ![p] = "no"]
  /\ covers' = [covers EXCEPT ![p] = {}]
  /\ prune' = [prune EXCEPT ![p] = Idle]
  /\ UNCHANGED <<now, at, seq, owner, cleared, unsure>>

DrainStep(p) ==
  \/ TakeBatch(p) \/ InsertBatch(p) \/ InsertBatchFails(p) \/ InsertOne(p)
  \/ DrainEnds(p) \/ DrainAgain(p)
InitStep(p) == InitBegins(p) \/ InitDone(p) \/ InitFails(p)
ClearStep(p) == Flushed(p) \/ DeleteAll(p)
PruneStep(p) == PrunePosition(p) \/ PruneEdge(p) \/ PruneDelete(p)

Next ==
  \/ Tick
  \/ \E e \in Entry : Record(e) \/ Queue(e)
  \/ \E p \in Pod : \/ InitStep(p) \/ DrainStep(p) \/ Clear(p) \/ ClearStep(p)
                    \/ PruneStart(p) \/ PruneStep(p) \/ Crash(p)

Spec == Init /\ [][Next]_vars

-----------------------------------------------------------------------------
\* Every variable keeps the shape the code gives it.
TypeOK ==
  /\ now \in 0 .. MaxTime
  /\ table \subseteq took /\ took \subseteq Entry /\ unsure \subseteq took
  /\ at \in [Entry -> 0 .. MaxTime]
  /\ seq \in [Entry -> Nat]
  /\ call \in [Entry -> {"none", "init", "queued", "dropped", "written", "failed", "lost"}]
  /\ ready \in [Pod -> {"none", "running", "ok", "failed"}]
  /\ failedAt \in [Pod -> 0 .. MaxTime]
  /\ sequence \in [Pod -> Nat]
  /\ \A p \in Pod : Len(pending[p]) <= MaxPending /\ Len(batch[p]) <= BatchRows
  /\ drain \in [Pod -> {"none", "scheduled", "taking", "all", "one", "ended"}]
  /\ clearing \in [Pod -> {"no", "flush", "delete"}]
  /\ covers \in [Pod -> SUBSET Entry] /\ cleared \subseteq Entry

\* Whatever is buffered or taken has a drain that will settle it.
NoWriteStranded ==
  \A p \in Pod : /\ pending[p] # <<>> => drain[p] # "none"
                 /\ batch[p] # <<>> <=> drain[p] \in {"all", "one"}

\* What record() told its caller is true: a written row was in the table, a failed or
\* dropped one was not, unless the database lost the answer to its own commit; and a
\* row is buffered or in flight exactly while its call waits (record, writeBatch).  And no
\* call waits for a drain nobody will start, even one that came between the drain emptying
\* the buffer and its promise settling (scheduleDrain).
AnswersAreTrue ==
  /\ \A e \in Entry :
       /\ call[e] = "written" => e \in took
       /\ call[e] \in {"failed", "dropped"} /\ e \in took => e \in unsure
       /\ call[e] = "queued" <=> \E p \in Pod : e \in Buffered(p)
  /\ NoWriteStranded

\* What was recorded before clear() began stays gone once it returned, though the rows
\* were still in the buffer or in an INSERT, or its retry, in flight (clear, flush).
ClearedStaysGone == cleared \cap table = {}

\* A prune with keepLast never takes one of the newest KeepLast rows there were before
\* its cutoff, whatever is inserted or cleared between its queries (prune, atOrBefore).
KeepsNewest ==
  [][\A p \in Pod, e \in table \ table' :
       prune[p].step = "delete" /\ prune'[p] # prune[p] /\ ready'[p] = "ok" =>
         Cardinality({d \in took : at[d] < prune[p].cutoff /\ IsNewer(Position(d), Position(e))})
           >= KeepLast]_vars

PositionsAreUnique == \A d, e \in table : d # e => Position(d) # Position(e)

\* The order of the table.  No two rows share a position, so that "at or before" splits the
\* table between them: the sequence one process hands out never meets one a dead one left
\* (doInit).  And a pod's rows go in in the order they were recorded: no row is inserted
\* while an older one of that process still waits (takeBatch, the single drain).
RowsKeepOrder ==
  [][/\ PositionsAreUnique'
     /\ \A d, e \in Entry :
          (/\ e \in table' \ table
           /\ owner[d] = owner[e]
           /\ seq[d] < seq[e]) => d \notin ToSet(pending'[owner[e]])]_vars
=============================================================================

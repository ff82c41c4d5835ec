----------------------------- MODULE TieredStore -----------------------------
(***************************************************************************)
(* storage.tiered(): a hot store kept minutes deep and a Parquet cold tier *)
(* for everything older, shared by the pods of one application.  Every pod *)
(* runs its own prune cycle, one await at a time:                          *)
(*                                                                         *)
(*   idle -> page <-> edge -> flush -> ... -> lastFlush -> hotPrune        *)
(*        -> expireList -> expire -> compactList -> compact                *)
(*        -> compactRead -> compactDrop -> compact -> idle                 *)
(*                                                                         *)
(* Entries are model values; a file is the set of the entries in its rows, *)
(* and a file that does not exist has none (a vanished file reads as       *)
(* empty).  Time is counted in ticks.                                      *)
(***************************************************************************)
EXTENDS Integers, FiniteSets, TLC

CONSTANTS Entry,       \* everything the application may ever record
          Pod,         \* processes sharing the hot table and the cold location
          File,        \* names of Parquet objects; a name is reused once nobody holds it
          HotFor,      \* hotForMs: how deep the hot store is
          Retention,   \* prune.afterMs
          KeepLast,    \* prune.keepLast, or -1 when it is not set
          MoveBatch,   \* moveBatchSize
          MoveFlush,   \* moveFlushSize
          MaxRows,     \* maxRowsPerFile
          Compact,     \* compact: whether closed hours are merged
          HourLen,     \* length of a partition
          MaxLag,      \* bound: longest an entry waits in a pod's write buffer
          MaxTime      \* bound: the clock stops there

ASSUME TieredAssumption ==
  /\ HotFor \in Nat \ {0}
  /\ Retention \in Nat
  /\ KeepLast \in Int
  /\ MoveBatch \in Nat \ {0}
  /\ MoveFlush \in Nat /\ MoveFlush >= MoveBatch
  /\ MaxRows \in Nat \ {0}
  /\ Compact \in BOOLEAN
  /\ HourLen \in Nat \ {0}
  /\ MaxLag \in Nat
  /\ MaxTime \in Nat

VARIABLES now,        \* Date.now() of every pod
          born,       \* createdAt of a recorded entry
          recorded,   \* entries given a createdAt by record()
          pending,    \* pod -> recorded entries waiting to be inserted
          hot,        \* rows of the hot table
          rows,       \* file -> entries in it; {} when there is no such file
          pc,         \* pod -> where its prune cycle stands
          started,    \* pod -> Date.now() when the cycle computed its cutoffs
          top,        \* pod -> the move has copied everything from here to the cutoff
          buffer,     \* pod -> entries read from hot and not yet written
          written,    \* pod -> files this cycle's move wrote
          listing,    \* pod -> files of the cold listing still to be looked at
          batch,      \* pod -> files to delete, or being merged
          unread,     \* pod -> files of the batch not read yet
          merged,     \* pod -> entries read from the batch so far
          stored      \* history: entries the hot table ever took

storeVars == <<hot, rows>>
moveVars == <<started, top, buffer, written>>
coldVars == <<listing, batch, unread, merged>>
clockVars == <<now, born, recorded, pending, stored>>
vars == <<now, born, recorded, pending, hot, rows, pc, started, top, buffer,
          written, listing, batch, unread, merged, stored>>

-----------------------------------------------------------------------------
\* prune.keepLast is not configured.
Unset == -1

\* For TLC: entries, pods and file names are told apart by nothing.
Symmetry == Permutations(Entry) \cup Permutations(Pod) \cup Permutations(File)

Live == {f \in File : rows[f] # {}}
RowsOf(F) == UNION {rows[f] : f \in F}

Hour(t) == t \div HourLen
HourEnd(t) == (Hour(t) + 1) * HourLen

\* Mutant: the cutoff is taken again from the clock wherever it is used.
HotCutoffNow(p) == now - HotFor

HotCutoff(p) == started[p] - HotFor          \* entries below it leave the hot store
OlderThan(p) == started[p] - Retention       \* entries below it are past retention
MoveAfter(p) == IF KeepLast < 0 THEN OlderThan(p) ELSE 0

\* Mutant: the hour only has to have begun.
BegunBy(f, t) == \A e \in rows[f] : Hour(born[e]) * HourLen <= t

\* The hour of every row of f ended by t.
ClosedBy(f, t) == \A e \in rows[f] : HourEnd(born[e]) <= t
SamePartition(F) == \A d, e \in RowsOf(F) : Hour(born[d]) = Hour(born[e])
RowCount(F) == Cardinality({r \in F \X Entry : r[2] \in rows[r[1]]})

\* Names a writer may draw: no file has it and no cycle still refers to it (a uuid).
Fresh == {f \in File : /\ rows[f] = {}
                       /\ \A p \in Pod : f \notin written[p] \cup listing[p] \cup batch[p]}

Init ==
  /\ now = 0
  /\ born = [e \in Entry |-> 0]
  /\ recorded = {}
  /\ pending = [p \in Pod |-> {}]
  /\ hot = {}
  /\ rows = [f \in File |-> {}]
  /\ pc = [p \in Pod |-> "idle"]
  /\ started = [p \in Pod |-> 0]
  /\ top = [p \in Pod |-> 0]
  /\ buffer = [p \in Pod |-> {}]
  /\ written = [p \in Pod |-> {}]
  /\ listing = [p \in Pod |-> {}]
  /\ batch = [p \in Pod |-> {}]
  /\ unread = [p \in Pod |-> {}]
  /\ merged = [p \in Pod |-> {}]
  /\ stored = {}

-----------------------------------------------------------------------------
(* Recording: createdAt is stamped by record(), the row appears at INSERT.  *)

Record(p, e) ==
  /\ e \notin recorded
  /\ recorded' = recorded \cup {e}
  /\ born' = [born EXCEPT ![e] = now]
  /\ pending' = [pending EXCEPT ![p] = @ \cup {e}]
  /\ UNCHANGED <<now, stored, storeVars, pc, moveVars, coldVars>>

\* The hot store's drain inserts a batch; a row it cannot insert is dropped.
Insert(p) ==
  \E took \in SUBSET pending[p] :
    /\ pending[p] # {}
    /\ hot' = hot \cup took
    /\ stored' = stored \cup took
    /\ pending' = [pending EXCEPT ![p] = {}]
    /\ UNCHANGED <<now, born, recorded, rows, pc, moveVars, coldVars>>

Tick ==
  /\ now < MaxTime
  /\ \A p \in Pod : \A e \in pending[p] : now - born[e] < MaxLag
  /\ now' = now + 1
  /\ UNCHANGED <<born, recorded, pending, stored, storeVars, pc, moveVars, coldVars>>

-----------------------------------------------------------------------------
(* prune(): the move from hot to cold.                                      *)

\* Only a hot window shorter than the retention window ever feeds the cold tier.
Moves == HotFor < Retention

Goto(p, label) == pc' = [pc EXCEPT ![p] = label]

\* Mutant: the cycle keeps the cutoff where the code keeps the time.
StartCycleAtCutoff(p) ==
  /\ pc[p] = "idle"
  /\ started' = [started EXCEPT ![p] = now - HotFor]
  /\ top' = [top EXCEPT ![p] = now - HotFor]
  /\ Goto(p, IF Moves THEN "page" ELSE "hotPrune")
  /\ UNCHANGED <<clockVars, storeVars, buffer, written, coldVars>>

\* Both cutoffs are computed once, at the start of the cycle.
StartCycle(p) ==
  /\ pc[p] = "idle"
  /\ started' = [started EXCEPT ![p] = now]
  /\ top' = [top EXCEPT ![p] = now - HotFor]
  /\ Goto(p, IF Moves THEN "page" ELSE "hotPrune")
  /\ UNCHANGED <<clockVars, storeVars, buffer, written, coldVars>>

MoveWindow(p) == {e \in hot : MoveAfter(p) <= born[e] /\ born[e] < top[p]}

\* t is the createdAt of the oldest row of the newest MoveBatch rows of W.
IsEdge(t, W) ==
  /\ Cardinality({e \in W : born[e] > t}) < MoveBatch
  /\ Cardinality({e \in W : born[e] >= t}) >= MoveBatch

\* A full page: keep what is above its oldest millisecond, read that one whole next.
ListFullPage(p) ==
  /\ pc[p] = "page"
  /\ \E t \in 0 .. now :
       /\ IsEdge(t, MoveWindow(p))
       /\ buffer' = [buffer EXCEPT ![p] = @ \cup {e \in MoveWindow(p) : born[e] > t}]
       /\ top' = [top EXCEPT ![p] = t + 1]
  /\ Goto(p, "edge")
  /\ UNCHANGED <<clockVars, storeVars, started, written, coldVars>>

\* The second read of a full page: every hot entry of the edge millisecond.
ListEdge(p) ==
  LET edge == top[p] - 1
      read == buffer[p] \cup {e \in hot : born[e] = edge}
  IN  /\ pc[p] = "edge"
      /\ buffer' = [buffer EXCEPT ![p] = read]
      /\ top' = [top EXCEPT ![p] = edge]
      /\ Goto(p, IF Cardinality(read) >= MoveFlush THEN "flush" ELSE "page")
      /\ UNCHANGED <<clockVars, storeVars, started, written, coldVars>>

\* A short page is the last one.
ListLastPage(p) ==
  /\ pc[p] = "page"
  /\ Cardinality(MoveWindow(p)) < MoveBatch
  /\ buffer' = [buffer EXCEPT ![p] = @ \cup MoveWindow(p)]
  /\ top' = [top EXCEPT ![p] = MoveAfter(p)]
  /\ Goto(p, "lastFlush")
  /\ UNCHANGED <<clockVars, storeVars, started, written, coldVars>>

\* One object of ParquetColdStore.write(): at most MaxRows buffered rows of one hour.
Chunk(p, S) ==
  \E e \in buffer[p] :
    LET group == {d \in buffer[p] : Hour(born[d]) = Hour(born[e])}
    IN  S \subseteq group /\ (S = group \/ Cardinality(S) = MaxRows)
                          /\ Cardinality(S) <= MaxRows /\ S # {}

WriteFile(p) ==
  /\ pc[p] \in {"flush", "lastFlush"}
  /\ \E f \in Fresh, S \in SUBSET buffer[p] :
       /\ Chunk(p, S)
       /\ rows' = [rows EXCEPT ![f] = S]
       /\ written' = [written EXCEPT ![p] = @ \cup {f}]
       /\ buffer' = [buffer EXCEPT ![p] = @ \ S]
  /\ UNCHANGED <<clockVars, hot, pc, started, top, coldVars>>

Flushed(p) ==
  /\ pc[p] \in {"flush", "lastFlush"}
  /\ buffer[p] = {}
  /\ Goto(p, IF pc[p] = "flush" THEN "page" ELSE "hotPrune")
  /\ UNCHANGED <<clockVars, storeVars, moveVars, coldVars>>

\* A read of the hot store or a write of a file failed: undo what was written.
MoveFails(p) ==
  /\ pc[p] \in {"page", "edge", "flush", "lastFlush"}
  /\ buffer' = [buffer EXCEPT ![p] = {}]
  /\ Goto(p, "undo")
  /\ UNCHANGED <<clockVars, storeVars, started, top, written, coldVars>>

\* The undo's own failure is swallowed: any part of the files may survive.
UndoMove(p) ==
  /\ pc[p] = "undo"
  /\ \E gone \in SUBSET written[p] :
       rows' = [f \in File |-> IF f \in gone THEN {} ELSE rows[f]]
  /\ written' = [written EXCEPT ![p] = {}]
  /\ Goto(p, "idle")
  /\ UNCHANGED <<clockVars, hot, started, top, buffer, coldVars>>

-----------------------------------------------------------------------------
(* prune(): what leaves the hot store.                                      *)

\* Mutant: the hot store is pruned at the retention cutoff after a move.
HotDoomedByRetention(p) == {e \in hot : born[e] < OlderThan(p)}

HotDoomed(p) == {e \in hot : born[e] < (IF Moves THEN HotCutoff(p) ELSE OlderThan(p))}

\* K holds the newest n of D (all of D when there are fewer).
NewestOf(K, D, n) ==
  /\ K \subseteq D
  /\ Cardinality(K) = (IF Cardinality(D) < n THEN Cardinality(D) ELSE n)
  /\ \A k \in K, d \in D \ K : born[k] >= born[d]

\* Memory and Lucid alike: what the hot prune deletes when every batch succeeds.
HotVictims(p, gone) ==
  LET doomed == HotDoomed(p)
  IN  /\ gone \subseteq doomed
      /\ NewestOf(doomed \ gone, doomed, IF Moves \/ KeepLast < 0 THEN 0 ELSE KeepLast)

HotPrune(p) ==
  /\ pc[p] = "hotPrune"
  /\ \E gone \in SUBSET hot : HotVictims(p, gone) /\ hot' = hot \ gone
  /\ written' = [written EXCEPT ![p] = {}]
  /\ Goto(p, "expireList")
  /\ UNCHANGED <<clockVars, rows, started, top, buffer, coldVars>>

\* The delete runs in batches, oldest first: one that fails leaves the newer victims.
HotPruneFails(p) ==
  /\ pc[p] = "hotPrune"
  /\ \E all \in SUBSET hot : \E gone \in SUBSET all :
       /\ HotVictims(p, all)
       /\ \A e \in gone, d \in all \ gone : born[e] <= born[d]
       /\ hot' = hot \ gone
  /\ written' = [written EXCEPT ![p] = {}]
  /\ Goto(p, "idle")
  /\ UNCHANGED <<clockVars, rows, started, top, buffer, coldVars>>

-----------------------------------------------------------------------------
(* cold.expire(): whole hours past retention, minus the newest KeepLast rows. *)

\* Mutant: expiry runs one hour late.
ColdDoomedLate(p) == {f \in Live : ClosedBy(f, OlderThan(p) - HourLen)}

ColdDoomed(p) == {f \in Live : ClosedBy(f, OlderThan(p))}

Newer(f, g) == \A d \in rows[f], e \in rows[g] : Hour(born[d]) >= Hour(born[e])

\* Mutant: one row too few is enough.
KeptFilesShort(K, D) ==
  /\ \A f \in K, g \in D \ K : Newer(f, g)
  /\ K = D \/ RowCount(K) + 1 >= KeepLast
  /\ K = {} \/ \E last \in K : /\ \A f \in K : Newer(f, last)
                               /\ RowCount(K \ {last}) + 1 < KeepLast

\* K: the newest files of D, taken one by one until they hold KeepLast rows.
KeptFiles(K, D) ==
  /\ \A f \in K, g \in D \ K : Newer(f, g)
  /\ K = D \/ RowCount(K) >= KeepLast
  /\ K = {} \/ \E last \in K : /\ \A f \in K : Newer(f, last)
                               /\ RowCount(K \ {last}) < KeepLast

ExpireList(p) ==
  /\ pc[p] = "expireList"
  /\ \E keep \in SUBSET ColdDoomed(p) :
       /\ KeptFiles(keep, ColdDoomed(p))
       /\ batch' = [batch EXCEPT ![p] = ColdDoomed(p) \ keep]
  /\ Goto(p, "expire")
  /\ UNCHANGED <<clockVars, storeVars, moveVars, listing, unread, merged>>

\* location.delete() removes the files of the batch one at a time.
DeleteFile(p) ==
  /\ pc[p] \in {"expire", "compactDrop"}
  /\ \E f \in batch[p] :
       /\ rows' = [rows EXCEPT ![f] = {}]
       /\ batch' = [batch EXCEPT ![p] = @ \ {f}]
  /\ UNCHANGED <<clockVars, hot, pc, moveVars, listing, unread, merged>>

Deleted(p) ==
  /\ pc[p] \in {"expire", "compactDrop"}
  /\ batch[p] = {}
  /\ Goto(p, CASE pc[p] = "compactDrop" -> "compact"
               [] pc[p] = "expire" /\ Compact -> "compactList"
               [] OTHER -> "idle")
  /\ UNCHANGED <<clockVars, storeVars, moveVars, coldVars>>

-----------------------------------------------------------------------------
(* cold.compact(): small files of a closed hour become one.                 *)

CompactList(p) ==
  /\ pc[p] = "compactList"
  /\ listing' = [listing EXCEPT ![p] =
       {f \in Live : ClosedBy(f, HotCutoff(p)) /\ Cardinality(rows[f]) < MaxRows}]
  /\ Goto(p, "compact")
  /\ UNCHANGED <<clockVars, storeVars, moveVars, batch, unread, merged>>

CompactPick(p) ==
  /\ pc[p] = "compact"
  /\ \E B \in SUBSET listing[p] :
       /\ Cardinality(B) > 1
       /\ SamePartition(B)
       /\ RowCount(B) <= MaxRows
       /\ batch' = [batch EXCEPT ![p] = B]
       /\ unread' = [unread EXCEPT ![p] = B]
       /\ listing' = [listing EXCEPT ![p] = @ \ B]
  /\ merged' = [merged EXCEPT ![p] = {}]
  /\ Goto(p, "compactRead")
  /\ UNCHANGED <<clockVars, storeVars, moveVars>>

\* Mutant: each file's rows replace those read before it.
CompactReadLast(p) ==
  /\ pc[p] = "compactRead"
  /\ \E f \in unread[p] :
       /\ merged' = [merged EXCEPT ![p] = rows[f]]
       /\ unread' = [unread EXCEPT ![p] = @ \ {f}]
  /\ UNCHANGED <<clockVars, storeVars, pc, moveVars, listing, batch>>

\* A file that vanished since the listing has no rows and reads as empty.
CompactRead(p) ==
  /\ pc[p] = "compactRead"
  /\ \E f \in unread[p] :
       /\ merged' = [merged EXCEPT ![p] = @ \cup rows[f]]
       /\ unread' = [unread EXCEPT ![p] = @ \ {f}]
  /\ UNCHANGED <<clockVars, storeVars, pc, moveVars, listing, batch>>

\* The merged file is written before its inputs are deleted; no rows, no file.
CompactWrite(p) ==
  /\ pc[p] = "compactRead"
  /\ unread[p] = {}
  /\ IF merged[p] = {}
     THEN rows' = rows
     ELSE \E f \in Fresh : rows' = [rows EXCEPT ![f] = merged[p]]
  /\ merged' = [merged EXCEPT ![p] = {}]
  /\ Goto(p, "compactDrop")
  /\ UNCHANGED <<clockVars, hot, moveVars, listing, batch, unread>>

\* No batch is left, or compactPartitionsPerRun ends the run before that.
CompactDone(p) ==
  /\ pc[p] = "compact"
  /\ listing' = [listing EXCEPT ![p] = {}]
  /\ Goto(p, "idle")
  /\ UNCHANGED <<clockVars, storeVars, moveVars, batch, unread, merged>>

\* An error of the cold tier is put in the report and ends the cycle.
MaintenanceFails(p) ==
  /\ pc[p] \in {"expireList", "expire", "compactList", "compact", "compactRead", "compactDrop"}
  /\ listing' = [listing EXCEPT ![p] = {}]
  /\ batch' = [batch EXCEPT ![p] = {}]
  /\ unread' = [unread EXCEPT ![p] = {}]
  /\ merged' = [merged EXCEPT ![p] = {}]
  /\ Goto(p, "idle")
  /\ UNCHANGED <<clockVars, storeVars, moveVars>>

-----------------------------------------------------------------------------
\* The process dies: its memory goes, hot table and cold location stay.
Crash(p) ==
  /\ pc[p] # "idle" \/ pending[p] # {}
  /\ pending' = [pending EXCEPT ![p] = {}]
  /\ Goto(p, "idle")
  /\ buffer' = [buffer EXCEPT ![p] = {}]
  /\ written' = [written EXCEPT ![p] = {}]
  /\ listing' = [listing EXCEPT ![p] = {}]
  /\ batch' = [batch EXCEPT ![p] = {}]
  /\ unread' = [unread EXCEPT ![p] = {}]
  /\ merged' = [merged EXCEPT ![p] = {}]
  /\ UNCHANGED <<now, born, recorded, stored, storeVars, started, top>>

\* What the cycle does when nothing goes wrong.
CycleStep(p) ==
  \/ ListFullPage(p) \/ ListEdge(p) \/ ListLastPage(p)
  \/ WriteFile(p) \/ Flushed(p) \/ UndoMove(p) \/ HotPrune(p)
  \/ ExpireList(p) \/ DeleteFile(p) \/ Deleted(p)
  \/ CompactList(p) \/ CompactPick(p) \/ CompactRead(p) \/ CompactWrite(p) \/ CompactDone(p)

Failure(p) == MoveFails(p) \/ HotPruneFails(p) \/ MaintenanceFails(p) \/ Crash(p)

SmoothNext ==
  \/ Tick
  \/ \E p \in Pod, e \in Entry : Record(p, e)
  \/ \E p \in Pod : Insert(p) \/ StartCycle(p) \/ CycleStep(p)

Next == SmoothNext \/ \E p \in Pod : Failure(p)

Spec == Init /\ [][Next]_vars

\* Nothing fails; the clock runs, the interval timer fires and every await settles.
Fairness ==
  /\ WF_vars(Tick)
  /\ \A p \in Pod : WF_vars(Insert(p)) /\ WF_vars(StartCycle(p)) /\ WF_vars(CycleStep(p))

SmoothSpec == Init /\ [][SmoothNext]_vars /\ Fairness

-----------------------------------------------------------------------------
PcSet == {"idle", "page", "edge", "flush", "lastFlush", "undo", "hotPrune", "expireList",
          "expire", "compactList", "compact", "compactRead", "compactDrop"}

\* Every variable keeps the shape the code gives it.
TypeOK ==
  /\ now \in Nat
  /\ born \in [Entry -> Nat]
  /\ recorded \subseteq Entry
  /\ pending \in [Pod -> SUBSET Entry]
  /\ hot \subseteq Entry
  /\ rows \in [File -> SUBSET Entry]
  /\ pc \in [Pod -> PcSet]
  /\ started \in [Pod -> Nat]
  /\ top \in [Pod -> Int]
  /\ buffer \in [Pod -> SUBSET Entry]
  /\ written \in [Pod -> SUBSET File]
  /\ listing \in [Pod -> SUBSET File]
  /\ batch \in [Pod -> SUBSET File]
  /\ unread \in [Pod -> SUBSET File]
  /\ merged \in [Pod -> SUBSET Entry]
  /\ stored \subseteq Entry

Expired(e) == born[e] < now - Retention
Visible == hot \cup RowsOf(File)

\* An entry the hot table took is readable, in one tier or the other, until it is
\* past retention: moves, failed moves, crashes, expiry and compaction by any
\* number of pods never lose it (prune, moveToCold, expire, compact).
NoLoss == \A e \in stored : ~ Expired(e) => e \in Visible

-----------------------------------------------------------------------------
(* Why NoLoss holds: the parts of an inductive invariant.                   *)

\* Files a running cycle may still delete on its own account.
Disposable(p) ==
  CASE pc[p] \in {"page", "edge", "flush", "lastFlush", "undo"} -> written[p]
    [] pc[p] = "compactDrop" -> batch[p]
    [] OTHER -> {}
SecureRows == RowsOf({f \in File : \A p \in Pod : f \notin Disposable(p)})

Alive == {e \in stored : ~ Expired(e)}

\* Every unexpired entry has a copy that no running cycle is entitled to delete.
Secured == Alive \subseteq hot \cup SecureRows

\* What a move has passed is in its memory, in its own files, or safe in cold.
Passed(p) == {e \in Alive : top[p] <= born[e] /\ born[e] < HotCutoff(p)}
MoveCovers(p) ==
  pc[p] \in {"page", "edge", "flush", "lastFlush", "hotPrune"} /\ Moves =>
    Passed(p) \subseteq buffer[p] \cup RowsOf(written[p]) \cup SecureRows

\* Nothing a compaction has read is missing from what it will write.
MergeCovers(p) ==
  pc[p] = "compactRead" => RowsOf(batch[p] \ unread[p]) \subseteq merged[p]

\* Every row a compaction is about to delete is safe in another file.
DropsAreCopied(p) ==
  pc[p] = "compactDrop" => RowsOf(batch[p]) \cap Alive \subseteq SecureRows

\* No step of any pod takes the last safe copy of an entry it should keep, at
\* whatever point the other pods' moves, expiries and compactions stand.
CopiesAreSafe ==
  /\ Secured
  /\ \A p \in Pod : MoveCovers(p) /\ MergeCovers(p) /\ DropsAreCopied(p)

-----------------------------------------------------------------------------
(* What the store promises.                                                 *)

\* The tiers hold nothing that was not taken from the application.
NothingInvented == Visible \cup UNION {buffer[p] \cup merged[p] : p \in Pod} \subseteq stored

RetentionView == {e \in Visible : ~ Expired(e)}
Log == INSTANCE RetentionLog WITH
         clock <- now, stamp <- born, stamped <- recorded,
         accepted <- stored, kept <- RetentionView

\* Tiers, pages, files and cycles cannot be told from a log that keeps every
\* accepted entry for exactly its retention (the class comment of tiered.ts).
ImplementsRetentionLog == Log!Spec

\* Between the cycles of one pod that met no failure no entry is held twice, so
\* count(), which adds up the rows of both tiers, is exact (count, moveToCold).
IdleCountExact ==
  (\A p \in Pod : pc[p] = "idle") =>
    Cardinality(hot) + RowCount(Live) = Cardinality(Visible)

PastRetention == {e \in stored : HourEnd(born[e]) <= now - Retention}

\* prune(keepLast): at least KeepLast entries past retention are retained, or all of
\* them when there are fewer (the tiers apply the count together).
KeepsLastCount ==
  \/ PastRetention \subseteq Visible
  \/ Cardinality(PastRetention \cap Visible) >= KeepLast

\* The counts of the two tiers together are right though neither tier knows the other's: what
\* they report when nobody moves rows, and what keepLast leaves when each applies it alone.
CountsHold == IdleCountExact /\ KeepsLastCount

\* The hot store stays hotFor deep: what ages past it leaves for the cold tier.
AgedLeavesHot == \A e \in Entry : (e \in hot /\ born[e] < now - HotFor) ~> e \notin hot

\* Retention is honoured across the tiers: once its whole hour is past retention, an entry
\* with KeepLast entries in newer such hours is deleted everywhere (expire).
SurplusIsDeleted ==
  \A e \in Entry :
    (/\ e \in PastRetention
     /\ Cardinality({d \in PastRetention : Hour(born[d]) > Hour(born[e])}) >= KeepLast)
    ~> e \notin Visible
=============================================================================

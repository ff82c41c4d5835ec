------------------------------ MODULE ColdFiles ------------------------------
(***************************************************************************)
(* The files of the cold tier under the Parquet store: the location they    *)
(* live in (a directory or S3), the engine that reads them (hyparquet, or   *)
(* DuckDB with its local copies of remote files), a reader and a compaction *)
(* of one process, one await at a time, and a process that may restart.     *)
(*                                                                         *)
(*   idle -> ensure -> stat -> fetch -> write -> rename -> evict -> ensure  *)
(*        -> scan -> ended | failed                                         *)
(*   a compaction goes on: put -> publish -> delete -> ended                *)
(***************************************************************************)
EXTENDS Integers, Sequences, SequencesExt, FiniteSets

CONSTANTS Inputs,       \* number of files at the start; file i holds row i
          Batch,        \* the files of the closed hour that is compacted
          Budgets,      \* values of cacheBytes, in files
          MaxReads,     \* bound: reads of the reader
          MaxRestarts   \* bound: restarts of the process

ASSUME ColdFilesAssumption ==
  Inputs \in Nat /\ Batch \subseteq 1..Inputs /\ Budgets \subseteq Nat

VARIABLES engine,    \* engine, location and budget, as configured
          stored,    \* file -> its rows; the files of the location
          putting,   \* rows of the object being put under a temporary name, or {}
          copies,    \* file -> its copy in the cache directory: none, partial or full
          temps,     \* file -> the copy under its temporary name
          lru,       \* the copies the cache knows, oldest first
          bytes,     \* what the cache believes it holds
          oneByOne,  \* batchDeleteUnsupported
          work,      \* task -> what it does
          reads, restarts,
          evicted    \* history: whether a copy was ever evicted

coldVars == <<engine, stored, putting, copies, temps, lru, bytes, oneByOne, work, reads,
              restarts, evicted>>

Task == {"read", "compact"}
Merged == Inputs + 1
Name == 1..Merged
Idle == [step |-> "idle", files |-> {}, todo |-> {}, at |-> 0, paths |-> {}, rows |-> {},
         retried |-> FALSE]

Copying == engine.name = "duckdb" /\ engine.remote
LowestOf(S) == CHOOSE f \in S : \A g \in S : f <= g

ColdInit ==
  /\ engine \in [name : {"hyparquet", "duckdb"}, remote : BOOLEAN, budget : Budgets]
  /\ ~ Copying => engine.budget = LowestOf(Budgets)
  /\ stored = [f \in 1..Inputs |-> {f}] /\ putting = {}
  /\ copies = [f \in Name |-> "none"] /\ temps = [f \in Name |-> "none"]
  /\ lru = <<>> /\ bytes = 0 /\ oneByOne = FALSE /\ work = [t \in Task |-> Idle]
  /\ reads = 0 /\ restarts = 0 /\ evicted = FALSE

Does(t, w) == work' = [work EXCEPT ![t] = w]
At(t, step) == work[t].step = step
Dropping(f, s) == RemoveAt(s, CHOOSE i \in DOMAIN s : s[i] = f)

-----------------------------------------------------------------------------
(* Reading                                                                 *)

\* list() over the files that were listed; without local copies every path is known at once.
Begins(t, files) ==
  /\ At(t, "idle")
  /\ Does(t, [Idle EXCEPT !.step = IF Copying THEN "ensure" ELSE "scan", !.files = files,
                          !.todo = files, !.paths = IF Copying THEN {} ELSE files])

BeginsRead ==
  /\ reads < MaxReads /\ reads' = reads + 1
  /\ Begins("read", DOMAIN stored)
  /\ UNCHANGED <<engine, stored, putting, copies, temps, lru, bytes, oneByOne, restarts, evicted>>

\* compact(): the batch of a closed hour, when there is something to merge.
BeginsCompaction ==
  /\ Cardinality(Batch \cap DOMAIN stored) > 1 /\ Merged \notin DOMAIN stored
  /\ Begins("compact", Batch \cap DOMAIN stored)
  /\ UNCHANGED <<engine, stored, putting, copies, temps, lru, bytes, oneByOne, reads, restarts, evicted>>

\* The files are gone through newest first; names grow with age here.
Next1(t) == LowestOf(work[t].todo)
HasPath(t, f) == [work[t] EXCEPT !.step = "ensure", !.todo = @ \ {f}, !.paths = @ \cup {f}]

\* ensure(): a copy the cache knows becomes the newest and is taken for present.
CacheHit(t) ==
  /\ At(t, "ensure") /\ work[t].todo # {}
  /\ \E i \in DOMAIN lru : lru[i] = Next1(t)
  /\ lru' = Append(Dropping(Next1(t), lru), Next1(t))
  /\ Does(t, HasPath(t, Next1(t)))
  /\ UNCHANGED <<engine, stored, putting, copies, temps, bytes, oneByOne, reads, restarts, evicted>>

CacheMiss(t) ==
  /\ At(t, "ensure") /\ work[t].todo # {}
  /\ \A i \in DOMAIN lru : lru[i] # Next1(t)
  /\ Does(t, [work[t] EXCEPT !.step = "stat", !.at = Next1(t)])
  /\ UNCHANGED <<engine, stored, putting, copies, temps, lru, bytes, oneByOne, reads, restarts, evicted>>

\* Mutant: a copy that was found on disk or written is not weighed against the budget.
KeepsUnweighed(t, known, held) ==
  lru' = known /\ bytes' = held /\ UNCHANGED evicted /\ Does(t, HasPath(t, work[t].at))

\* evict(), up to its next await: the oldest leaves the map before its copy is removed.
Keeps(t, known, held) ==
  IF held > engine.budget /\ Len(known) > 1
  THEN /\ lru' = Tail(known) /\ bytes' = held - 1 /\ evicted' = TRUE
       /\ Does(t, [work[t] EXCEPT !.step = "evict", !.at = Head(known), !.todo = @ \ {work[t].at},
                                  !.paths = @ \cup {work[t].at}])
  ELSE /\ lru' = known /\ bytes' = held /\ UNCHANGED evicted
       /\ Does(t, HasPath(t, work[t].at))

\* entries.set() keeps the place of a name another task entered meanwhile.
Known(f) == IF \E i \in DOMAIN lru : lru[i] = f THEN lru ELSE Append(lru, f)

\* A copy that is on disk is entered as it is, whoever left or is writing it.
Stats(t) ==
  /\ At(t, "stat")
  /\ IF copies[work[t].at] # "none"
     THEN Keeps(t, Known(work[t].at), bytes + 1)
     ELSE Does(t, [work[t] EXCEPT !.step = "fetch"]) /\ UNCHANGED <<lru, bytes, evicted>>
  /\ UNCHANGED <<engine, stored, putting, copies, temps, oneByOne, reads, restarts>>

\* The object is read, and the file under the temporary name is opened; one that is gone is left out.
Fetches1(t) ==
  /\ At(t, "fetch")
  /\ IF work[t].at \in DOMAIN stored
     THEN /\ temps' = [temps EXCEPT ![work[t].at] = "partial"]
          /\ Does(t, [work[t] EXCEPT !.step = "write"])
     ELSE Does(t, [work[t] EXCEPT !.step = "ensure", !.todo = @ \ {work[t].at}]) /\ UNCHANGED temps
  /\ UNCHANGED <<engine, stored, putting, copies, lru, bytes, oneByOne, reads, restarts, evicted>>

\* Another task is still writing the same file: what is in it then is either.
Content(t, f) ==
  IF \E u \in Task \ {t} : At(u, "write") /\ work[u].at = f THEN {"partial", "full"} ELSE {"full"}

\* writeFile() ends.  The two tasks share the name: the file may have been renamed under it.
Writes(t) ==
  /\ At(t, "write")
  /\ LET f == work[t].at IN
     IF temps[f] # "none"
     THEN (\E c \in Content(t, f) : temps' = [temps EXCEPT ![f] = c]) /\ UNCHANGED copies
     ELSE /\ copies' = [copies EXCEPT ![f] = IF @ = "partial" THEN "full" ELSE @]
          /\ UNCHANGED temps
  /\ Does(t, [work[t] EXCEPT !.step = "rename"])
  /\ UNCHANGED <<engine, stored, putting, lru, bytes, oneByOne, reads, restarts, evicted>>

\* rename() fails when the other task's rename took the file: so does the read.
Renames(t) ==
  /\ At(t, "rename")
  /\ LET f == work[t].at IN
     IF temps[f] = "none"
     THEN /\ Does(t, [work[t] EXCEPT !.step = "failed"])
          /\ UNCHANGED <<copies, temps, lru, bytes, evicted>>
     ELSE /\ copies' = [copies EXCEPT ![f] = temps[f]] /\ temps' = [temps EXCEPT ![f] = "none"]
          /\ Keeps(t, Known(f), bytes + 1)
  /\ UNCHANGED <<engine, stored, putting, oneByOne, reads, restarts>>

\* rm() of the evicted copy, and the loop again.
Evicts(t) ==
  /\ At(t, "evict")
  /\ copies' = [copies EXCEPT ![work[t].at] = "none"]
  /\ IF bytes > engine.budget /\ Len(lru) > 1
     THEN /\ lru' = Tail(lru) /\ bytes' = bytes - 1
          /\ Does(t, [work[t] EXCEPT !.at = Head(lru)])
     ELSE Does(t, [work[t] EXCEPT !.step = "ensure"]) /\ UNCHANGED <<lru, bytes>>
  /\ UNCHANGED <<engine, stored, putting, temps, oneByOne, reads, restarts, evicted>>

\* What a path leads to: the copy, or the file itself in a directory.
There(f) == IF Copying THEN copies[f] # "none" ELSE f \in DOMAIN stored

RowsOf(files) == UNION {stored[f] : f \in files \cap DOMAIN stored}
\* A copy holds the rows of its (immutable) file, also once the file is gone.
CopyRows(f) == IF f = Merged THEN stored[f] ELSE {f}

EnsuredAll(t) == At(t, "ensure") /\ work[t].todo = {}

\* query(): one statement over all paths.  A missing one fails it, and it is tried once more over
\* those that exist; anything else that is wrong with a file fails the read.
Scans(t) ==
  /\ engine.name = "duckdb" /\ (EnsuredAll(t) \/ At(t, "scan"))
  /\ LET w == work[t]
         missing == {f \in w.paths : ~ There(f)} IN
     Does(t,
       IF missing # {} /\ ~ w.retried
       THEN [w EXCEPT !.step = "scan", !.paths = @ \ missing, !.retried = TRUE]
       ELSE IF missing # {} \/ (Copying /\ \E f \in w.paths : copies[f] = "partial")
       THEN [w EXCEPT !.step = "failed"]
       ELSE [w EXCEPT !.step = "ended",
                      !.rows = IF Copying THEN UNION {CopyRows(f) : f \in w.paths} ELSE RowsOf(w.paths)])
  /\ UNCHANGED <<engine, stored, putting, copies, temps, lru, bytes, oneByOne, reads, restarts, evicted>>

\* readGroup(): file after file; one that is gone reads as empty.
ReadsFile(t) ==
  /\ engine.name = "hyparquet" /\ At(t, "scan")
  /\ LET w == work[t]
         f == Next1(t) IN
     Does(t, IF w.todo = {} THEN [w EXCEPT !.step = "ended"]
             ELSE [w EXCEPT !.todo = @ \ {f}, !.rows = @ \cup RowsOf({f})])
  /\ UNCHANGED <<engine, stored, putting, copies, temps, lru, bytes, oneByOne, reads, restarts, evicted>>

\* The reader has its answer or its error; a failed compaction is left to the next cycle.
Answers(t) ==
  /\ At(t, "failed") \/ (t = "read" /\ At(t, "ended"))
  /\ Does(t, Idle)
  /\ UNCHANGED <<engine, stored, putting, copies, temps, lru, bytes, oneByOne, reads, restarts, evicted>>

-----------------------------------------------------------------------------
(* What a compaction writes and deletes                                    *)

Adds(rows) == stored' = [f \in DOMAIN stored \cup {Merged} |-> IF f = Merged THEN rows ELSE stored[f]]
Removes(files) == stored' = [f \in DOMAIN stored \ files |-> stored[f]]
Compacting(step) == [work["compact"] EXCEPT !.step = step]
Deleting == [work["compact"] EXCEPT !.step = "delete", !.todo = work["compact"].files]
Gives(t) == Does(t, [work[t] EXCEPT !.step = "failed"])

\* Mutant: the inputs of a directory go before the merged file is there.
PutsLate ==
  /\ At("compact", "ended")
  /\ putting' = work["compact"].rows /\ Removes(work["compact"].files)
  /\ Does("compact", Compacting("publish"))
  /\ UNCHANGED <<engine, copies, temps, lru, bytes, oneByOne, reads, restarts, evicted>>

\* write() of the merged rows: nothing to write is no file; an object of S3 appears whole, a file
\* of a directory is written under a name that is not listed.
Puts ==
  /\ At("compact", "ended")
  /\ LET merged == work["compact"].rows IN
     IF merged = {} THEN Does("compact", Deleting) /\ UNCHANGED <<stored, putting>>
     ELSE IF engine.remote THEN Adds(merged) /\ Does("compact", Deleting) /\ UNCHANGED putting
     ELSE putting' = merged /\ Does("compact", Compacting("publish")) /\ UNCHANGED stored
  /\ UNCHANGED <<engine, copies, temps, lru, bytes, oneByOne, reads, restarts, evicted>>

\* DirectoryLocation.write(): the rename.
Publishes ==
  /\ At("compact", "publish")
  /\ Adds(putting) /\ putting' = {} /\ Does("compact", Deleting)
  /\ UNCHANGED <<engine, copies, temps, lru, bytes, oneByOne, reads, restarts, evicted>>

\* One key after the other: a directory, and S3 once the batch call is known not to work.
DeletesOne ==
  /\ At("compact", "delete") /\ (~ engine.remote \/ oneByOne)
  /\ LET w == work["compact"] IN
     IF w.todo = {} THEN Does("compact", Idle) /\ UNCHANGED stored
     ELSE Removes({LowestOf(w.todo)}) /\ Does("compact", [w EXCEPT !.todo = @ \ {LowestOf(w.todo)}])
  /\ UNCHANGED oneByOne

\* The batch call of S3; a store that insists on Content-MD5 is remembered.
DeletesAll ==
  /\ At("compact", "delete") /\ engine.remote /\ ~ oneByOne
  /\ \/ Removes(work["compact"].todo) /\ Does("compact", Idle) /\ UNCHANGED oneByOne
     \/ oneByOne' = TRUE /\ UNCHANGED <<stored, work>>

Deletes ==
  /\ DeletesOne \/ DeletesAll
  /\ UNCHANGED <<engine, putting, copies, temps, lru, bytes, reads, restarts, evicted>>

\* A call to the location fails: the cycle ends there, and the inputs that are left stay.
CompactionFails ==
  /\ work["compact"].step \in {"ended", "publish", "delete"}
  /\ putting' = {} /\ Gives("compact")
  /\ UNCHANGED <<engine, stored, copies, temps, lru, bytes, oneByOne, reads, restarts, evicted>>

\* The process ends; its memory and its names for unfinished files are gone, the copies are not.
Restarts ==
  /\ restarts < MaxRestarts /\ restarts' = restarts + 1
  /\ putting' = {} /\ temps' = [f \in Name |-> "none"]
  /\ lru' = <<>> /\ bytes' = 0 /\ oneByOne' = FALSE /\ work' = [t \in Task |-> Idle]
  /\ UNCHANGED <<engine, stored, copies, reads, evicted>>

ColdNext ==
  \/ BeginsRead \/ BeginsCompaction \/ Puts \/ Publishes \/ Deletes
  \/ CompactionFails \/ Restarts
  \/ \E t \in Task :
       \/ CacheHit(t) \/ CacheMiss(t) \/ Stats(t) \/ Fetches1(t) \/ Writes(t) \/ Renames(t)
       \/ Evicts(t) \/ Answers(t) \/ Scans(t) \/ ReadsFile(t)

-----------------------------------------------------------------------------
(* Properties                                                              *)

\* The rows of the cold tier, and what a read tells of them.  As long as no local copy was
\* evicted, a compaction loses no row whatever fails or restarts around it, and a read that
\* succeeds has the rows of every file it listed that is still there; and the cache knows no
\* more copies than its budget once no task is evicting (query, LocalFileCache, compact).
ColdFilesAreWhole ==
  /\ ~ evicted => /\ 1..Inputs \subseteq RowsOf(DOMAIN stored)
                  /\ work["read"].step = "ended" =>
                       RowsOf(work["read"].files) \subseteq work["read"].rows
  /\ (\A t \in Task : ~ At(t, "evict")) =>
       Len(lru) <= 1 \/ Len(lru) <= engine.budget

\* "The merged file is written before its inputs are deleted, so a reader never loses rows"
\* (parquet.ts:337-338).  It does not hold with DuckDB over a remote location: a copy that is
\* evicted before the statement runs is taken for a deleted file, its rows are not merged, and
\* the file is deleted.
CompactionKeepsRows == 1..Inputs \subseteq RowsOf(DOMAIN stored)
=============================================================================

-------------------------- MODULE TieredStoreProofs --------------------------
(***************************************************************************)
(* Proofs about TieredStore and its readers, for any number of entries,    *)
(* pods and files and any retention, page, flush and file sizes: type      *)
(* correctness, that no unexpired entry is lost as long as an entry never  *)
(* waits longer in a write buffer than the hot store is deep, that the     *)
(* rows of one pod without failures add up, and that lookups and pages of  *)
(* one pod without compaction miss none.                                   *)
(***************************************************************************)
EXTENDS TieredReads, SequenceLemmas

LEMMA TypeStep ==
  ASSUME TypeOK, [Next]_vars
  PROVE  TypeOK'
<1>. USE TieredAssumption
<1>. USE DEF TypeOK, PcSet, clockVars, storeVars, moveVars, coldVars, Goto
<1>1. CASE Tick
  BY <1>1 DEF Tick
<1>2. ASSUME NEW p \in Pod, NEW e \in Entry, Record(p, e)
      PROVE  TypeOK'
  BY <1>2 DEF Record
<1>3. ASSUME NEW p \in Pod, Insert(p)
      PROVE  TypeOK'
  BY <1>3 DEF Insert
<1>4. ASSUME NEW p \in Pod, StartCycle(p)
      PROVE  TypeOK'
  BY <1>4 DEF StartCycle
<1>5. ASSUME NEW p \in Pod, ListFullPage(p)
      PROVE  TypeOK'
  BY <1>5 DEF ListFullPage, MoveWindow
<1>6. ASSUME NEW p \in Pod, ListEdge(p)
      PROVE  TypeOK'
  BY <1>6 DEF ListEdge
<1>7. ASSUME NEW p \in Pod, ListLastPage(p)
      PROVE  TypeOK'
  BY <1>7 DEF ListLastPage, MoveWindow, MoveAfter, OlderThan
<1>8. ASSUME NEW p \in Pod, WriteFile(p)
      PROVE  TypeOK'
  BY <1>8 DEF WriteFile, Fresh
<1>9. ASSUME NEW p \in Pod, Flushed(p)
      PROVE  TypeOK'
  BY <1>9 DEF Flushed
<1>10. ASSUME NEW p \in Pod, UndoMove(p)
       PROVE  TypeOK'
  BY <1>10 DEF UndoMove
<1>11. ASSUME NEW p \in Pod, HotPrune(p)
       PROVE  TypeOK'
  BY <1>11 DEF HotPrune
<1>12. ASSUME NEW p \in Pod, ExpireList(p)
       PROVE  TypeOK'
  BY <1>12 DEF ExpireList, ColdDoomed, Live
<1>13. ASSUME NEW p \in Pod, DeleteFile(p)
       PROVE  TypeOK'
  BY <1>13 DEF DeleteFile
<1>14. ASSUME NEW p \in Pod, Deleted(p)
       PROVE  TypeOK'
  BY <1>14 DEF Deleted
<1>15. ASSUME NEW p \in Pod, CompactList(p)
       PROVE  TypeOK'
  BY <1>15 DEF CompactList, Live
<1>16. ASSUME NEW p \in Pod, CompactPick(p)
       PROVE  TypeOK'
  BY <1>16 DEF CompactPick
<1>17. ASSUME NEW p \in Pod, CompactRead(p)
       PROVE  TypeOK'
  BY <1>17 DEF CompactRead
<1>18. ASSUME NEW p \in Pod, CompactWrite(p)
       PROVE  TypeOK'
  BY <1>18 DEF CompactWrite, Fresh
<1>19. ASSUME NEW p \in Pod, CompactDone(p)
       PROVE  TypeOK'
  BY <1>19 DEF CompactDone
<1>20. ASSUME NEW p \in Pod, MoveFails(p)
       PROVE  TypeOK'
  BY <1>20 DEF MoveFails
<1>21. ASSUME NEW p \in Pod, HotPruneFails(p)
       PROVE  TypeOK'
  BY <1>21 DEF HotPruneFails
<1>22. ASSUME NEW p \in Pod, MaintenanceFails(p)
       PROVE  TypeOK'
  BY <1>22 DEF MaintenanceFails
<1>23. ASSUME NEW p \in Pod, Crash(p)
       PROVE  TypeOK'
  BY <1>23 DEF Crash
<1>24. CASE UNCHANGED vars
  BY <1>24 DEF vars
<1>25. QED
  BY <1>1, <1>2, <1>3, <1>4, <1>5, <1>6, <1>7, <1>8, <1>9, <1>10, <1>11, <1>12, <1>13,
     <1>14, <1>15, <1>16, <1>17, <1>18, <1>19, <1>20, <1>21, <1>22, <1>23, <1>24
     DEF Next, SmoothNext, CycleStep, Failure

\* Every action keeps the type of every variable.
THEOREM TypeCorrect == Spec => []TypeOK
<1>1. Init => TypeOK
  BY TieredAssumption DEF Init, TypeOK, PcSet
<1>2. QED
  BY <1>1, TypeStep, PTL DEF Spec

-----------------------------------------------------------------------------
\* Partitions are closed only after every instant they hold.
LEMMA HourEndAfter == \A t \in Nat : HourEnd(t) \in Int /\ t < HourEnd(t)
BY TieredAssumption, SMT DEF HourEnd, Hour

MovingPc == {"page", "edge", "flush", "lastFlush", "undo", "hotPrune"}

\* What the cycles' own variables record, whatever the other pods do.
Bookkeeping ==
  /\ stored \subseteq recorded
  /\ \A p \in Pod :
       /\ pending[p] \subseteq recorded \ stored
       /\ \A q \in Pod : p # q => pending[p] \cap pending[q] = {}
       /\ \A e \in pending[p] : now - born[e] <= MaxLag
       /\ started[p] <= now
       /\ pc[p] \notin MovingPc => written[p] = {}
       /\ \A q \in Pod : p # q => written[p] \cap written[q] = {}
       /\ pc[p] \notin {"page", "edge", "flush", "lastFlush"} => buffer[p] = {}
       /\ Moves /\ pc[p] \in {"lastFlush", "hotPrune"} => top[p] = MoveAfter(p)
       /\ pc[p] = "expire" => \A e \in RowsOf(batch[p]) : Expired(e)
  /\ NothingInvented

LEMMA BookkeepingInit == Init => Bookkeeping
BY TieredAssumption DEF Init, Bookkeeping, MovingPc, RowsOf, NothingInvented, Visible

LEMMA BookkeepingStep ==
  ASSUME TypeOK, Bookkeeping, [Next]_vars
  PROVE  Bookkeeping'
<1>. USE TieredAssumption DEF TypeOK, Bookkeeping, MovingPc, clockVars, storeVars, moveVars,
           coldVars, Goto, RowsOf, NothingInvented, Visible, Expired, MoveAfter, OlderThan
<1>1. CASE Tick
  BY <1>1 DEF Tick
<1>2. ASSUME NEW p \in Pod, NEW e \in Entry, Record(p, e)
      PROVE  Bookkeeping'
  <2>1. \A d \in recorded : born'[d] = born[d]
    BY <1>2 DEF Record
  <2>2. \A q \in Pod : /\ pending'[q] \subseteq recorded' \ stored'
                      /\ \A d \in pending'[q] : now' - born'[d] <= MaxLag
    BY <1>2, <2>1 DEF Record
  <2>3. \A q \in Pod : pc[q] = "expire" => \A d \in RowsOf(batch[q]) : d \in recorded
    BY <1>2
  <2>4. \A q \in Pod : pc'[q] = "expire" => \A d \in RowsOf(batch[q])' : Expired(d)'
    BY <1>2, <2>1, <2>3 DEF Record
  <2>5. QED
    BY <1>2, <2>2, <2>4 DEF Record
<1>3. ASSUME NEW p \in Pod, Insert(p)
      PROVE  Bookkeeping'
  <2>1. PICK took \in SUBSET pending[p] : /\ hot' = hot \cup took
                                         /\ stored' = stored \cup took
                                         /\ pending' = [pending EXCEPT ![p] = {}]
    BY <1>3 DEF Insert
  <2>2. QED
    BY <1>3, <2>1 DEF Insert
<1>4. ASSUME NEW p \in Pod, StartCycle(p)
      PROVE  Bookkeeping'
  BY <1>4 DEF StartCycle
<1>5. ASSUME NEW p \in Pod, ListFullPage(p)
      PROVE  Bookkeeping'
  BY <1>5 DEF ListFullPage, MoveWindow
<1>6. ASSUME NEW p \in Pod, ListEdge(p)
      PROVE  Bookkeeping'
  BY <1>6 DEF ListEdge
<1>7. ASSUME NEW p \in Pod, ListLastPage(p)
      PROVE  Bookkeeping'
  BY <1>7 DEF ListLastPage, MoveWindow
<1>8. ASSUME NEW p \in Pod, WriteFile(p)
      PROVE  Bookkeeping'
  BY <1>8 DEF WriteFile, Fresh
<1>9. ASSUME NEW p \in Pod, Flushed(p)
      PROVE  Bookkeeping'
  BY <1>9 DEF Flushed
<1>10. ASSUME NEW p \in Pod, UndoMove(p)
      PROVE  Bookkeeping'
  BY <1>10 DEF UndoMove
<1>11. ASSUME NEW p \in Pod, HotPrune(p)
      PROVE  Bookkeeping'
  BY <1>11 DEF HotPrune
<1>12. ASSUME NEW p \in Pod, ExpireList(p)
      PROVE  Bookkeeping'
  <2>1. ASSUME NEW f \in ColdDoomed(p), NEW e \in rows[f]
        PROVE  Expired(e)
    BY <2>1, HourEndAfter DEF ColdDoomed, Live, ClosedBy
  <2>2. QED
    BY <1>12, <2>1 DEF ExpireList, ColdDoomed, Live
<1>13. ASSUME NEW p \in Pod, DeleteFile(p)
      PROVE  Bookkeeping'
  BY <1>13 DEF DeleteFile
<1>14. ASSUME NEW p \in Pod, Deleted(p)
      PROVE  Bookkeeping'
  BY <1>14 DEF Deleted
<1>15. ASSUME NEW p \in Pod, CompactList(p)
      PROVE  Bookkeeping'
  BY <1>15 DEF CompactList, Live
<1>16. ASSUME NEW p \in Pod, CompactPick(p)
      PROVE  Bookkeeping'
  BY <1>16 DEF CompactPick
<1>17. ASSUME NEW p \in Pod, CompactRead(p)
      PROVE  Bookkeeping'
  BY <1>17 DEF CompactRead
<1>18. ASSUME NEW p \in Pod, CompactWrite(p)
      PROVE  Bookkeeping'
  <2>1. CASE rows' = rows
    BY <1>18, <2>1 DEF CompactWrite
  <2>2. ASSUME NEW f \in Fresh, rows' = [rows EXCEPT ![f] = merged[p]]
        PROVE  Bookkeeping'
    BY <1>18, <2>2 DEF CompactWrite, Fresh
  <2>3. QED
    BY <1>18, <2>1, <2>2 DEF CompactWrite
<1>19. ASSUME NEW p \in Pod, CompactDone(p)
      PROVE  Bookkeeping'
  BY <1>19 DEF CompactDone
<1>20. ASSUME NEW p \in Pod, MoveFails(p)
      PROVE  Bookkeeping'
  BY <1>20 DEF MoveFails
<1>21. ASSUME NEW p \in Pod, HotPruneFails(p)
      PROVE  Bookkeeping'
  BY <1>21 DEF HotPruneFails
<1>22. ASSUME NEW p \in Pod, MaintenanceFails(p)
      PROVE  Bookkeeping'
  BY <1>22 DEF MaintenanceFails
<1>23. ASSUME NEW p \in Pod, Crash(p)
      PROVE  Bookkeeping'
  BY <1>23 DEF Crash
<1>24. CASE UNCHANGED vars
  BY <1>24 DEF vars
<1>25. QED
  BY <1>1, <1>2, <1>3, <1>4, <1>5, <1>6, <1>7, <1>8, <1>9, <1>10, <1>11, <1>12, <1>13, <1>14, <1>15, <1>16, <1>17, <1>18, <1>19, <1>20, <1>21, <1>22, <1>23, <1>24
     DEF Next, SmoothNext, CycleStep, Failure

-----------------------------------------------------------------------------
Covers(q) == MoveCovers(q) /\ MergeCovers(q) /\ DropsAreCopied(q)

LEMMA CopiesAreSafeParts == CopiesAreSafe <=> (Secured /\ \A q \in Pod : Covers(q))
BY DEF CopiesAreSafe, Covers

\* Safe copies stay safe when no unexpired row goes and no more files become disposable.
LEMMA SecureGrows ==
  ASSUME TypeOK,
         \A f \in File : rows[f] \cap Alive' \subseteq rows'[f],
         \A q \in Pod : Disposable(q)' \subseteq Disposable(q)
  PROVE  Alive' \cap SecureRows \subseteq SecureRows'
BY DEF SecureRows, RowsOf

\* A step that keeps hot's unexpired entries, or has them safe in cold, keeps Secured.
LEMMA StillSecured ==
  ASSUME Secured, Alive' \subseteq Alive,
         Alive' \cap SecureRows \subseteq SecureRows',
         Alive' \cap hot \subseteq hot' \cup SecureRows'
  PROVE  Secured'
BY DEF Secured

\* A pod none of whose variables change is still covered, whatever the others did.
LEMMA OthersCovered ==
  ASSUME TypeOK, NEW q \in Pod, Covers(q),
         Alive' \subseteq Alive,
         \A e \in Alive' : born'[e] = born[e],
         Alive' \cap SecureRows \subseteq SecureRows',
         \A f \in written[q] : rows[f] \cap Alive' \subseteq rows'[f] \cup SecureRows',
         \A f \in batch[q] : rows'[f] \subseteq rows[f],
         pc'[q] = pc[q], top'[q] = top[q], started'[q] = started[q], buffer'[q] = buffer[q],
         written'[q] = written[q], batch'[q] = batch[q], unread'[q] = unread[q],
         merged'[q] = merged[q]
  PROVE  Covers(q)'
<1>1. MoveCovers(q)'
  <2>1. Passed(q)' \subseteq Passed(q) \cap Alive'
    BY DEF Passed, HotCutoff
  <2>2. RowsOf(written[q]) \cap Alive' \subseteq RowsOf(written[q])' \cup SecureRows'
    BY DEF RowsOf
  <2>3. QED
    BY <2>1, <2>2 DEF Covers, MoveCovers, Moves
<1>2. MergeCovers(q)'
  BY DEF Covers, MergeCovers, RowsOf
<1>3. DropsAreCopied(q)'
  <2>1. RowsOf(batch[q])' \subseteq RowsOf(batch[q])
    BY DEF RowsOf
  <2>2. QED
    BY <2>1 DEF Covers, DropsAreCopied
<1>4. QED
  BY <1>1, <1>2, <1>3 DEF Covers

LEMMA CopiesStep ==
  ASSUME TypeOK, Bookkeeping, CopiesAreSafe, MaxLag <= HotFor, [Next]_vars
  PROVE  CopiesAreSafe'
<1>. USE TieredAssumption
<1>. USE DEF TypeOK, clockVars, storeVars, moveVars, coldVars, Goto
<1>0. Secured /\ \A q \in Pod : Covers(q)
  BY CopiesAreSafeParts
<1>1. CASE Tick
  <2>1. Alive' \subseteq Alive /\ born' = born
    BY <1>1 DEF Tick, Alive, Expired
  <2>2. \A q \in Pod : Disposable(q)' = Disposable(q)
    BY <1>1 DEF Tick, Disposable
  <2>3. Alive' \cap SecureRows \subseteq SecureRows'
    BY <1>1, <2>2, SecureGrows DEF Tick
  <2>4. Secured'
    BY <1>0, <1>1, <2>1, <2>3, StillSecured DEF Tick
  <2>5. \A q \in Pod : Covers(q)'
    BY <1>0, <1>1, <2>1, <2>3, OthersCovered DEF Tick
  <2>6. QED
    BY <2>4, <2>5 DEF CopiesAreSafe, Covers
<1>2. ASSUME NEW p \in Pod, Insert(p)
      PROVE  CopiesAreSafe'
  BY <1>2 DEF Insert, CopiesAreSafe, Bookkeeping, MovingPc, RowsOf, NothingInvented, Visible,
     Expired, MoveAfter, OlderThan, Secured, Alive, SecureRows, Disposable, MoveCovers,
     Passed, HotCutoff, MergeCovers, DropsAreCopied
<1>3. ASSUME NEW p \in Pod, NEW e \in Entry, Record(p, e)
      PROVE  CopiesAreSafe'
  <2>1. Alive' = Alive /\ \A d \in Alive : born'[d] = born[d]
    BY <1>3 DEF Record, Alive, Expired, Bookkeeping
  <2>2. \A q \in Pod : Disposable(q)' = Disposable(q)
    BY <1>3 DEF Record, Disposable
  <2>3. Alive' \cap SecureRows \subseteq SecureRows'
    BY <1>3, <2>2, SecureGrows DEF Record
  <2>4. Secured'
    BY <1>0, <1>3, <2>1, <2>3, StillSecured DEF Record
  <2>5. \A q \in Pod : Covers(q)'
    BY <1>0, <1>3, <2>1, <2>3, OthersCovered DEF Record
  <2>6. QED
    BY <2>4, <2>5 DEF CopiesAreSafe, Covers
<1>4. ASSUME NEW p \in Pod, StartCycle(p)
      PROVE  CopiesAreSafe'
  <2>1. Alive' = Alive /\ born' = born
    BY <1>4 DEF StartCycle, Alive, Expired
  <2>2. \A q \in Pod : Disposable(q)' \subseteq Disposable(q)
    BY <1>4 DEF StartCycle, Disposable, Bookkeeping, MovingPc
  <2>3. Alive' \cap SecureRows \subseteq SecureRows'
    BY <1>4, <2>2, SecureGrows DEF StartCycle
  <2>4. Secured'
    BY <1>0, <1>4, <2>1, <2>3, StillSecured DEF StartCycle
  <2>5. ASSUME NEW q \in Pod, q # p
        PROVE  Covers(q)'
    BY <1>0, <1>4, <2>1, <2>3, <2>5, OthersCovered DEF StartCycle
  <2>6. Covers(p)'
    <3>1. Passed(p)' = {}
      BY <1>4 DEF StartCycle, Passed, HotCutoff, Alive, Bookkeeping
    <3>2. QED
      BY <1>4, <3>1 DEF StartCycle, Covers, MoveCovers, MergeCovers, DropsAreCopied
  <2>7. QED
    BY <2>4, <2>5, <2>6 DEF CopiesAreSafe, Covers
<1>5. ASSUME NEW p \in Pod, ListFullPage(p)
      PROVE  CopiesAreSafe'
  <2>1. Alive' = Alive /\ born' = born
    BY <1>5 DEF ListFullPage, Alive, Expired
  <2>2. \A q \in Pod : Disposable(q)' \subseteq Disposable(q)
    BY <1>5 DEF ListFullPage, Disposable
  <2>3. Alive' \cap SecureRows \subseteq SecureRows'
    BY <1>5, <2>2, SecureGrows DEF ListFullPage
  <2>4. Secured'
    BY <1>0, <1>5, <2>1, <2>3, StillSecured DEF ListFullPage
  <2>5. ASSUME NEW q \in Pod, q # p
        PROVE  Covers(q)'
    BY <1>0, <1>5, <2>1, <2>3, <2>5, OthersCovered DEF ListFullPage
  <2>6. Covers(p)'
    <3>1. ASSUME NEW e \in Alive, top'[p] <= born[e], born[e] < top[p]
          PROVE  e \in buffer'[p] \cup SecureRows'
      BY <1>0, <1>5, <2>3, <2>1, <3>1
         DEF ListFullPage, MoveWindow, Secured, Alive, Bookkeeping, Expired, MoveAfter, OlderThan
    <3>2. \A e \in Passed(p)' : e \in Passed(p) \/ (top'[p] <= born[e] /\ born[e] < top[p])
      BY <1>5, <2>1 DEF ListFullPage, MoveWindow, Passed, HotCutoff, Alive
    <3>3. RowsOf(written[p])' = RowsOf(written[p]) /\ buffer[p] \subseteq buffer'[p]
      BY <1>5 DEF ListFullPage, MoveWindow, RowsOf
    <3>4. ASSUME Moves
          PROVE  Passed(p)' \subseteq buffer'[p] \cup RowsOf(written[p])' \cup SecureRows'
      <4>1. Passed(p) \subseteq buffer[p] \cup RowsOf(written[p]) \cup SecureRows
        BY <1>0, <1>5, <3>4 DEF ListFullPage, MoveWindow, Covers, MoveCovers
      <4>2. Passed(p) \subseteq Alive
        BY DEF Passed
      <4>3. Passed(p) \subseteq buffer'[p] \cup RowsOf(written[p])' \cup SecureRows'
        BY <2>1, <2>3, <3>3, <4>1, <4>2
      <4>4. Passed(p)' \subseteq Alive
        BY <2>1 DEF Passed
      <4>5. QED
        BY <3>1, <3>2, <4>3, <4>4
    <3>5. QED
      BY <1>5, <3>4 DEF ListFullPage, MoveWindow, Covers, MoveCovers, MergeCovers, DropsAreCopied, Moves
  <2>7. QED
    BY <2>4, <2>5, <2>6 DEF CopiesAreSafe, Covers
<1>6. ASSUME NEW p \in Pod, ListEdge(p)
      PROVE  CopiesAreSafe'
  <2>1. Alive' = Alive /\ born' = born
    BY <1>6 DEF ListEdge, Alive, Expired
  <2>2. \A q \in Pod : Disposable(q)' \subseteq Disposable(q)
    BY <1>6 DEF ListEdge, Disposable
  <2>3. Alive' \cap SecureRows \subseteq SecureRows'
    BY <1>6, <2>2, SecureGrows DEF ListEdge
  <2>4. Secured'
    BY <1>0, <1>6, <2>1, <2>3, StillSecured DEF ListEdge
  <2>5. ASSUME NEW q \in Pod, q # p
        PROVE  Covers(q)'
    BY <1>0, <1>6, <2>1, <2>3, <2>5, OthersCovered DEF ListEdge
  <2>6. Covers(p)'
    <3>1. ASSUME NEW e \in Alive, top'[p] <= born[e], born[e] < top[p]
          PROVE  e \in buffer'[p] \cup SecureRows'
      <4>1. e \in stored /\ born[e] \in Nat /\ top'[p] = top[p] - 1 /\ top[p] \in Int
        BY <1>0, <1>6, <3>1 DEF ListEdge, Alive, TypeOK
      <4>2. born[e] = top[p] - 1
        BY <3>1, <4>1
      <4>3. CASE e \in hot
        BY <1>0, <1>6, <4>2, <4>3 DEF ListEdge, TypeOK
      <4>4. CASE e \in SecureRows
        BY <2>1, <2>3, <3>1, <4>4
      <4>5. QED
        BY <1>0, <3>1, <4>3, <4>4 DEF CopiesAreSafe, Secured
    <3>2. \A e \in Passed(p)' : e \in Passed(p) \/ (top'[p] <= born[e] /\ born[e] < top[p])
      BY <1>6, <2>1 DEF ListEdge, Passed, HotCutoff, Alive
    <3>3. RowsOf(written[p])' = RowsOf(written[p]) /\ buffer[p] \subseteq buffer'[p]
      BY <1>6 DEF ListEdge, RowsOf
    <3>4. ASSUME Moves
          PROVE  Passed(p)' \subseteq buffer'[p] \cup RowsOf(written[p])' \cup SecureRows'
      <4>1. Passed(p) \subseteq buffer[p] \cup RowsOf(written[p]) \cup SecureRows
        BY <1>0, <1>6, <3>4 DEF ListEdge, Covers, MoveCovers
      <4>2. Passed(p) \subseteq Alive
        BY DEF Passed
      <4>3. Passed(p) \subseteq buffer'[p] \cup RowsOf(written[p])' \cup SecureRows'
        BY <2>1, <2>3, <3>3, <4>1, <4>2
      <4>4. Passed(p)' \subseteq Alive
        BY <2>1 DEF Passed
      <4>5. QED
        BY <3>1, <3>2, <4>3, <4>4
    <3>5. QED
      BY <1>6, <3>4 DEF ListEdge, Covers, MoveCovers, MergeCovers, DropsAreCopied, Moves
  <2>7. QED
    BY <2>4, <2>5, <2>6 DEF CopiesAreSafe, Covers
<1>7. ASSUME NEW p \in Pod, ListLastPage(p)
      PROVE  CopiesAreSafe'
  <2>1. Alive' = Alive /\ born' = born
    BY <1>7 DEF ListLastPage, Alive, Expired
  <2>2. \A q \in Pod : Disposable(q)' \subseteq Disposable(q)
    BY <1>7 DEF ListLastPage, Disposable
  <2>3. Alive' \cap SecureRows \subseteq SecureRows'
    BY <1>7, <2>2, SecureGrows DEF ListLastPage
  <2>4. Secured'
    BY <1>0, <1>7, <2>1, <2>3, StillSecured DEF ListLastPage
  <2>5. ASSUME NEW q \in Pod, q # p
        PROVE  Covers(q)'
    BY <1>0, <1>7, <2>1, <2>3, <2>5, OthersCovered DEF ListLastPage
  <2>6. Covers(p)'
    <3>1. ASSUME NEW e \in Alive, top'[p] <= born[e], born[e] < top[p]
          PROVE  e \in buffer'[p] \cup SecureRows'
      BY <1>0, <1>7, <2>3, <2>1, <3>1
         DEF ListLastPage, MoveWindow, Secured, Alive, Bookkeeping, Expired, MoveAfter, OlderThan
    <3>2. \A e \in Passed(p)' : e \in Passed(p) \/ (top'[p] <= born[e] /\ born[e] < top[p])
      BY <1>7, <2>1 DEF ListLastPage, MoveWindow, Passed, HotCutoff, Alive
    <3>3. RowsOf(written[p])' = RowsOf(written[p]) /\ buffer[p] \subseteq buffer'[p]
      BY <1>7 DEF ListLastPage, MoveWindow, RowsOf
    <3>4. ASSUME Moves
          PROVE  Passed(p)' \subseteq buffer'[p] \cup RowsOf(written[p])' \cup SecureRows'
      <4>1. Passed(p) \subseteq buffer[p] \cup RowsOf(written[p]) \cup SecureRows
        BY <1>0, <1>7, <3>4 DEF ListLastPage, MoveWindow, Covers, MoveCovers
      <4>2. Passed(p) \subseteq Alive
        BY DEF Passed
      <4>3. Passed(p) \subseteq buffer'[p] \cup RowsOf(written[p])' \cup SecureRows'
        BY <2>1, <2>3, <3>3, <4>1, <4>2
      <4>4. Passed(p)' \subseteq Alive
        BY <2>1 DEF Passed
      <4>5. QED
        BY <3>1, <3>2, <4>3, <4>4
    <3>5. QED
      BY <1>7, <3>4 DEF ListLastPage, MoveWindow, Covers, MoveCovers, MergeCovers, DropsAreCopied, Moves
  <2>7. QED
    BY <2>4, <2>5, <2>6 DEF CopiesAreSafe, Covers
<1>8. ASSUME NEW p \in Pod, WriteFile(p)
      PROVE  CopiesAreSafe'
  <2>1. Alive' = Alive /\ born' = born
    BY <1>8 DEF WriteFile, Alive, Expired
  <2>2. PICK f \in File, S \in SUBSET buffer[p] :
              /\ rows[f] = {} /\ \A q \in Pod : f \notin written[q] \cup batch[q]
              /\ rows' = [rows EXCEPT ![f] = S]
              /\ written' = [written EXCEPT ![p] = @ \cup {f}]
              /\ buffer' = [buffer EXCEPT ![p] = @ \ S]
    BY <1>8 DEF WriteFile, Fresh
  <2>3. Alive' \cap SecureRows \subseteq SecureRows'
    BY <1>8, <2>1, <2>2 DEF WriteFile, SecureRows, RowsOf, Disposable
  <2>4. Secured'
    BY <1>0, <1>8, <2>1, <2>3, StillSecured DEF WriteFile
  <2>5. ASSUME NEW q \in Pod, q # p
        PROVE  Covers(q)'
    <3>1. \A g \in written[q] \cup batch[q] : rows'[g] = rows[g]
      BY <2>2
    <3>2. QED
      BY <1>0, <1>8, <2>1, <2>3, <2>5, <3>1, OthersCovered DEF WriteFile
  <2>6. Covers(p)'
    <3>1. buffer[p] \cup RowsOf(written[p]) \subseteq buffer'[p] \cup RowsOf(written[p])'
      BY <2>2 DEF RowsOf
    <3>2. Passed(p)' = Passed(p)
      BY <1>8, <2>1 DEF WriteFile, Passed, HotCutoff
    <3>3. Passed(p) \subseteq buffer'[p] \cup RowsOf(written[p])' \cup SecureRows' \/ ~ Moves
      BY <1>0, <1>8, <2>1, <2>3, <3>1 DEF WriteFile, Covers, MoveCovers, Passed
    <3>4. QED
      BY ZenonT(30), <1>8, <3>2, <3>3 DEF WriteFile, Covers, MoveCovers, MergeCovers, DropsAreCopied, Moves
  <2>7. QED
    BY <2>4, <2>5, <2>6 DEF CopiesAreSafe, Covers
<1>9. ASSUME NEW p \in Pod, Flushed(p)
      PROVE  CopiesAreSafe'
  <2>1. Alive' = Alive /\ born' = born
    BY <1>9 DEF Flushed, Alive, Expired
  <2>2. \A q \in Pod : Disposable(q)' \subseteq Disposable(q)
    BY <1>9 DEF Flushed, Disposable
  <2>3. Alive' \cap SecureRows \subseteq SecureRows'
    BY <1>9, <2>2, SecureGrows DEF Flushed
  <2>4. Secured'
    BY <1>0, <1>9, <2>1, <2>3, StillSecured DEF Flushed
  <2>5. ASSUME NEW q \in Pod, q # p
        PROVE  Covers(q)'
    BY <1>0, <1>9, <2>1, <2>3, <2>5, OthersCovered DEF Flushed
  <2>6. Covers(p)'
    <3>1. Passed(p)' = Passed(p) /\ RowsOf(written[p])' = RowsOf(written[p])
      BY <1>9, <2>1 DEF Flushed, Passed, HotCutoff, RowsOf
    <3>2. Passed(p) \subseteq buffer'[p] \cup RowsOf(written[p])' \cup SecureRows' \/ ~ Moves
      BY <1>0, <1>9, <2>1, <2>3, <3>1 DEF Flushed, Covers, MoveCovers, Passed
    <3>4. QED
      BY <1>9, <3>1, <3>2 DEF Flushed, Covers, MoveCovers, MergeCovers, DropsAreCopied, Moves
  <2>7. QED
    BY <2>4, <2>5, <2>6 DEF CopiesAreSafe, Covers
<1>10. ASSUME NEW p \in Pod, UndoMove(p)
      PROVE  CopiesAreSafe'
  <2>1. Alive' = Alive /\ born' = born
    BY <1>10 DEF UndoMove, Alive, Expired
  <2>2. PICK gone \in SUBSET written[p] :
              rows' = [f \in File |-> IF f \in gone THEN {} ELSE rows[f]]
    BY <1>10 DEF UndoMove
  <2>3. Alive' \cap SecureRows \subseteq SecureRows'
    BY <1>10, <2>1, <2>2 DEF UndoMove, SecureRows, RowsOf, Disposable
  <2>4. Secured'
    BY <1>0, <1>10, <2>1, <2>3, StillSecured DEF UndoMove
  <2>5. ASSUME NEW q \in Pod, q # p
        PROVE  Covers(q)'
    <3>1. \A g \in written[q] : rows'[g] = rows[g]
      BY <2>2, <2>5 DEF Bookkeeping
    <3>2. \A g \in File : rows'[g] \subseteq rows[g]
      BY <2>2
    <3>3. QED
      BY <1>0, <1>10, <2>1, <2>3, <2>5, <3>1, <3>2, OthersCovered DEF UndoMove
  <2>6. Covers(p)'
    BY <1>10 DEF UndoMove, Covers, MoveCovers, MergeCovers, DropsAreCopied
  <2>7. QED
    BY <2>4, <2>5, <2>6 DEF CopiesAreSafe, Covers
<1>11. ASSUME NEW p \in Pod, HotPrune(p)
      PROVE  CopiesAreSafe'
  <2>1. Alive' = Alive /\ born' = born
    BY <1>11 DEF HotPrune, Alive, Expired
  <2>2. \A q \in Pod : Disposable(q)' \subseteq Disposable(q)
    BY <1>11 DEF HotPrune, Disposable
  <2>3. Alive' \cap SecureRows \subseteq SecureRows'
    BY <1>11, <2>2, SecureGrows DEF HotPrune
  <2>4. Secured'
    <3>1. ASSUME NEW e \in Alive, e \in hot, e \notin hot'
          PROVE  e \in SecureRows'
      <4>1. Moves /\ born[e] < HotCutoff(p)
        BY <1>11, <3>1 DEF HotPrune, HotVictims, HotDoomed, Alive, Expired, OlderThan, Bookkeeping
      <4>2. top[p] <= born[e]
        BY <1>11, <3>1, <4>1 DEF HotPrune, Alive, Expired, OlderThan, MoveAfter, Bookkeeping
      <4>3. buffer[p] = {}
        BY <1>11 DEF HotPrune, Bookkeeping
      <4>4. e \in RowsOf(written[p]) \cup SecureRows
        BY <1>0, <1>11, <4>1, <4>2, <4>3 DEF HotPrune, Covers, MoveCovers, Passed
      <4>5. ASSUME e \in RowsOf(written[p])
            PROVE  e \in SecureRows
        <5>1. PICK f \in written[p] : e \in rows[f]
          BY <4>5 DEF RowsOf
        <5>2. CASE \A q \in Pod : f \notin Disposable(q)
          BY <5>1, <5>2 DEF SecureRows, RowsOf
        <5>3. ASSUME NEW q \in Pod, f \in Disposable(q)
              PROVE  e \in SecureRows
          <6>1. q # p
            BY <1>11, <5>3 DEF HotPrune, Disposable
          <6>2. pc[q] = "compactDrop" /\ f \in batch[q]
            BY <5>1, <5>3, <6>1 DEF Disposable, Bookkeeping
          <6>3. QED
            BY <1>0, <5>1, <6>2 DEF Covers, DropsAreCopied, RowsOf
        <5>4. QED
          BY <5>2, <5>3
      <4>6. QED
        BY <2>1, <2>3, <4>4, <4>5
    <3>2. QED
      BY <1>0, <2>1, <2>3, <3>1, StillSecured
  <2>5. ASSUME NEW q \in Pod, q # p
        PROVE  Covers(q)'
    BY <1>0, <1>11, <2>1, <2>3, <2>5, OthersCovered DEF HotPrune
  <2>6. Covers(p)'
    BY <1>11 DEF HotPrune, Covers, MoveCovers, MergeCovers, DropsAreCopied
  <2>7. QED
    BY <2>4, <2>5, <2>6 DEF CopiesAreSafe, Covers
<1>12. ASSUME NEW p \in Pod, HotPruneFails(p)
      PROVE  CopiesAreSafe'
  <2>1. Alive' = Alive /\ born' = born
    BY <1>12 DEF HotPruneFails, Alive, Expired
  <2>2. \A q \in Pod : Disposable(q)' \subseteq Disposable(q)
    BY <1>12 DEF HotPruneFails, Disposable
  <2>3. Alive' \cap SecureRows \subseteq SecureRows'
    BY <1>12, <2>2, SecureGrows DEF HotPruneFails
  <2>4. Secured'
    <3>1. ASSUME NEW e \in Alive, e \in hot, e \notin hot'
          PROVE  e \in SecureRows'
      <4>1. Moves /\ born[e] < HotCutoff(p)
        BY <1>12, <3>1 DEF HotPruneFails, HotVictims, HotDoomed, Alive, Expired, OlderThan, Bookkeeping
      <4>2. top[p] <= born[e]
        BY <1>12, <3>1, <4>1 DEF HotPruneFails, Alive, Expired, OlderThan, MoveAfter, Bookkeeping
      <4>3. buffer[p] = {}
        BY <1>12 DEF HotPruneFails, Bookkeeping
      <4>4. e \in RowsOf(written[p]) \cup SecureRows
        BY <1>0, <1>12, <4>1, <4>2, <4>3 DEF HotPruneFails, Covers, MoveCovers, Passed
      <4>5. ASSUME e \in RowsOf(written[p])
            PROVE  e \in SecureRows
        <5>1. PICK f \in written[p] : e \in rows[f]
          BY <4>5 DEF RowsOf
        <5>2. CASE \A q \in Pod : f \notin Disposable(q)
          BY <5>1, <5>2 DEF SecureRows, RowsOf
        <5>3. ASSUME NEW q \in Pod, f \in Disposable(q)
              PROVE  e \in SecureRows
          <6>1. q # p
            BY <1>12, <5>3 DEF HotPruneFails, Disposable
          <6>2. pc[q] = "compactDrop" /\ f \in batch[q]
            BY <5>1, <5>3, <6>1 DEF Disposable, Bookkeeping
          <6>3. QED
            BY <1>0, <5>1, <6>2 DEF Covers, DropsAreCopied, RowsOf
        <5>4. QED
          BY <5>2, <5>3
      <4>6. QED
        BY <2>1, <2>3, <4>4, <4>5
    <3>2. QED
      BY <1>0, <2>1, <2>3, <3>1, StillSecured
  <2>5. ASSUME NEW q \in Pod, q # p
        PROVE  Covers(q)'
    BY <1>0, <1>12, <2>1, <2>3, <2>5, OthersCovered DEF HotPruneFails
  <2>6. Covers(p)'
    BY <1>12 DEF HotPruneFails, Covers, MoveCovers, MergeCovers, DropsAreCopied
  <2>7. QED
    BY <2>4, <2>5, <2>6 DEF CopiesAreSafe, Covers
<1>13. ASSUME NEW p \in Pod, ExpireList(p)
      PROVE  CopiesAreSafe'
  <2>1. Alive' = Alive /\ born' = born
    BY <1>13 DEF ExpireList, Alive, Expired
  <2>2. \A q \in Pod : Disposable(q)' \subseteq Disposable(q)
    BY <1>13 DEF ExpireList, Disposable
  <2>3. Alive' \cap SecureRows \subseteq SecureRows'
    BY <1>13, <2>2, SecureGrows DEF ExpireList
  <2>4. Secured'
    BY <1>0, <1>13, <2>1, <2>3, StillSecured DEF ExpireList
  <2>5. ASSUME NEW q \in Pod, q # p
        PROVE  Covers(q)'
    BY <1>0, <1>13, <2>1, <2>3, <2>5, OthersCovered DEF ExpireList
  <2>6. Covers(p)'
    BY <1>13 DEF ExpireList, Covers, MoveCovers, MergeCovers, DropsAreCopied
  <2>7. QED
    BY <2>4, <2>5, <2>6 DEF CopiesAreSafe, Covers
<1>14. ASSUME NEW p \in Pod, DeleteFile(p)
      PROVE  CopiesAreSafe'
  <2>1. Alive' = Alive /\ born' = born
    BY <1>14 DEF DeleteFile, Alive, Expired
  <2>2. PICK f \in batch[p] :
              /\ rows' = [rows EXCEPT ![f] = {}]
              /\ batch' = [batch EXCEPT ![p] = @ \ {f}]
    BY <1>14 DEF DeleteFile
  <2>8. rows[f] \cap Alive \subseteq SecureRows
    BY <1>0, <1>14, <2>2 DEF DeleteFile, Covers, DropsAreCopied, RowsOf, Alive, Bookkeeping
  <2>9. f \in Disposable(p) \/ rows[f] \cap Alive = {}
    BY <1>14, <2>2 DEF DeleteFile, Disposable, RowsOf, Alive, Bookkeeping
  <2>3. Alive' \cap SecureRows \subseteq SecureRows'
    <3>1. \A q \in Pod : Disposable(q)' \subseteq Disposable(q)
      BY <1>14, <2>2 DEF DeleteFile, Disposable
    <3>2. QED
      BY <1>14, <2>1, <2>2, <2>9, <3>1 DEF SecureRows, RowsOf
  <2>4. Secured'
    BY <1>0, <1>14, <2>1, <2>3, StillSecured DEF DeleteFile
  <2>5. ASSUME NEW q \in Pod, q # p
        PROVE  Covers(q)'
    <3>1. \A g \in written[q] : rows[g] \cap Alive' \subseteq rows'[g] \cup SecureRows'
      BY <2>1, <2>2, <2>3, <2>8
    <3>2. \A g \in File : rows'[g] \subseteq rows[g]
      BY <2>2
    <3>3. QED
      BY <1>0, <1>14, <2>1, <2>2, <2>3, <2>5, <3>1, <3>2, OthersCovered DEF DeleteFile
  <2>6. Covers(p)'
    <3>1. RowsOf(batch[p])' \subseteq RowsOf(batch[p])
      BY <2>2 DEF RowsOf
    <3>2. QED
      BY <1>0, <1>14, <2>1, <2>3, <3>1
         DEF DeleteFile, Covers, MoveCovers, MergeCovers, DropsAreCopied
  <2>7. QED
    BY <2>4, <2>5, <2>6 DEF CopiesAreSafe, Covers
<1>15. ASSUME NEW p \in Pod, Deleted(p)
      PROVE  CopiesAreSafe'
  <2>1. Alive' = Alive /\ born' = born
    BY <1>15 DEF Deleted, Alive, Expired
  <2>2. \A q \in Pod : Disposable(q)' \subseteq Disposable(q)
    BY <1>15 DEF Deleted, Disposable
  <2>3. Alive' \cap SecureRows \subseteq SecureRows'
    BY <1>15, <2>2, SecureGrows DEF Deleted
  <2>4. Secured'
    BY <1>0, <1>15, <2>1, <2>3, StillSecured DEF Deleted
  <2>5. ASSUME NEW q \in Pod, q # p
        PROVE  Covers(q)'
    BY <1>0, <1>15, <2>1, <2>3, <2>5, OthersCovered DEF Deleted
  <2>6. Covers(p)'
    BY <1>15 DEF Deleted, Covers, MoveCovers, MergeCovers, DropsAreCopied
  <2>7. QED
    BY <2>4, <2>5, <2>6 DEF CopiesAreSafe, Covers
<1>16. ASSUME NEW p \in Pod, CompactList(p)
      PROVE  CopiesAreSafe'
  <2>1. Alive' = Alive /\ born' = born
    BY <1>16 DEF CompactList, Alive, Expired
  <2>2. \A q \in Pod : Disposable(q)' \subseteq Disposable(q)
    BY <1>16 DEF CompactList, Disposable
  <2>3. Alive' \cap SecureRows \subseteq SecureRows'
    BY <1>16, <2>2, SecureGrows DEF CompactList
  <2>4. Secured'
    BY <1>0, <1>16, <2>1, <2>3, StillSecured DEF CompactList
  <2>5. ASSUME NEW q \in Pod, q # p
        PROVE  Covers(q)'
    BY <1>0, <1>16, <2>1, <2>3, <2>5, OthersCovered DEF CompactList
  <2>6. Covers(p)'
    BY <1>16 DEF CompactList, Covers, MoveCovers, MergeCovers, DropsAreCopied
  <2>7. QED
    BY <2>4, <2>5, <2>6 DEF CopiesAreSafe, Covers
<1>17. ASSUME NEW p \in Pod, CompactPick(p)
      PROVE  CopiesAreSafe'
  <2>1. Alive' = Alive /\ born' = born
    BY <1>17 DEF CompactPick, Alive, Expired
  <2>2. \A q \in Pod : Disposable(q)' \subseteq Disposable(q)
    BY <1>17 DEF CompactPick, Disposable
  <2>3. Alive' \cap SecureRows \subseteq SecureRows'
    BY <1>17, <2>2, SecureGrows DEF CompactPick
  <2>4. Secured'
    BY <1>0, <1>17, <2>1, <2>3, StillSecured DEF CompactPick
  <2>5. ASSUME NEW q \in Pod, q # p
        PROVE  Covers(q)'
    BY <1>0, <1>17, <2>1, <2>3, <2>5, OthersCovered DEF CompactPick
  <2>6. Covers(p)'
    BY <1>17 DEF CompactPick, Covers, MoveCovers, MergeCovers, DropsAreCopied, RowsOf
  <2>7. QED
    BY <2>4, <2>5, <2>6 DEF CopiesAreSafe, Covers
<1>18. ASSUME NEW p \in Pod, CompactRead(p)
      PROVE  CopiesAreSafe'
  <2>1. Alive' = Alive /\ born' = born
    BY <1>18 DEF CompactRead, Alive, Expired
  <2>2. \A q \in Pod : Disposable(q)' \subseteq Disposable(q)
    BY <1>18 DEF CompactRead, Disposable
  <2>3. Alive' \cap SecureRows \subseteq SecureRows'
    BY <1>18, <2>2, SecureGrows DEF CompactRead
  <2>4. Secured'
    BY <1>0, <1>18, <2>1, <2>3, StillSecured DEF CompactRead
  <2>5. ASSUME NEW q \in Pod, q # p
        PROVE  Covers(q)'
    BY <1>0, <1>18, <2>1, <2>3, <2>5, OthersCovered DEF CompactRead
  <2>6. Covers(p)'
    BY <1>0, <1>18 DEF CompactRead, Covers, MoveCovers, MergeCovers, DropsAreCopied, RowsOf
  <2>7. QED
    BY <2>4, <2>5, <2>6 DEF CopiesAreSafe, Covers
<1>19. ASSUME NEW p \in Pod, CompactWrite(p)
      PROVE  CopiesAreSafe'
  <2>1. Alive' = Alive /\ born' = born
    BY <1>19 DEF CompactWrite, Alive, Expired
  <2>2. RowsOf(batch[p]) \subseteq merged[p]
    BY <1>0, <1>19 DEF CompactWrite, Covers, MergeCovers, RowsOf
  <2>8. \A g \in File : rows[g] # {} => rows'[g] = rows[g]
    BY <1>19 DEF CompactWrite, Fresh
  <2>9. \A q \in Pod : Disposable(q)' = IF q = p THEN batch[p] ELSE Disposable(q)
    BY <1>19 DEF CompactWrite, Disposable
  <2>10. ASSUME merged[p] # {}
         PROVE  \E f \in File : /\ rows'[f] = merged[p]
                                /\ \A q \in Pod : f \notin written[q] \cup batch[q]
    BY <1>19, <2>10 DEF CompactWrite, Fresh
  <2>11. merged[p] \subseteq SecureRows'
    BY <1>19, <2>9, <2>10 DEF CompactWrite, SecureRows, RowsOf, Disposable
  <2>3. Alive' \cap SecureRows \subseteq SecureRows'
    <3>1. ASSUME NEW g \in File, NEW e \in rows[g], \A q \in Pod : g \notin Disposable(q)
          PROVE  e \in SecureRows'
      <4>1. CASE g \in batch[p]
        BY <2>2, <2>11, <4>1 DEF RowsOf
      <4>2. CASE g \notin batch[p]
        BY <2>8, <2>9, <3>1, <4>2 DEF SecureRows, RowsOf
      <4>3. QED
        BY <4>1, <4>2
    <3>2. QED
      BY <3>1 DEF SecureRows, RowsOf
  <2>4. Secured'
    BY <1>0, <1>19, <2>1, <2>3, StillSecured DEF CompactWrite
  <2>5. ASSUME NEW q \in Pod, q # p
        PROVE  Covers(q)'
    <3>1. \A g \in written[q] \cup batch[q] : rows'[g] = rows[g]
      BY <1>19 DEF CompactWrite, Fresh
    <3>2. QED
      BY <1>0, <1>19, <2>1, <2>3, <2>5, <3>1, OthersCovered DEF CompactWrite
  <2>6. Covers(p)'
    <3>1. RowsOf(batch[p])' \subseteq merged[p]
      BY <1>19, <2>2 DEF CompactWrite, Fresh, RowsOf
    <3>2. QED
      BY <1>19, <2>11, <3>1 DEF CompactWrite, Covers, MoveCovers, MergeCovers, DropsAreCopied
  <2>7. QED
    BY <2>4, <2>5, <2>6 DEF CopiesAreSafe, Covers
<1>20. ASSUME NEW p \in Pod, CompactDone(p)
      PROVE  CopiesAreSafe'
  <2>1. Alive' = Alive /\ born' = born
    BY <1>20 DEF CompactDone, Alive, Expired
  <2>2. \A q \in Pod : Disposable(q)' \subseteq Disposable(q)
    BY <1>20 DEF CompactDone, Disposable
  <2>3. Alive' \cap SecureRows \subseteq SecureRows'
    BY <1>20, <2>2, SecureGrows DEF CompactDone
  <2>4. Secured'
    BY <1>0, <1>20, <2>1, <2>3, StillSecured DEF CompactDone
  <2>5. ASSUME NEW q \in Pod, q # p
        PROVE  Covers(q)'
    BY <1>0, <1>20, <2>1, <2>3, <2>5, OthersCovered DEF CompactDone
  <2>6. Covers(p)'
    BY <1>20 DEF CompactDone, Covers, MoveCovers, MergeCovers, DropsAreCopied
  <2>7. QED
    BY <2>4, <2>5, <2>6 DEF CopiesAreSafe, Covers
<1>21. ASSUME NEW p \in Pod, MoveFails(p)
      PROVE  CopiesAreSafe'
  <2>1. Alive' = Alive /\ born' = born
    BY <1>21 DEF MoveFails, Alive, Expired
  <2>2. \A q \in Pod : Disposable(q)' \subseteq Disposable(q)
    BY <1>21 DEF MoveFails, Disposable
  <2>3. Alive' \cap SecureRows \subseteq SecureRows'
    BY <1>21, <2>2, SecureGrows DEF MoveFails
  <2>4. Secured'
    BY <1>0, <1>21, <2>1, <2>3, StillSecured DEF MoveFails
  <2>5. ASSUME NEW q \in Pod, q # p
        PROVE  Covers(q)'
    BY <1>0, <1>21, <2>1, <2>3, <2>5, OthersCovered DEF MoveFails
  <2>6. Covers(p)'
    BY <1>21 DEF MoveFails, Covers, MoveCovers, MergeCovers, DropsAreCopied
  <2>7. QED
    BY <2>4, <2>5, <2>6 DEF CopiesAreSafe, Covers
<1>22. ASSUME NEW p \in Pod, MaintenanceFails(p)
      PROVE  CopiesAreSafe'
  <2>1. Alive' = Alive /\ born' = born
    BY <1>22 DEF MaintenanceFails, Alive, Expired
  <2>2. \A q \in Pod : Disposable(q)' \subseteq Disposable(q)
    BY <1>22 DEF MaintenanceFails, Disposable
  <2>3. Alive' \cap SecureRows \subseteq SecureRows'
    BY <1>22, <2>2, SecureGrows DEF MaintenanceFails
  <2>4. Secured'
    BY <1>0, <1>22, <2>1, <2>3, StillSecured DEF MaintenanceFails
  <2>5. ASSUME NEW q \in Pod, q # p
        PROVE  Covers(q)'
    BY <1>0, <1>22, <2>1, <2>3, <2>5, OthersCovered DEF MaintenanceFails
  <2>6. Covers(p)'
    BY <1>22 DEF MaintenanceFails, Covers, MoveCovers, MergeCovers, DropsAreCopied
  <2>7. QED
    BY <2>4, <2>5, <2>6 DEF CopiesAreSafe, Covers
<1>23. ASSUME NEW p \in Pod, Crash(p)
      PROVE  CopiesAreSafe'
  <2>1. Alive' = Alive /\ born' = born
    BY <1>23 DEF Crash, Alive, Expired
  <2>2. \A q \in Pod : Disposable(q)' \subseteq Disposable(q)
    BY <1>23 DEF Crash, Disposable
  <2>3. Alive' \cap SecureRows \subseteq SecureRows'
    BY <1>23, <2>2, SecureGrows DEF Crash
  <2>4. Secured'
    BY <1>0, <1>23, <2>1, <2>3, StillSecured DEF Crash
  <2>5. ASSUME NEW q \in Pod, q # p
        PROVE  Covers(q)'
    BY <1>0, <1>23, <2>1, <2>3, <2>5, OthersCovered DEF Crash
  <2>6. Covers(p)'
    BY <1>23 DEF Crash, Covers, MoveCovers, MergeCovers, DropsAreCopied
  <2>7. QED
    BY <2>4, <2>5, <2>6 DEF CopiesAreSafe, Covers
<1>24. CASE UNCHANGED vars
  BY <1>24 DEF vars, CopiesAreSafe, RowsOf,
     Expired, MoveAfter, OlderThan, Secured, Alive, SecureRows, Disposable, MoveCovers,
     Passed, HotCutoff, MergeCovers, DropsAreCopied
<1>25. QED
  BY <1>1, <1>2, <1>3, <1>4, <1>5, <1>6, <1>7, <1>8, <1>9, <1>10, <1>11, <1>12, <1>13, <1>14, <1>15, <1>16, <1>17, <1>18, <1>19, <1>20, <1>21, <1>22, <1>23, <1>24
     DEF Next, SmoothNext, CycleStep, Failure

Inv == TypeOK /\ Bookkeeping /\ CopiesAreSafe

LEMMA InvInit == Init => Inv
<1> SUFFICES ASSUME Init
             PROVE  Inv
  OBVIOUS
<1>1. TypeOK
  BY TieredAssumption DEF Init, TypeOK, PcSet
<1>2. CopiesAreSafe
  BY DEF Init, CopiesAreSafe, Secured, Alive, MoveCovers, MergeCovers, DropsAreCopied
<1>3. QED
  BY <1>1, <1>2, BookkeepingInit DEF Inv

LEMMA InvStep ==
  ASSUME MaxLag <= HotFor, Inv, [Next]_vars
  PROVE  Inv'
BY TypeStep, BookkeepingStep, CopiesStep DEF Inv

\* Whatever step any pod is at, every entry that must be kept has a copy that no
\* running move, undo or compaction will delete.
THEOREM CopiesStaySafe ==
  ASSUME MaxLag <= HotFor
  PROVE  Spec => []CopiesAreSafe
<1>1. Inv /\ [Next]_vars => Inv'
  BY InvStep
<1>2. QED
  BY <1>1, InvInit, PTL DEF Inv, Spec

LEMMA SafeCopiesLoseNothing == CopiesAreSafe => NoLoss
BY DEF CopiesAreSafe, Secured, Alive, SecureRows, RowsOf, NoLoss, Visible

\* No entry the hot store took disappears before its retention is over, for any
\* number of pods pruning, failing and crashing at any point of their cycles.
THEOREM NothingLost ==
  ASSUME MaxLag <= HotFor
  PROVE  Spec => []NoLoss
BY CopiesStaySafe, SafeCopiesLoseNothing, PTL

\* What a reader must be shown is exactly what was taken and has not expired.
LEMMA ViewIsAlive == NothingInvented /\ NoLoss => RetentionView = Alive
BY DEF NothingInvented, NoLoss, RetentionView, Alive

LEMMA StepImplementsLog ==
  ASSUME TypeOK, Bookkeeping, [Next]_vars,
         RetentionView = Alive, RetentionView' = Alive'
  PROVE  [Log!Next]_(Log!vars)
<1>. USE DEF TypeOK, clockVars, storeVars, moveVars, coldVars, Alive, Expired
<1>1. CASE Tick
  <2>1. Log!Tick
    BY <1>1, TieredAssumption DEF Tick, Log!Tick, Log!Expired
  <2>2. QED
    BY <2>1 DEF Log!Next
<1>2. ASSUME NEW p \in Pod, NEW e \in Entry, Record(p, e)
      PROVE  [Log!Next]_(Log!vars)
  <2>1. Alive' = Alive
    BY <1>2 DEF Record, Bookkeeping
  <2>2. Log!Stamp(e)
    BY <1>2, <2>1 DEF Record, Log!Stamp
  <2>3. QED
    BY <2>2 DEF Log!Next
<1>3. ASSUME NEW p \in Pod, Insert(p)
      PROVE  [Log!Next]_(Log!vars)
  <2>1. PICK took \in SUBSET pending[p] : stored' = stored \cup took
    BY <1>3 DEF Insert
  <2>2. Log!Accept(took)
    BY <1>3, <2>1 DEF Insert, Log!Accept, Log!Expired, Bookkeeping
  <2>3. took \in SUBSET Entry
    OBVIOUS
  <2>4. QED
    BY <2>2, <2>3 DEF Log!Next
<1>4. ASSUME now' = now, born' = born, recorded' = recorded, stored' = stored
      PROVE  [Log!Next]_(Log!vars)
  BY <1>4 DEF Log!vars
<1>5. ASSUME NEW p \in Pod, StartCycle(p) \/ CycleStep(p) \/ Failure(p)
      PROVE  now' = now /\ born' = born /\ recorded' = recorded /\ stored' = stored
  BY <1>5 DEF StartCycle, CycleStep, Failure, ListFullPage, ListEdge, ListLastPage, WriteFile,
     Flushed, UndoMove, HotPrune, ExpireList, DeleteFile, Deleted, CompactList, CompactPick,
     CompactRead, CompactWrite, CompactDone, MoveFails, HotPruneFails, MaintenanceFails, Crash
<1>6. CASE UNCHANGED vars
  BY <1>4, <1>6 DEF vars
<1>7. QED
  BY <1>1, <1>2, <1>3, <1>4, <1>5, <1>6 DEF Next, SmoothNext

\* The tiered store implements a log that keeps every accepted entry for exactly
\* its retention: each await of each pod is a stutter of that log.
THEOREM TieredImplementsLog ==
  ASSUME MaxLag <= HotFor
  PROVE  Spec => ImplementsRetentionLog
<1>1. Init => Log!Init
  BY DEF Init, Log!Init, RetentionView, Visible, RowsOf
<1>2. Inv => RetentionView = Alive
  BY ViewIsAlive, SafeCopiesLoseNothing DEF Inv, Bookkeeping
<1>3. Inv /\ TypeOK' /\ [Next]_vars => Inv'
  BY BookkeepingStep, CopiesStep DEF Inv
<1>4. /\ Inv
      /\ RetentionView = Alive
      /\ (RetentionView = Alive)'
      /\ [Next]_vars
      => [Log!Next]_(Log!vars)
  BY StepImplementsLog DEF Inv
<1>5. QED
  BY <1>1, <1>2, <1>3, <1>4, InvInit, TypeCorrect, PTL
     DEF Inv, Spec, ImplementsRetentionLog, Log!Spec

-----------------------------------------------------------------------------
(* Counts.  One pod that meets no failure.                                  *)

\* No entry is in two files of F.
FilesAreApart(F) == \A f, g \in F : f # g => rows[f] \cap rows[g] = {}
Merged(p) == IF pc[p] = "compactDrop" THEN batch[p] ELSE {}

\* The only pod, when nothing fails, holds a second row of an entry only between a move and the
\* prune that follows it, and between a merged file and the deletion of what it merges.
OneCopy(p) ==
  /\ pc[p] # "undo"
  /\ pc[p] \in {"page", "edge", "flush", "lastFlush"} \/ written[p] # {} => Moves
  /\ FilesAreApart(File \ Merged(p))
  /\ \A f \in File \ written[p] : rows[f] \cap hot = {}
  /\ buffer[p] \subseteq hot /\ buffer[p] \cap RowsOf(File) = {}
  /\ \A e \in buffer[p] \cup RowsOf(written[p]) : born[e] < HotCutoff(p)
  /\ pc[p] \in {"page", "edge", "flush"} =>
       /\ top[p] <= HotCutoff(p)
       /\ \A e \in buffer[p] \cup RowsOf(written[p]) : top[p] <= born[e]
  /\ pc[p] = "compactRead" => unread[p] \subseteq batch[p] /\ merged[p] \subseteq RowsOf(batch[p])

\* What the move has passed is in its memory or in its files.
HotMoved(p) ==
  \A e \in hot : top[p] <= born[e] /\ born[e] < HotCutoff(p)
                   => e \in buffer[p] \cup RowsOf(written[p])
Moving(p) == pc[p] \in {"page", "edge", "flush", "lastFlush", "hotPrune"}

\* What is gone was past retention, and while an expiry deletes, the files it spares hold the count.
CountIsSpared(p) ==
  /\ stored \ Visible \subseteq PastRetention
  /\ Moving(p) => HotMoved(p)
  /\ pc[p] = "expire" => /\ RowsOf(batch[p]) \subseteq PastRetention
                         /\ \/ batch[p] = {}
                            \/ Cardinality(PastRetention \cap RowsOf(File \ batch[p])) >= KeepLast
  /\ pc[p] = "compactDrop" => RowsOf(batch[p]) \subseteq RowsOf(File \ batch[p])
  /\ KeepsLastCount

\* Files that share no entry hold as many rows as entries.
LEMMA ApartCount ==
  ASSUME IsFiniteSet(File), IsFiniteSet(Entry), TypeOK, NEW F \in SUBSET File, FilesAreApart(F)
  PROVE  IsFiniteSet(RowsOf(F)) /\ RowCount(F) = Cardinality(RowsOf(F))
  <1>. DEFINE Pairs == {r \in F \X Entry : r[2] \in rows[r[1]]}
              g == [r \in Pairs |-> r[2]]
  <1>1. IsFiniteSet(Pairs)
    <2>1. IsFiniteSet(F)
      BY FS_Subset
    <2>2. IsFiniteSet(F \X Entry)
      BY <2>1, FS_Product
    <2>. QED
      BY <2>2, FS_Subset
  <1>2. g \in Surjection(Pairs, RowsOf(F))
    <2>1. \A r \in Pairs : g[r] \in RowsOf(F)
      BY DEF RowsOf
    <2>2. ASSUME NEW e \in RowsOf(F)
          PROVE  \E r \in Pairs : g[r] = e
      <3>1. PICK f \in F : e \in rows[f]
        BY DEF RowsOf
      <3>2. <<f, e>> \in Pairs
        BY <3>1 DEF TypeOK
      <3>. QED
        BY <3>2
    <2>. QED
      BY <2>1, <2>2 DEF Surjection
  <1>3. g \in Injection(Pairs, RowsOf(F))
    <2>1. ASSUME NEW r \in Pairs, NEW s \in Pairs, g[r] = g[s]
          PROVE  r = s
      <3>1. r[1] \in F /\ s[1] \in F /\ r[2] = s[2] /\ r[2] \in rows[r[1]] /\ r[2] \in rows[s[1]]
        BY <2>1
      <3>2. r[1] = s[1]
        BY <3>1 DEF FilesAreApart
      <3>. QED
        BY <3>1, <3>2
    <2>2. g \in [Pairs -> RowsOf(F)]
      BY <1>2 DEF Surjection
    <2>. QED
      BY <2>1, <2>2, Zenon DEF Injection, IsInjective
  <1>4. IsFiniteSet(RowsOf(F)) /\ Cardinality(RowsOf(F)) = Cardinality(Pairs)
    BY <1>1, <1>2, <1>3, FS_Surjection
  <1>. QED
    BY <1>4 DEF RowCount

\* A window that holds a full page holds an entry of its edge or above it.
LEMMA EdgeIsBelow ==
  ASSUME IsFiniteSet(Entry), TypeOK, NEW p \in Pod, NEW t \in Nat, IsEdge(t, MoveWindow(p))
  PROVE  t < top[p]
  <1>1. {e \in MoveWindow(p) : born[e] >= t} # {}
    BY FS_EmptySet, TieredAssumption DEF IsEdge
  <1>2. PICK e \in hot : born[e] < top[p] /\ born[e] >= t
    BY <1>1 DEF MoveWindow
  <1>. QED
    BY <1>2 DEF TypeOK

\* With the move on, the hot prune deletes all that is below the cutoff.
LEMMA MovedIsPruned ==
  ASSUME IsFiniteSet(Entry), TypeOK, Moves, NEW p \in Pod, NEW gone \in SUBSET hot, HotVictims(p, gone)
  PROVE  gone = {e \in hot : born[e] < HotCutoff(p)}
  <1>1. HotDoomed(p) = {e \in hot : born[e] < HotCutoff(p)}
    BY DEF HotDoomed
  <1>2. IsFiniteSet(HotDoomed(p)) /\ IsFiniteSet(HotDoomed(p) \ gone)
    BY <1>1, FS_Subset DEF TypeOK
  <1>3. Cardinality(HotDoomed(p)) \in Nat
    BY <1>2, FS_CardinalityType
  <1>4. Cardinality(HotDoomed(p) \ gone) = 0
    BY <1>3 DEF HotVictims, NewestOf
  <1>5. HotDoomed(p) \ gone = {}
    BY <1>2, <1>4, FS_EmptySet
  <1>. QED
    BY <1>1, <1>5 DEF HotVictims

LEMMA OneCopyInit == Init => \A p \in Pod : OneCopy(p)
BY DEF Init, OneCopy, FilesAreApart, Merged, RowsOf

\* No step makes a second copy but a move's and a compaction's.
LEMMA OneCopyStep ==
  ASSUME IsFiniteSet(Entry), NEW p, Pod = {p}, TypeOK, Bookkeeping, OneCopy(p), [SmoothNext]_vars
  PROVE  OneCopy(p)'
  <1>. USE TieredAssumption DEF clockVars, storeVars, moveVars, coldVars, Goto
  <1>1. CASE Tick
    BY <1>1 DEF Tick, OneCopy, FilesAreApart, Merged, RowsOf, HotCutoff, Moves
  <1>2. ASSUME NEW e \in Entry, Record(p, e)
        PROVE  OneCopy(p)'
    <2>1. UNCHANGED <<hot, rows, pc, started, top, buffer, written, listing, batch, unread, merged>>
      BY <1>2 DEF Record
    <2>2. \A d \in buffer[p] \cup RowsOf(written[p]) : born'[d] = born[d]
      BY <1>2 DEF Record, Bookkeeping, NothingInvented, Visible, RowsOf, TypeOK
    <2>. QED
      BY <2>1, <2>2 DEF OneCopy, FilesAreApart, Merged, RowsOf, HotCutoff, Moves
  <1>3. CASE Insert(p)
    <2>1. PICK took \in SUBSET pending[p] : hot' = hot \cup took
      BY <1>3 DEF Insert
    <2>2. took \cap RowsOf(File) = {}
      BY <2>1 DEF Bookkeeping, NothingInvented, Visible
    <2>3. \A f \in File : rows[f] \cap took = {}
      BY <2>2 DEF RowsOf
    <2>4. UNCHANGED <<born, rows, pc, started, top, buffer, written, listing, batch, unread, merged>>
      BY <1>3 DEF Insert
    <2>. QED
      BY <2>1, <2>3, <2>4 DEF OneCopy, FilesAreApart, Merged, RowsOf, HotCutoff, Moves
  <1>4. CASE StartCycle(p)
    BY <1>4 DEF StartCycle, OneCopy, FilesAreApart, Merged, RowsOf, HotCutoff, Moves, TypeOK, Bookkeeping, MovingPc
  <1>5. CASE ListFullPage(p)
    <2>1. PICK t \in 0 .. now : /\ IsEdge(t, MoveWindow(p)) /\ top' = [top EXCEPT ![p] = t + 1]
                                /\ buffer' = [buffer EXCEPT ![p] = @ \cup {e \in MoveWindow(p) : born[e] > t}]
      BY <1>5 DEF ListFullPage
    <2>2. t \in Nat /\ t < top[p]
      BY <2>1, EdgeIsBelow DEF TypeOK
    <2>3. UNCHANGED <<born, hot, rows, started, written, batch, unread, merged>> /\ pc[p] = "page" /\ pc'[p] = "edge"
      BY <1>5 DEF ListFullPage, TypeOK
    <2>4. buffer'[p] = buffer[p] \cup {e \in MoveWindow(p) : born[e] > t} /\ top'[p] = t + 1
      BY <2>1 DEF TypeOK
    <2>5. ASSUME NEW e \in MoveWindow(p), born[e] > t
          PROVE  e \in hot /\ born[e] < top[p] /\ e \notin RowsOf(File) /\ born[e] < HotCutoff(p)
      BY <2>3, <2>5 DEF MoveWindow, OneCopy, RowsOf, TypeOK, HotCutoff
    <2>. QED
      BY <2>2, <2>3, <2>4, <2>5 DEF OneCopy, FilesAreApart, Merged, RowsOf, HotCutoff, Moves, TypeOK
  <1>6. CASE ListEdge(p)
    <2>1. UNCHANGED <<born, hot, rows, started, written, batch, unread, merged>> /\ pc[p] = "edge"
          /\ pc'[p] \in {"page", "flush"}
      BY <1>6 DEF ListEdge, TypeOK
    <2>2. buffer'[p] = buffer[p] \cup {e \in hot : born[e] = top[p] - 1} /\ top'[p] = top[p] - 1
      BY <1>6 DEF ListEdge, TypeOK
    <2>3. ASSUME NEW e \in hot, born[e] = top[p] - 1
          PROVE  e \notin RowsOf(File) /\ born[e] < HotCutoff(p)
      BY <2>1, <2>3 DEF OneCopy, RowsOf, TypeOK, HotCutoff
    <2>. QED
      BY <2>1, <2>2, <2>3 DEF OneCopy, FilesAreApart, Merged, RowsOf, HotCutoff, Moves, TypeOK
  <1>7. CASE ListLastPage(p)
    <2>1. UNCHANGED <<born, hot, rows, started, written, batch, unread, merged>> /\ pc[p] = "page"
          /\ pc'[p] = "lastFlush" /\ buffer'[p] = buffer[p] \cup MoveWindow(p)
      BY <1>7 DEF ListLastPage, TypeOK
    <2>2. ASSUME NEW e \in MoveWindow(p)
          PROVE  e \in hot /\ e \notin RowsOf(File) /\ born[e] < HotCutoff(p)
      BY <2>1 DEF MoveWindow, OneCopy, RowsOf, TypeOK, HotCutoff
    <2>. QED
      BY <2>1, <2>2 DEF OneCopy, FilesAreApart, Merged, RowsOf, HotCutoff, Moves, TypeOK
  <1>8. CASE WriteFile(p)
    <2>1. PICK f \in Fresh, S \in SUBSET buffer[p] :
            /\ rows' = [rows EXCEPT ![f] = S] /\ written' = [written EXCEPT ![p] = @ \cup {f}]
            /\ buffer' = [buffer EXCEPT ![p] = @ \ S]
      BY <1>8 DEF WriteFile
    <2>2. f \in File /\ rows[f] = {} /\ f \notin written[p]
      BY <2>1 DEF Fresh
    <2>3. UNCHANGED <<born, hot, pc, started, top, batch, unread, merged>> /\ pc[p] \in {"flush", "lastFlush"}
      BY <1>8 DEF WriteFile
    <2>4. written'[p] = written[p] \cup {f} /\ buffer'[p] = buffer[p] \ S
          /\ rows'[f] = S /\ \A g \in File : g # f => rows'[g] = rows[g]
      BY <2>1, <2>2 DEF TypeOK
    <2>5. \A g \in File : rows[g] \cap S = {}
      BY <2>1 DEF OneCopy, RowsOf
    <2>6. RowsOf(File)' = RowsOf(File) \cup S /\ RowsOf(written[p])' = RowsOf(written[p]) \cup S
      BY <2>2, <2>4 DEF RowsOf, TypeOK
    <2>7. FilesAreApart(File)'
      BY <2>3, <2>4, <2>5 DEF OneCopy, FilesAreApart, Merged
    <2>8. \A g \in File \ written'[p] : rows'[g] \cap hot = {}
      BY <2>4 DEF OneCopy
    <2>9. buffer'[p] \cup RowsOf(written[p])' \subseteq buffer[p] \cup RowsOf(written[p])
          /\ buffer'[p] \cap RowsOf(File)' = {} /\ buffer'[p] \subseteq hot /\ Moves
          /\ HotCutoff(p)' = HotCutoff(p)
      BY <2>3, <2>4, <2>6 DEF OneCopy, HotCutoff
    <2>10. Merged(p)' = {}
      BY <2>3 DEF Merged
    <2>. QED
      BY <2>3, <2>7, <2>8, <2>9, <2>10 DEF OneCopy, Moves
  <1>9. CASE Flushed(p)
    BY <1>9 DEF Flushed, OneCopy, FilesAreApart, Merged, RowsOf, HotCutoff, Moves, TypeOK
  <1>10. CASE UndoMove(p)
    BY <1>10 DEF UndoMove, OneCopy
  <1>11. CASE HotPrune(p)
    <2>1. PICK gone \in SUBSET hot : HotVictims(p, gone) /\ hot' = hot \ gone
      BY <1>11 DEF HotPrune
    <2>2. UNCHANGED <<born, rows, started, top, buffer, batch, unread, merged>> /\ pc[p] = "hotPrune"
          /\ pc'[p] = "expireList" /\ written'[p] = {} /\ buffer[p] = {}
      BY <1>11 DEF HotPrune, TypeOK, Bookkeeping
    <2>3. \A f \in File : rows[f] \cap hot' = {}
      <3>1. CASE Moves
        <4>1. gone = {e \in hot : born[e] < HotCutoff(p)}
          BY <2>1, <3>1, MovedIsPruned
        <4>. QED
          BY <2>1, <4>1 DEF OneCopy, RowsOf
      <3>2. CASE ~ Moves
        BY <2>1, <3>2 DEF OneCopy
      <3>. QED
        BY <3>1, <3>2
    <2>. QED
      BY <2>2, <2>3 DEF OneCopy, FilesAreApart, Merged, RowsOf, HotCutoff, Moves
  <1>12. CASE ExpireList(p) \/ CompactList(p) \/ CompactDone(p)
    BY <1>12 DEF ExpireList, CompactList, CompactDone, OneCopy, FilesAreApart, Merged, RowsOf, HotCutoff, Moves, TypeOK
  <1>13. CASE DeleteFile(p)
    <2>1. PICK f \in batch[p] : rows' = [rows EXCEPT ![f] = {}] /\ batch' = [batch EXCEPT ![p] = @ \ {f}]
      BY <1>13 DEF DeleteFile
    <2>2. UNCHANGED <<born, hot, pc, started, top, buffer, written, unread, merged>> /\ pc[p] \in {"expire", "compactDrop"}
      BY <1>13 DEF DeleteFile
    <2>3. rows'[f] = {} /\ (\A g \in File : rows'[g] \subseteq rows[g]) /\ batch'[p] = batch[p] \ {f} /\ f \in File
      BY <2>1 DEF TypeOK
    <2>4. FilesAreApart(File \ Merged(p))'
      BY <2>2, <2>3 DEF OneCopy, FilesAreApart, Merged
    <2>5. RowsOf(File)' \subseteq RowsOf(File) /\ RowsOf(written[p])' \subseteq RowsOf(written[p])
      BY <2>2, <2>3 DEF RowsOf, TypeOK
    <2>. QED
      BY <2>2, <2>3, <2>4, <2>5 DEF OneCopy, HotCutoff, Moves, TypeOK
  <1>14. CASE Deleted(p)
    BY <1>14 DEF Deleted, OneCopy, FilesAreApart, Merged, RowsOf, HotCutoff, Moves, TypeOK
  <1>15. CASE CompactPick(p)
    BY <1>15 DEF CompactPick, OneCopy, FilesAreApart, Merged, RowsOf, HotCutoff, Moves, TypeOK
  <1>16. CASE CompactRead(p)
    BY <1>16 DEF CompactRead, OneCopy, FilesAreApart, Merged, RowsOf, HotCutoff, Moves, TypeOK
  <1>17. CASE CompactWrite(p)
    <2>1. UNCHANGED <<born, hot, started, top, buffer, written, batch, unread>> /\ pc[p] = "compactRead"
          /\ pc'[p] = "compactDrop" /\ written[p] = {} /\ buffer[p] = {}
      BY <1>17 DEF CompactWrite, TypeOK, Bookkeeping, MovingPc
    <2>2. CASE rows' = rows
      BY <2>1, <2>2 DEF OneCopy, FilesAreApart, Merged, RowsOf, HotCutoff, Moves
    <2>3. ASSUME NEW f \in Fresh, rows' = [rows EXCEPT ![f] = merged[p]]
          PROVE  OneCopy(p)'
      <3>1. f \in File /\ rows[f] = {} /\ f \notin batch[p]
        BY <2>3 DEF Fresh
      <3>2. rows'[f] = merged[p] /\ \A g \in File : g # f => rows'[g] = rows[g]
        BY <2>3, <3>1 DEF TypeOK
      <3>3. \A g \in File \ batch[p] : rows[g] \cap merged[p] = {}
        BY <2>1 DEF OneCopy, FilesAreApart, Merged, RowsOf, TypeOK
      <3>4. FilesAreApart(File \ batch[p])'
        BY <2>1, <3>1, <3>2, <3>3 DEF OneCopy, FilesAreApart, Merged
      <3>5. merged[p] \cap hot = {}
        BY <2>1 DEF OneCopy, RowsOf, TypeOK
      <3>6. \A g \in File : rows'[g] \cap hot = {}
        BY <2>1, <3>2, <3>5 DEF OneCopy
      <3>. QED
        BY <2>1, <3>4, <3>6 DEF OneCopy, Merged, RowsOf, HotCutoff, Moves
    <2>. QED
      BY <1>17, <2>2, <2>3 DEF CompactWrite
  <1>18. CASE UNCHANGED vars
    BY <1>18 DEF vars, OneCopy, FilesAreApart, Merged, RowsOf, HotCutoff, Moves
  <1>. QED
    BY <1>1, <1>2, <1>3, <1>4, <1>5, <1>6, <1>7, <1>8, <1>9, <1>10, <1>11, <1>12, <1>13, <1>14,
       <1>15, <1>16, <1>17, <1>18 DEF SmoothNext, CycleStep

\* The retained count, seen from a step that deletes nothing: more is stored, more is past
\* retention, and whatever is new to either is visible or was gone already.
LEMMA CountGrows ==
  ASSUME IsFiniteSet(Entry), TypeOK, TypeOK', KeepsLastCount, stored \ Visible \subseteq PastRetention,
         PastRetention \subseteq PastRetention', Visible \subseteq Visible',
         stored' \ Visible' \subseteq stored \ Visible
  PROVE  KeepsLastCount' /\ stored' \ Visible' \subseteq PastRetention'
  <1>. DEFINE P == PastRetention  V == Visible  Q == PastRetention'  W == Visible'
  <1>1. Q \subseteq stored' /\ stored' \subseteq Entry
    BY DEF PastRetention, TypeOK
  <1>2. CASE P \subseteq V
    <2>1. stored \ V = {}
      BY <1>2
    <2>2. Q \subseteq W
      BY <1>1, <2>1
    <2>. QED
      BY <2>2 DEF KeepsLastCount
  <1>3. CASE Cardinality(P \cap V) >= KeepLast
    <2>1. IsFiniteSet(Q \cap W) /\ P \cap V \subseteq Q \cap W
      BY <1>1, FS_Subset
    <2>2. IsFiniteSet(P \cap V) /\ Cardinality(P \cap V) <= Cardinality(Q \cap W)
      BY <2>1, FS_Subset
    <2>3. Cardinality(P \cap V) \in Int /\ Cardinality(Q \cap W) \in Int
      BY <2>1, <2>2, FS_CardinalityType
    <2>4. Cardinality(Q \cap W) >= KeepLast
      BY <1>3, <2>2, <2>3, TieredAssumption
    <2>. QED
      BY <2>4 DEF KeepsLastCount
  <1>. QED
    BY <1>2, <1>3 DEF KeepsLastCount

\* What is past retention stays so.
LEMMA PastStays ==
  ASSUME TypeOK, TypeOK', stored \subseteq stored', now <= now', \A e \in stored : born'[e] = born[e]
  PROVE  PastRetention \subseteq PastRetention'
  <1>1. \A e \in stored : HourEnd(born[e]) \in Int
    BY HourEndAfter DEF TypeOK
  <1>2. now \in Nat /\ now' \in Nat
    BY DEF TypeOK
  <1>3. \A e \in stored : (HourEnd(born[e]))' = HourEnd(born[e])
    BY DEF HourEnd, Hour
  <1>4. ASSUME NEW e \in PastRetention
        PROVE  e \in PastRetention'
    BY <1>1, <1>2, <1>3, TieredAssumption DEF PastRetention
  <1>. QED
    BY <1>4

LEMMA SparedInit ==
  ASSUME KeepLast >= 0
  PROVE  Init => \A p \in Pod : CountIsSpared(p)
BY DEF Init, CountIsSpared, Moving, KeepsLastCount, PastRetention, Visible, RowsOf

\* A step that changes neither tier but for entries new to the hot store.
LEMMA QuietSpares ==
  ASSUME IsFiniteSet(Entry), TypeOK, TypeOK', NEW p \in Pod, CountIsSpared(p),
         \A e \in stored : born'[e] = born[e], now <= now',
         UNCHANGED <<rows, batch>>, hot \subseteq hot', stored \subseteq stored', stored' \ stored \subseteq Visible',
         NothingInvented,
         pc[p] = "expire" \/ pc'[p] # "expire", pc[p] = "compactDrop" \/ pc'[p] # "compactDrop",
         Moving(p)' => HotMoved(p)'
  PROVE  CountIsSpared(p)'
  <1>1. PastRetention \subseteq PastRetention'
    BY PastStays
  <1>2. RowsOf(File)' = RowsOf(File) /\ RowsOf(batch[p])' = RowsOf(batch[p])
        /\ RowsOf(File \ batch[p])' = RowsOf(File \ batch[p])
    BY DEF RowsOf
  <1>3. Visible \subseteq Visible' /\ stored' \ Visible' \subseteq stored \ Visible
    BY <1>2 DEF Visible
  <1>4. KeepsLastCount' /\ stored' \ Visible' \subseteq PastRetention'
    BY <1>1, <1>3, CountGrows DEF CountIsSpared
  <1>5. ASSUME Cardinality(PastRetention \cap RowsOf(File \ batch[p])) >= KeepLast
        PROVE  Cardinality(PastRetention' \cap RowsOf(File \ batch[p])') >= KeepLast
    <2>. DEFINE S == PastRetention \cap RowsOf(File \ batch[p])
                T == PastRetention' \cap RowsOf(File \ batch[p])'
    <2>1. IsFiniteSet(T) /\ S \subseteq T
      BY <1>1, <1>2, FS_Subset DEF PastRetention, TypeOK
    <2>2. IsFiniteSet(S) /\ Cardinality(S) <= Cardinality(T)
      BY <2>1, FS_Subset
    <2>3. Cardinality(S) \in Int /\ Cardinality(T) \in Int
      BY <2>1, <2>2, FS_CardinalityType
    <2>. QED
      BY <1>5, <2>2, <2>3, TieredAssumption
  <1>6. pc'[p] = "expire" => /\ RowsOf(batch[p])' \subseteq PastRetention'
                             /\ \/ batch'[p] = {}
                                \/ Cardinality(PastRetention' \cap RowsOf(File \ batch[p])') >= KeepLast
    BY <1>1, <1>2, <1>5 DEF CountIsSpared
  <1>7. pc'[p] = "compactDrop" => RowsOf(batch[p])' \subseteq RowsOf(File \ batch[p])'
    BY <1>2 DEF CountIsSpared
  <1>. QED
    BY <1>4, <1>6, <1>7 DEF CountIsSpared

\* A move leaves nothing behind, an expiry stops at the files that hold the count, and a merged
\* file holds all it replaces: what a cycle deletes, it may.
LEMMA SparedStep ==
  ASSUME IsFiniteSet(Entry), IsFiniteSet(File), NEW p, Pod = {p}, Moves, MaxLag <= HotFor, KeepLast >= 0,
         TypeOK, TypeOK', Bookkeeping, MergeCovers(p), OneCopy(p), CountIsSpared(p), [SmoothNext]_vars
  PROVE  CountIsSpared(p)'
  <1>. USE TieredAssumption DEF clockVars, storeVars, moveVars, coldVars, Goto
  <1>. NothingInvented
    BY DEF Bookkeeping
  <1>. now \in Int
    BY DEF TypeOK
  <1>0. MoveAfter(p) = 0
    BY DEF MoveAfter
  <1>1. CASE Tick
    <2>1. UNCHANGED <<born, hot, rows, stored, pc, started, top, buffer, written, batch>> /\ now <= now'
      BY <1>1 DEF Tick, TypeOK
    <2>2. Moving(p)' => HotMoved(p)'
      BY <2>1 DEF CountIsSpared, Moving, HotMoved, HotCutoff, RowsOf
    <2>. QED
      BY <2>1, <2>2, QuietSpares
  <1>2. ASSUME NEW e \in Entry, Record(p, e)
        PROVE  CountIsSpared(p)'
    <2>1. \A d \in stored : born'[d] = born[d]
      BY <1>2 DEF Record, Bookkeeping, TypeOK
    <2>2. hot \subseteq stored
      BY DEF NothingInvented, Visible
    <2>3. UNCHANGED <<now, hot, rows, stored, pc, started, top, buffer, written, batch>>
      BY <1>2 DEF Record
    <2>4. Moving(p)' => HotMoved(p)'
      BY <2>1, <2>2, <2>3 DEF CountIsSpared, Moving, HotMoved, HotCutoff, RowsOf
    <2>5. now <= now'
      BY <2>3 DEF TypeOK
    <2>. QED
      BY <2>1, <2>3, <2>4, <2>5, QuietSpares
  <1>3. CASE Insert(p)
    <2>1. PICK took \in SUBSET pending[p] : hot' = hot \cup took /\ stored' = stored \cup took
      BY <1>3 DEF Insert
    <2>2. \A e \in took : now - born[e] <= MaxLag /\ born[e] \in Nat
      BY <2>1 DEF Bookkeeping, TypeOK
    <2>3. started[p] <= now /\ started[p] \in Nat /\ now \in Nat
      BY DEF Bookkeeping, TypeOK
    <2>4. \A e \in took : ~ (born[e] < HotCutoff(p))
      BY <2>2, <2>3 DEF HotCutoff
    <2>5. UNCHANGED <<now, born, rows, pc, started, top, buffer, written, batch>>
      BY <1>3 DEF Insert
    <2>6. Moving(p)' => HotMoved(p)'
      BY <2>1, <2>4, <2>5 DEF CountIsSpared, Moving, HotMoved, HotCutoff, RowsOf
    <2>7. stored' \ stored \subseteq Visible'
      BY <2>1 DEF Visible
    <2>8. now <= now' /\ stored \subseteq stored' /\ hot \subseteq hot' /\ \A e \in stored : born'[e] = born[e]
      BY <2>1, <2>3, <2>5
    <2>. QED
      BY <2>5, <2>6, <2>7, <2>8, QuietSpares
  <1>4. CASE StartCycle(p)
    <2>1. pc'[p] \in {"page", "hotPrune"} /\ top'[p] = HotCutoff(p)' /\ HotCutoff(p)' \in Int
      BY <1>4 DEF StartCycle, HotCutoff, TypeOK
    <2>2. UNCHANGED <<now, born, rows, hot, stored, batch>>
      BY <1>4 DEF StartCycle
    <2>3. \A e \in hot' : born'[e] \in Nat
      BY DEF TypeOK
    <2>4. HotMoved(p)'
      BY <2>1, <2>3 DEF HotMoved
    <2>. QED
      BY <2>1, <2>2, <2>4, QuietSpares
  <1>5. CASE ListFullPage(p)
    <2>1. PICK t \in 0 .. now : /\ top' = [top EXCEPT ![p] = t + 1]
                                /\ buffer' = [buffer EXCEPT ![p] = @ \cup {e \in MoveWindow(p) : born[e] > t}]
      BY <1>5 DEF ListFullPage
    <2>2. UNCHANGED <<now, born, hot, rows, stored, started, written, batch>> /\ pc[p] = "page" /\ pc'[p] = "edge"
      BY <1>5 DEF ListFullPage, TypeOK
    <2>3. buffer'[p] = buffer[p] \cup {e \in MoveWindow(p) : born[e] > t} /\ top'[p] = t + 1 /\ t \in Nat
      BY <2>1 DEF TypeOK
    <2>4. ASSUME NEW e \in hot, top'[p] <= born[e], born[e] < HotCutoff(p)
          PROVE  e \in buffer'[p] \cup RowsOf(written[p])
      BY <1>0, <2>2, <2>3, <2>4 DEF MoveWindow, CountIsSpared, Moving, HotMoved, TypeOK
    <2>5. HotMoved(p)'
      BY <2>2, <2>4 DEF HotMoved, HotCutoff, RowsOf
    <2>. QED
      BY <2>2, <2>5, QuietSpares
  <1>6. CASE ListEdge(p)
    <2>1. UNCHANGED <<now, born, hot, rows, stored, started, written, batch>> /\ pc[p] = "edge"
          /\ pc'[p] \in {"page", "flush"}
      BY <1>6 DEF ListEdge, TypeOK
    <2>2. buffer'[p] = buffer[p] \cup {e \in hot : born[e] = top[p] - 1} /\ top'[p] = top[p] - 1
      BY <1>6 DEF ListEdge, TypeOK
    <2>3. ASSUME NEW e \in hot, top'[p] <= born[e], born[e] < HotCutoff(p)
          PROVE  e \in buffer'[p] \cup RowsOf(written[p])
      <3>1. born[e] \in Nat /\ top[p] \in Int
        BY DEF TypeOK
      <3>2. born[e] = top[p] - 1 \/ top[p] <= born[e]
        BY <2>2, <2>3, <3>1
      <3>. QED
        BY <2>1, <2>2, <2>3, <3>2 DEF CountIsSpared, Moving, HotMoved
    <2>4. HotMoved(p)'
      BY <2>1, <2>3 DEF HotMoved, HotCutoff, RowsOf
    <2>. QED
      BY <2>1, <2>4, QuietSpares
  <1>7. CASE ListLastPage(p)
    <2>1. UNCHANGED <<now, born, hot, rows, stored, started, written, batch>> /\ pc[p] = "page"
          /\ pc'[p] = "lastFlush" /\ buffer'[p] = buffer[p] \cup MoveWindow(p)
      BY <1>7 DEF ListLastPage, TypeOK
    <2>2. ASSUME NEW e \in hot, born[e] < HotCutoff(p)
          PROVE  e \in buffer'[p] \cup RowsOf(written[p])
      BY <1>0, <2>1, <2>2 DEF MoveWindow, CountIsSpared, Moving, HotMoved, TypeOK
    <2>3. HotMoved(p)'
      BY <2>1, <2>2 DEF HotMoved, HotCutoff, RowsOf
    <2>. QED
      BY <2>1, <2>3, QuietSpares
  <1>8. CASE WriteFile(p)
    <2>1. PICK f \in Fresh, S \in SUBSET buffer[p] :
            /\ rows' = [rows EXCEPT ![f] = S] /\ written' = [written EXCEPT ![p] = @ \cup {f}]
            /\ buffer' = [buffer EXCEPT ![p] = @ \ S]
      BY <1>8 DEF WriteFile
    <2>2. f \in File /\ rows[f] = {}
      BY <2>1 DEF Fresh
    <2>3. UNCHANGED <<now, born, hot, stored, pc, started, top>> /\ pc[p] \in {"flush", "lastFlush"}
      BY <1>8 DEF WriteFile
    <2>4. written'[p] = written[p] \cup {f} /\ buffer'[p] = buffer[p] \ S
          /\ rows'[f] = S /\ \A g \in File : g # f => rows'[g] = rows[g]
      BY <2>1, <2>2 DEF TypeOK
    <2>5. RowsOf(File) \subseteq RowsOf(File)' /\ RowsOf(written[p])' = RowsOf(written[p]) \cup S
      BY <2>2, <2>4 DEF RowsOf, TypeOK
    <2>6. Visible' = Visible
      BY <2>1, <2>2, <2>3, <2>4 DEF Visible, RowsOf, OneCopy
    <2>7. PastRetention' = PastRetention
      BY <2>3 DEF PastRetention, HourEnd, Hour
    <2>8. \A e \in hot : top[p] <= born[e] /\ born[e] < HotCutoff(p) => e \in buffer'[p] \cup RowsOf(written[p])'
      BY <2>3, <2>4, <2>5 DEF CountIsSpared, Moving, HotMoved
    <2>. QED
      BY <2>3, <2>6, <2>7, <2>8 DEF CountIsSpared, KeepsLastCount, HotCutoff, HotMoved
  <1>9. CASE Flushed(p)
    <2>1. UNCHANGED <<now, born, hot, rows, stored, started, top, buffer, written, batch>>
          /\ pc[p] \in {"flush", "lastFlush"} /\ pc'[p] \in {"page", "hotPrune"}
      BY <1>9 DEF Flushed, TypeOK
    <2>2. HotMoved(p)'
      BY <2>1 DEF CountIsSpared, Moving, HotMoved, HotCutoff, RowsOf
    <2>. QED
      BY <2>1, <2>2, QuietSpares
  <1>10. CASE UndoMove(p)
    BY <1>10 DEF UndoMove, OneCopy
  <1>11. CASE HotPrune(p)
    <2>1. PICK gone \in SUBSET hot : HotVictims(p, gone) /\ hot' = hot \ gone
      BY <1>11 DEF HotPrune
    <2>2. UNCHANGED <<now, born, rows, stored>> /\ pc[p] = "hotPrune" /\ pc'[p] = "expireList"
      BY <1>11 DEF HotPrune, TypeOK
    <2>3. top[p] = 0 /\ buffer[p] = {} /\ \A e \in hot : born[e] \in Nat
      BY <1>0, <2>2 DEF Bookkeeping, TypeOK
    <2>4. \A e \in gone : e \in RowsOf(written[p])
      BY <2>1, <2>2, <2>3, MovedIsPruned DEF CountIsSpared, Moving, HotMoved
    <2>5. Visible' = Visible
      BY <2>1, <2>2, <2>4 DEF Visible, RowsOf, TypeOK
    <2>6. PastRetention' = PastRetention
      BY <2>2 DEF PastRetention, HourEnd, Hour
    <2>. QED
      BY <2>2, <2>5, <2>6 DEF CountIsSpared, KeepsLastCount, Moving
  <1>12. CASE CompactList(p) \/ CompactDone(p)
    <2>1. UNCHANGED <<now, born, hot, rows, stored, batch>> /\ pc'[p] \in {"compact", "idle"}
      BY <1>12 DEF CompactList, CompactDone, TypeOK
    <2>2. ~ Moving(p)'
      BY <2>1 DEF Moving
    <2>. QED
      BY <2>1, <2>2, QuietSpares
  <1>13. CASE ExpireList(p)
    <2>1. PICK keep \in SUBSET ColdDoomed(p) :
            KeptFiles(keep, ColdDoomed(p)) /\ batch' = [batch EXCEPT ![p] = ColdDoomed(p) \ keep]
      BY <1>13 DEF ExpireList
    <2>2. UNCHANGED <<now, born, hot, rows, stored>> /\ pc[p] = "expireList" /\ pc'[p] = "expire"
          /\ batch'[p] = ColdDoomed(p) \ keep
      BY <1>13, <2>1 DEF ExpireList, TypeOK
    <2>3. ColdDoomed(p) \subseteq File /\ RowsOf(ColdDoomed(p)) \subseteq PastRetention
      <3>1. RowsOf(File) \subseteq stored
        BY DEF NothingInvented, Visible
      <3>2. ASSUME NEW f \in ColdDoomed(p), NEW e \in rows[f]
            PROVE  e \in PastRetention
        <4>1. f \in File /\ e \in stored /\ HourEnd(born[e]) <= OlderThan(p)
          BY <3>1 DEF ColdDoomed, Live, ClosedBy, RowsOf
        <4>2. HourEnd(born[e]) \in Int
          BY <4>1, HourEndAfter DEF TypeOK
        <4>3. started[p] <= now /\ started[p] \in Nat /\ now \in Nat
          BY DEF Bookkeeping, TypeOK
        <4>4. HourEnd(born[e]) <= now - Retention
          BY <4>1, <4>2, <4>3 DEF OlderThan
        <4>. QED
          BY <4>1, <4>4 DEF PastRetention
      <3>. QED
        BY <3>2 DEF RowsOf, ColdDoomed, Live
    <2>4. CASE keep = ColdDoomed(p)
      <3>1. batch'[p] = {}
        BY <2>2, <2>4
      <3>. QED
        BY <2>2, <3>1 DEF CountIsSpared, KeepsLastCount, PastRetention, HourEnd, Hour, Visible, RowsOf, Moving
    <2>5. CASE RowCount(keep) >= KeepLast
      <3>1. FilesAreApart(keep)
        BY <2>2, <2>3 DEF OneCopy, Merged, FilesAreApart
      <3>2. IsFiniteSet(RowsOf(keep)) /\ Cardinality(RowsOf(keep)) >= KeepLast
        BY <2>3, <2>5, <3>1, ApartCount
      <3>. DEFINE T == PastRetention \cap RowsOf(File \ batch'[p])
      <3>3. RowsOf(keep) \subseteq T
        BY <2>2, <2>3 DEF RowsOf
      <3>4. IsFiniteSet(T)
        BY FS_Subset DEF PastRetention, TypeOK
      <3>5. Cardinality(RowsOf(keep)) <= Cardinality(T)
        BY <3>3, <3>4, FS_Subset
      <3>6. Cardinality(RowsOf(keep)) \in Int /\ Cardinality(T) \in Int
        BY <3>2, <3>4, FS_CardinalityType
      <3>7. Cardinality(T) >= KeepLast
        BY <3>2, <3>5, <3>6
      <3>8. RowsOf(batch'[p]) \subseteq PastRetention
        BY <2>2, <2>3 DEF RowsOf
      <3>9. PastRetention' = PastRetention /\ Visible' = Visible /\ RowsOf(batch[p])' = RowsOf(batch'[p])
            /\ RowsOf(File \ batch[p])' = RowsOf(File \ batch'[p])
        BY <2>2 DEF PastRetention, HourEnd, Hour, Visible, RowsOf
      <3>. QED
          BY <2>2, <3>7, <3>8, <3>9 DEF CountIsSpared, KeepsLastCount, Moving
    <2>. QED
      BY <2>1, <2>4, <2>5 DEF KeptFiles
  <1>14. CASE DeleteFile(p)
    <2>1. PICK f \in batch[p] : rows' = [rows EXCEPT ![f] = {}] /\ batch' = [batch EXCEPT ![p] = @ \ {f}]
      BY <1>14 DEF DeleteFile
    <2>2. UNCHANGED <<now, born, hot, stored, pc>> /\ pc[p] \in {"expire", "compactDrop"}
      BY <1>14 DEF DeleteFile
    <2>3. rows'[f] = {} /\ (\A g \in File : g # f => rows'[g] = rows[g]) /\ batch'[p] = batch[p] \ {f} /\ f \in File
      BY <2>1 DEF TypeOK
    <2>4. RowsOf(File \ batch[p])' = RowsOf(File \ batch[p]) /\ RowsOf(batch[p])' \subseteq RowsOf(batch[p])
      BY <2>3 DEF RowsOf, TypeOK
    <2>5. Visible' \subseteq Visible /\ Visible \ rows[f] \subseteq Visible'
          /\ RowsOf(File \ batch[p]) \subseteq Visible' /\ rows[f] \subseteq RowsOf(batch[p])
      BY <2>2, <2>3 DEF Visible, RowsOf, TypeOK
    <2>6. PastRetention' = PastRetention
      BY <2>2 DEF PastRetention, HourEnd, Hour
    <2>7. CASE pc[p] = "expire"
      <3>. DEFINE S == PastRetention \cap RowsOf(File \ batch[p])
                  T == PastRetention \cap Visible'
      <3>1. Cardinality(S) >= KeepLast
        BY <2>1, <2>7 DEF CountIsSpared
      <3>2. IsFiniteSet(T) /\ S \subseteq T
        <4>1. S \subseteq T /\ T \subseteq Entry
          BY <2>5 DEF PastRetention, TypeOK
        <4>. QED
          BY <4>1, FS_Subset
      <3>3. IsFiniteSet(S) /\ Cardinality(S) <= Cardinality(T)
        BY <3>2, FS_Subset
      <3>4. Cardinality(S) \in Int /\ Cardinality(T) \in Int
        BY <3>2, <3>3, FS_CardinalityType
      <3>5. Cardinality(T) >= KeepLast
        BY <3>1, <3>3, <3>4
      <3>6. stored' \ Visible' \subseteq PastRetention'
        BY <2>2, <2>5, <2>6, <2>7 DEF CountIsSpared
      <3>. QED
        BY <2>2, <2>4, <2>6, <2>7, <3>1, <3>5, <3>6 DEF CountIsSpared, KeepsLastCount, Moving
    <2>8. CASE pc[p] = "compactDrop"
      <3>1. Visible' = Visible
        BY <2>5, <2>8 DEF CountIsSpared
      <3>. QED
        BY <2>2, <2>4, <2>6, <2>8, <3>1 DEF CountIsSpared, KeepsLastCount, Moving
    <2>. QED
      BY <2>2, <2>7, <2>8
  <1>15. CASE Deleted(p)
    <2>1. UNCHANGED <<now, born, hot, rows, stored, batch>> /\ pc'[p] \in {"compact", "compactList", "idle"}
      BY <1>15 DEF Deleted, TypeOK
    <2>2. ~ Moving(p)'
      BY <2>1 DEF Moving
    <2>. QED
      BY <2>1, <2>2, QuietSpares
  <1>16. CASE CompactPick(p) \/ CompactRead(p)
    <2>1. UNCHANGED <<now, born, hot, rows, stored>> /\ pc'[p] = "compactRead"
      BY <1>16 DEF CompactPick, CompactRead, TypeOK
    <2>2. PastRetention' = PastRetention /\ Visible' = Visible
      BY <2>1 DEF PastRetention, HourEnd, Hour, Visible, RowsOf
    <2>. QED
      BY <2>1, <2>2 DEF CountIsSpared, KeepsLastCount, Moving
  <1>17. CASE CompactWrite(p)
    <2>1. UNCHANGED <<now, born, hot, stored, batch>> /\ pc[p] = "compactRead" /\ pc'[p] = "compactDrop"
          /\ unread[p] = {}
      BY <1>17 DEF CompactWrite, TypeOK
    <2>2. RowsOf(batch[p]) \subseteq merged[p]
      BY <2>1 DEF MergeCovers, RowsOf
    <2>3. RowsOf(batch[p])' \subseteq RowsOf(File \ batch[p])' /\ Visible \subseteq Visible'
      <3>1. CASE merged[p] = {} /\ rows' = rows
        BY <2>1, <2>2, <3>1 DEF RowsOf, Visible
      <3>2. ASSUME NEW f \in Fresh, rows' = [rows EXCEPT ![f] = merged[p]]
            PROVE  RowsOf(batch[p])' \subseteq RowsOf(File \ batch[p])' /\ Visible \subseteq Visible'
        <4>1. f \in File /\ rows[f] = {} /\ f \notin batch[p]
          BY <3>2 DEF Fresh
        <4>2. rows'[f] = merged[p] /\ \A g \in File : g # f => rows'[g] = rows[g]
          BY <3>2, <4>1 DEF TypeOK
        <4>3. RowsOf(batch[p])' = RowsOf(batch[p])
          BY <2>1, <4>1, <4>2 DEF RowsOf, TypeOK
        <4>4. merged[p] \subseteq RowsOf(File \ batch[p])'
          BY <2>1, <4>1, <4>2 DEF RowsOf
        <4>5. Visible \subseteq Visible'
          BY <2>1, <4>1, <4>2 DEF Visible, RowsOf
        <4>. QED
          BY <2>2, <4>3, <4>4, <4>5
      <3>. QED
        BY <1>17, <3>1, <3>2 DEF CompactWrite
    <2>4. PastRetention' = PastRetention
      BY <2>1 DEF PastRetention, HourEnd, Hour
    <2>5. KeepsLastCount' /\ stored' \ Visible' \subseteq PastRetention'
      BY <2>1, <2>3, <2>4, CountGrows DEF CountIsSpared
    <2>. QED
      BY <2>1, <2>3, <2>5 DEF CountIsSpared, Moving
  <1>18. CASE UNCHANGED vars
    <2>1. UNCHANGED <<now, born, hot, rows, stored, pc, started, top, buffer, written, batch>>
      BY <1>18 DEF vars
    <2>2. Moving(p)' => HotMoved(p)'
      BY <2>1 DEF CountIsSpared, Moving, HotMoved, HotCutoff, RowsOf
    <2>. QED
      BY <2>1, <2>2, QuietSpares
  <1>. QED
    BY <1>1, <1>2, <1>3, <1>4, <1>5, <1>6, <1>7, <1>8, <1>9, <1>10, <1>11, <1>12, <1>13, <1>14,
       <1>15, <1>16, <1>17, <1>18 DEF SmoothNext, CycleStep

-----------------------------------------------------------------------------
\* With no copy in two places, the rows of the tiers add up to the entries that are there.
LEMMA SoleRowsAddUp ==
  ASSUME IsFiniteSet(Entry), IsFiniteSet(File), NEW p, Pod = {p}, TypeOK, Bookkeeping, OneCopy(p)
  PROVE  IdleCountExact
  <1> SUFFICES ASSUME pc[p] = "idle"
               PROVE  Cardinality(hot) + RowCount(Live) = Cardinality(Visible)
    BY DEF IdleCountExact
  <1>1. FilesAreApart(Live) /\ Live \subseteq File /\ written[p] = {}
    BY DEF OneCopy, Merged, FilesAreApart, Live, Bookkeeping, MovingPc
  <1>2. IsFiniteSet(RowsOf(Live)) /\ RowCount(Live) = Cardinality(RowsOf(Live))
    BY <1>1, ApartCount
  <1>3. RowsOf(Live) = RowsOf(File)
    BY DEF RowsOf, Live
  <1>4. hot \cap RowsOf(Live) = {}
    BY <1>1 DEF OneCopy, RowsOf
  <1>5. IsFiniteSet(hot)
    BY FS_Subset DEF TypeOK
  <1>6. Cardinality(hot \cup RowsOf(Live)) = Cardinality(hot) + Cardinality(RowsOf(Live)) - Cardinality({})
    BY <1>2, <1>4, <1>5, FS_Union
  <1>7. Cardinality(hot) \in Int /\ Cardinality(RowsOf(Live)) \in Int
    BY <1>2, <1>5, FS_CardinalityType
  <1>. QED
    BY <1>2, <1>3, <1>6, <1>7, FS_EmptySet DEF Visible

\* One pod that meets no failure: between two cycles the tiers' rows add up to the entries that are
\* there, and what expires past retention leaves keepLast of them, or all when there are fewer.
\* No entry may wait longer in a write buffer than the hot store is deep, and rows must move: a
\* hot store as deep as the retention is pruned by the entry and not by the hour.
THEOREM CountsStayRight ==
  ASSUME IsFiniteSet(Entry), IsFiniteSet(File), NEW p, Pod = {p}, Moves, MaxLag <= HotFor
  PROVE  SmoothSpec => []CountsHold
  <1>. DEFINE CountInv == Inv /\ OneCopy(p) /\ (KeepLast >= 0 => CountIsSpared(p))
  <1>1. Init => CountInv
    BY InvInit, OneCopyInit, SparedInit
  <1>2. ASSUME CountInv, [SmoothNext]_vars
        PROVE  CountInv'
    <2>1. [Next]_vars
      BY <1>2 DEF Next
    <2>2. Inv'
      BY <1>2, <2>1, InvStep
    <2>3. TypeOK /\ TypeOK' /\ Bookkeeping /\ MergeCovers(p)
      BY <1>2, <2>2 DEF Inv, CopiesAreSafe
    <2>4. OneCopy(p)'
      BY <1>2, <2>3, OneCopyStep
    <2>5. KeepLast >= 0 => CountIsSpared(p)'
      BY <1>2, <2>3, SparedStep
    <2>. QED
      BY <2>2, <2>4, <2>5
  <1>3. CountInv => CountsHold
    <2> SUFFICES ASSUME CountInv
                 PROVE  CountsHold
      OBVIOUS
    <2>1. IdleCountExact
      BY SoleRowsAddUp DEF Inv
    <2>2. CASE KeepLast < 0
      <3>1. IsFiniteSet(PastRetention \cap Visible)
        BY FS_Subset DEF Inv, TypeOK, PastRetention
      <3>2. Cardinality(PastRetention \cap Visible) \in Nat
        BY <3>1, FS_CardinalityType
      <3>3. Cardinality(PastRetention \cap Visible) >= KeepLast
        BY <2>2, <3>2, TieredAssumption
      <3>. QED
        BY <2>1, <3>3 DEF CountsHold, KeepsLastCount
    <2>3. CASE KeepLast >= 0
      BY <2>1, <2>3 DEF CountsHold, CountIsSpared
    <2>. QED
      BY <2>2, <2>3, TieredAssumption
  <1>. QED
    BY <1>1, <1>2, <1>3, PTL DEF SmoothSpec

-----------------------------------------------------------------------------
(* Readers.  One pod that does not compact: what a reader may still find.  *)

\* What a move holds and has written is still in the hot store.
MoveIsInHot == \A p \in Pod : buffer[p] \cup RowsOf(written[p]) \subseteq hot
NoCompaction ==
  \A p \in Pod : pc[p] \notin {"compactList", "compact", "compactRead", "compactDrop"}

\* What one step of the store leaves for a reader: an entry that left the hot store does not come
\* back, and a file whose rows change was new, or is deleted with rows that are in the hot store
\* or past retention.
StoreStays ==
  /\ MoveIsInHot' /\ NoCompaction' /\ IsFiniteSet(recorded')
  /\ stored \subseteq stored' /\ now <= now' /\ \A e \in recorded : born'[e] = born[e]
  /\ \A e \in stored : e \in hot' => e \in hot
  /\ \A f \in File : \/ rows'[f] = rows[f] \/ rows[f] = {}
                     \/ rows'[f] = {} /\ \A e \in rows[f] : e \in hot' \/ Expired(e)

\* A new file is one of a move, in the midst of a flush.
Flushing == {"flush", "lastFlush"}
FilesStay ==
  \A p \in Pod :
    \/ Live' \subseteq Live /\ (pc[p] \in Flushing /\ pc'[p] = pc[p] => written'[p] = written[p])
    \/ /\ pc[p] \in Flushing /\ pc'[p] = pc[p]
       /\ written[p] \subseteq written'[p] /\ Live' \subseteq Live \cup written'[p]

\* Nothing but the clock, a write buffer and the hot store's growth changes.
LEMMA QuietStays ==
  ASSUME Inv, MoveIsInHot, NoCompaction, IsFiniteSet(recorded'), UNCHANGED <<rows, written>>,
         stored \subseteq stored', now <= now', \A e \in recorded : born'[e] = born[e],
         hot \subseteq hot', \A e \in stored : e \in hot' => e \in hot,
         \A p \in Pod : buffer'[p] \subseteq buffer[p] \cup hot, NoCompaction'
  PROVE  StoreStays /\ FilesStay
  <1>1. MoveIsInHot'
    BY DEF MoveIsInHot, RowsOf
  <1>2. Live' = Live
    BY DEF Live
  <1>. QED
    BY <1>1, <1>2 DEF StoreStays, FilesStay

LEMMA StoreMoves ==
  ASSUME NEW p0, Pod = {p0}, ~ Compact, Inv, MoveIsInHot, NoCompaction, IsFiniteSet(recorded), [Next]_vars
  PROVE  StoreStays /\ FilesStay
  <1>. USE TieredAssumption DEF clockVars, storeVars, moveVars, coldVars, Goto
  <1>. TypeOK /\ Bookkeeping
    BY DEF Inv
  <1>1. CASE UNCHANGED vars
    BY <1>1, QuietStays DEF vars, NoCompaction, TypeOK
  <1>2. CASE Tick
    BY <1>2, QuietStays DEF Tick, NoCompaction, TypeOK
  <1>3. ASSUME NEW p \in Pod, NEW e \in Entry, Record(p, e)
        PROVE  StoreStays /\ FilesStay
    <2>1. IsFiniteSet(recorded')
      BY <1>3, FS_AddElement DEF Record
    <2>2. \A d \in recorded : born'[d] = born[d]
      BY <1>3 DEF Record, TypeOK
    <2>. QED
      BY <1>3, <2>1, <2>2, QuietStays DEF Record, NoCompaction, TypeOK
  <1>4. ASSUME NEW p \in Pod, Insert(p)
        PROVE  StoreStays /\ FilesStay
    <2>1. PICK took \in SUBSET pending[p] : hot' = hot \cup took /\ stored' = stored \cup took
      BY <1>4 DEF Insert
    <2>2. \A e \in stored : e \in hot' => e \in hot
      BY <2>1 DEF Bookkeeping
    <2>. QED
      BY <1>4, <2>1, <2>2, QuietStays DEF Insert, NoCompaction, TypeOK
  <1>5. ASSUME NEW p \in Pod, StartCycle(p) \/ Flushed(p) \/ ExpireList(p) \/ Deleted(p) \/ MaintenanceFails(p)
        PROVE  StoreStays /\ FilesStay
    <2>1. UNCHANGED <<rows, written, recorded, stored, now, born, hot, buffer>>
      BY <1>5 DEF StartCycle, Flushed, ExpireList, Deleted, MaintenanceFails
    <2>2. NoCompaction'
      BY <1>5 DEF StartCycle, Flushed, ExpireList, Deleted, MaintenanceFails, NoCompaction, TypeOK
    <2>. QED
      BY <2>1, <2>2, QuietStays DEF TypeOK
  <1>6. ASSUME NEW p \in Pod, ListFullPage(p) \/ ListEdge(p) \/ ListLastPage(p) \/ MoveFails(p)
        PROVE  StoreStays /\ FilesStay
    <2>1. UNCHANGED <<rows, written, recorded, stored, now, born, hot>>
      BY <1>6 DEF ListFullPage, ListEdge, ListLastPage, MoveFails
    <2>2. NoCompaction'
      BY <1>6 DEF ListFullPage, ListEdge, ListLastPage, MoveFails, NoCompaction, TypeOK
    <2>3. \A q \in Pod : buffer'[q] \subseteq buffer[q] \cup hot
      <3>1. CASE ListFullPage(p)
        BY <3>1 DEF ListFullPage, TypeOK, MoveWindow
      <3>2. CASE ListEdge(p)
        <4>1. buffer' = [buffer EXCEPT ![p] = buffer[p] \cup {e \in hot : born[e] = top[p] - 1}]
          BY <3>2 DEF ListEdge
        <4>. QED
          BY <4>1 DEF TypeOK
      <3>3. CASE ListLastPage(p)
        BY <3>3 DEF ListLastPage, TypeOK, MoveWindow
      <3>4. CASE MoveFails(p)
        BY <3>4 DEF MoveFails, TypeOK
      <3>. QED
        BY <1>6, <3>1, <3>2, <3>3, <3>4
    <2>. QED
      BY <2>1, <2>2, <2>3, QuietStays DEF TypeOK
  <1>7. ASSUME NEW p \in Pod, WriteFile(p)
        PROVE  StoreStays /\ FilesStay
    <2>1. PICK f \in Fresh, S \in SUBSET buffer[p] :
            /\ rows' = [rows EXCEPT ![f] = S] /\ written' = [written EXCEPT ![p] = @ \cup {f}]
            /\ buffer' = [buffer EXCEPT ![p] = @ \ S]
      BY <1>7 DEF WriteFile
    <2>2. f \in File /\ rows[f] = {} /\ p = p0
      BY <2>1 DEF Fresh
    <2>3. UNCHANGED <<pc, recorded, stored, now, born, hot>> /\ pc[p] \in Flushing
      BY <1>7 DEF WriteFile, Flushing
    <2>4. MoveIsInHot'
      BY <2>1, <2>2, <2>3 DEF MoveIsInHot, RowsOf, TypeOK
    <2>5. StoreStays
      BY <2>1, <2>2, <2>3, <2>4 DEF StoreStays, NoCompaction, TypeOK
    <2>6. Live' \subseteq Live \cup {f}
      BY <2>1, <2>2 DEF Live, TypeOK
    <2>7. FilesStay
      BY <2>1, <2>2, <2>3, <2>6 DEF FilesStay, TypeOK
    <2>. QED
      BY <2>5, <2>7
  <1>8. ASSUME NEW p \in Pod, UndoMove(p)
        PROVE  StoreStays /\ FilesStay
    <2>1. PICK gone \in SUBSET written[p] : rows' = [f \in File |-> IF f \in gone THEN {} ELSE rows[f]]
      BY <1>8 DEF UndoMove
    <2>2. UNCHANGED <<buffer, recorded, stored, now, born, hot>> /\ pc[p] = "undo" /\ p = p0
          /\ written'[p] = {} /\ pc'[p] = "idle"
      BY <1>8 DEF UndoMove, TypeOK
    <2>3. \A f \in gone : rows[f] \subseteq hot
      BY <2>1 DEF MoveIsInHot, RowsOf
    <2>4. MoveIsInHot' /\ NoCompaction'
      BY <2>2 DEF MoveIsInHot, NoCompaction, RowsOf
    <2>5. StoreStays
      BY <2>1, <2>2, <2>3, <2>4 DEF StoreStays, TypeOK
    <2>6. Live' \subseteq Live
      BY <2>1 DEF Live
    <2>. QED
      BY <2>2, <2>5, <2>6 DEF FilesStay, Flushing
  <1>9. ASSUME NEW p \in Pod, HotPrune(p) \/ HotPruneFails(p)
        PROVE  StoreStays /\ FilesStay
    <2>1. UNCHANGED <<rows, buffer, recorded, stored, now, born>> /\ hot' \subseteq hot /\ pc[p] = "hotPrune"
      BY <1>9 DEF HotPrune, HotPruneFails
    <2>2. p = p0 /\ written'[p] = {} /\ pc'[p] \in {"expireList", "idle"} /\ buffer[p] = {}
      BY <1>9, <2>1 DEF HotPrune, HotPruneFails, Bookkeeping, TypeOK
    <2>3. MoveIsInHot' /\ NoCompaction'
      BY <2>1, <2>2 DEF MoveIsInHot, NoCompaction, RowsOf
    <2>4. Live' = Live
      BY <2>1 DEF Live
    <2>. QED
      BY <2>1, <2>2, <2>3, <2>4 DEF StoreStays, FilesStay, Flushing, TypeOK
  <1>10. ASSUME NEW p \in Pod, DeleteFile(p)
         PROVE  StoreStays /\ FilesStay
    <2>1. PICK f \in batch[p] : rows' = [rows EXCEPT ![f] = {}]
      BY <1>10 DEF DeleteFile
    <2>2. UNCHANGED <<buffer, written, recorded, stored, now, born, hot, pc>> /\ pc[p] = "expire"
      BY <1>10 DEF DeleteFile, NoCompaction
    <2>3. \A e \in rows[f] : Expired(e)
      BY <2>1, <2>2 DEF Bookkeeping, RowsOf
    <2>4. MoveIsInHot' /\ NoCompaction'
      BY <2>1, <2>2 DEF MoveIsInHot, NoCompaction, RowsOf, TypeOK
    <2>5. StoreStays
      BY <2>1, <2>2, <2>3, <2>4 DEF StoreStays, TypeOK
    <2>6. Live' \subseteq Live
      BY <2>1 DEF Live, TypeOK
    <2>. QED
      BY <2>2, <2>5, <2>6 DEF FilesStay
  <1>11. ASSUME NEW p \in Pod, Crash(p)
         PROVE  StoreStays /\ FilesStay
    <2>1. UNCHANGED <<rows, recorded, stored, now, born, hot>> /\ p = p0
          /\ pc'[p] = "idle" /\ buffer'[p] = {} /\ written'[p] = {}
      BY <1>11 DEF Crash, TypeOK
    <2>2. MoveIsInHot' /\ NoCompaction' /\ Live' = Live
      BY <2>1 DEF MoveIsInHot, NoCompaction, RowsOf, Live
    <2>. QED
      BY <2>1, <2>2 DEF StoreStays, FilesStay, Flushing, TypeOK
  <1>12. ASSUME NEW p \in Pod,
                CompactList(p) \/ CompactPick(p) \/ CompactRead(p) \/ CompactWrite(p) \/ CompactDone(p)
         PROVE  FALSE
    BY <1>12 DEF CompactList, CompactPick, CompactRead, CompactWrite, CompactDone, NoCompaction
  <1>. QED
    BY <1>1, <1>2, <1>3, <1>4, <1>5, <1>6, <1>7, <1>8, <1>9, <1>10, <1>11, <1>12
       DEF Next, SmoothNext, CycleStep, Failure

-----------------------------------------------------------------------------
(* Readers: what they may still find is within their reach                 *)

\* A cached listing lacks no file but those the move is writing.
CacheKnows ==
  \A p \in Pod : \A L \in cache[p] :
    Live \subseteq L \cup (IF pc[p] \in Flushing THEN written[p] ELSE {})

\* No row of a file that is to be read is newer than the footer said.
PlanIsTrue ==
  \A p \in Pod : \A c \in plan[p] :
    c[1] \in File /\ c[2] \in Int /\ \A e \in rows[c[1]] : born[e] <= c[2]

ReadShape ==
  /\ cache \in [Pod -> SUBSET SUBSET File]
  /\ rpc \in [Pod -> {"free", "hot", "peek", "cold", "files", "answered"}]
  /\ asked \in [Pod -> SUBSET Entry] /\ before \in [Pod -> SUBSET Entry]
  /\ hotPart \in [Pod -> SUBSET Entry] /\ result \in [Pod -> SUBSET Entry]
  /\ degraded \in [Pod -> BOOLEAN]
  /\ got \in [Pod -> SUBSET (Entry \X File)] /\ DOMAIN plan = Pod
  /\ \A p \in Pod :
       /\ asked[p] = {} \/ \E e \in Entry : asked[p] = {e}
       /\ before[p] \subseteq stored /\ hotPart[p] \subseteq stored /\ result[p] \subseteq stored
       /\ got[p] \subseteq stored \X File /\ IsFiniteSet(got[p])
       /\ rpc[p] \in {"free", "hot"} => hotPart[p] = {}
       /\ rpc[p] \in {"free", "hot", "peek", "cold"} => plan[p] = {} /\ got[p] = {}
       /\ asked[p] # {} => hotPart[p] = {} /\ \A r \in got[p] : r[1] \in asked[p]
       /\ rpc[p] = "peek" => asked[p] = {} /\ Cardinality(hotPart[p]) = PageSize

\* A page that is full of entries no older than e.
Beats(S, e) == Cardinality(S) = PageSize /\ \A r \in S : born[r] >= born[e]
RowsBeat(S, e) == Cardinality(S) = PageSize /\ \A r \in S : born[r[1]] >= born[e]

\* What the answer must have, or for a page, be full of newer entries.
Wanted(p) == {e \in before[p] : ~ Expired(e) /\ (asked[p] = {} \/ e \in asked[p])}

InHot(p, e) == e \in hotPart[p] \/ Beats(hotPart[p], e)
InCold(p, e) ==
  /\ e \notin hot
  /\ \/ \E c \in plan[p] : e \in rows[c[1]]
     \/ \E r \in got[p] : r[1] = e
     \/ RowsBeat(got[p], e)
InAnswer(p, e) == e \in result[p] \/ (asked[p] = {} /\ Beats(result[p], e))

\* At every await of the read the entry was found, is still to be found or does not matter.
Known(p, e) ==
  /\ rpc[p] \in {"peek", "cold"} => InHot(p, e) \/ e \notin hot
  /\ rpc[p] = "files" => InHot(p, e) \/ InCold(p, e)
  /\ rpc[p] = "answered" /\ (asked[p] # {} \/ ~ ReadTwice(p)) => InAnswer(p, e) \/ OutOfReach(p, e)
ReadsKnow == \A p \in Pod : \A e \in Wanted(p) : Known(p, e)

ReadInv ==
  /\ Inv /\ MoveIsInHot /\ NoCompaction /\ IsFiniteSet(recorded)
  /\ CacheKnows /\ PlanIsTrue /\ ReadShape /\ ReadsKnow

\* Entries of the store have a time, which stays, and what expired stays expired.
LEMMA TimesStay ==
  ASSUME Inv, StoreStays, Inv'
  PROVE  /\ \A e \in stored : born[e] \in Int /\ born'[e] = born[e] /\ e \in stored'
         /\ \A e \in stored : Expired(e) => Expired(e)'
         /\ \A f \in File : rows[f] \subseteq stored
  <1>1. stored \subseteq recorded /\ stored \subseteq Entry /\ born \in [Entry -> Nat] /\ now \in Nat /\ now' \in Nat
    BY DEF Inv, TypeOK, Bookkeeping
  <1>2. \A e \in stored : born[e] \in Int /\ born'[e] = born[e] /\ e \in stored'
    BY <1>1 DEF StoreStays
  <1>3. ASSUME NEW e \in stored, Expired(e) PROVE Expired(e)'
    <2>1. born[e] \in Int /\ born'[e] = born[e] /\ now <= now' /\ Retention \in Nat
      BY <1>2, TieredAssumption DEF StoreStays
    <2>. QED
      BY <1>1, <1>3, <2>1 DEF Expired
  <1>4. \A f \in File : rows[f] \subseteq stored
    BY DEF Inv, Bookkeeping, NothingInvented, Visible, RowsOf
  <1>. QED
    BY <1>2, <1>3, <1>4

\* A step of the store during a read: the read stands where it stood.
LEMMA StoreKeepsPlans ==
  ASSUME ReadInv, Inv', StoreStays, NamesStayUnique, plan' = plan
  PROVE  PlanIsTrue'
  <1>. SUFFICES ASSUME NEW p \in Pod, NEW c \in plan[p]
                PROVE  c[1] \in File /\ c[2] \in Int /\ \A e \in rows'[c[1]] : born'[e] <= c[2]
    BY DEF PlanIsTrue
  <1>1. c[1] \in File /\ c[2] \in Int /\ \A e \in rows[c[1]] : born[e] <= c[2]
    BY DEF ReadInv, PlanIsTrue
  <1>2. rows[c[1]] = {} => rows'[c[1]] = {}
    BY DEF NamesStayUnique, Planned
  <1>3. rows'[c[1]] = rows[c[1]] \/ rows'[c[1]] = {}
    BY <1>1, <1>2 DEF StoreStays
  <1>4. \A e \in rows[c[1]] : born'[e] = born[e]
    BY <1>1, TimesStay DEF ReadInv
  <1>. QED
    BY <1>1, <1>3, <1>4

LEMMA StoreKeepsReads ==
  ASSUME ReadInv, Inv', StoreStays, NamesStayUnique, UNCHANGED readVars
  PROVE  ReadsKnow'
  <1>1. UNCHANGED <<rpc, asked, hotPart, plan, got, result, degraded, before>>
    BY DEF readVars
  <1>. SUFFICES ASSUME NEW p \in Pod, NEW e \in Wanted(p)' PROVE Known(p, e)'
    BY DEF ReadsKnow
  <1>2. /\ \A d \in stored : born[d] \in Int /\ born'[d] = born[d] /\ d \in stored'
        /\ \A d \in stored : Expired(d) => Expired(d)'
        /\ \A f \in File : rows[f] \subseteq stored
    BY TimesStay DEF ReadInv
  <1>3. /\ before[p] \subseteq stored /\ hotPart[p] \subseteq stored /\ result[p] \subseteq stored
        /\ got[p] \subseteq stored \X File
    BY DEF ReadInv, ReadShape
  <1>4. e \in before[p] /\ e \in stored /\ ~ Expired(e)' /\ (asked[p] = {} \/ e \in asked[p])
    BY <1>1, <1>3 DEF Wanted
  <1>5. e \in Wanted(p) /\ ~ Expired(e)
    BY <1>2, <1>4 DEF Wanted
  <1>6. Known(p, e)
    BY <1>5 DEF ReadInv, ReadsKnow
  <1>7. InHot(p, e) => InHot(p, e)'
    BY <1>1, <1>2, <1>3, <1>4 DEF InHot, Beats
  <1>8. e \notin hot => e \notin hot'
    BY <1>4 DEF StoreStays
  <1>9. InCold(p, e) => InCold(p, e)'
    <2>. SUFFICES ASSUME InCold(p, e) PROVE InCold(p, e)'
      OBVIOUS
    <2>1. e \notin hot /\ e \notin hot'
      BY <1>8 DEF InCold
    <2>2. ASSUME NEW c \in plan[p], e \in rows[c[1]] PROVE e \in rows'[c[1]]
      <3>1. c[1] \in File
        BY DEF ReadInv, PlanIsTrue
      <3>. QED
        BY <1>5, <2>1, <2>2, <3>1 DEF StoreStays
    <2>3. RowsBeat(got[p], e) => RowsBeat(got[p], e)'
      <3>1. \A r \in got[p] : r[1] \in stored
        BY <1>3
      <3>. QED
        BY <1>1, <1>2, <1>4, <3>1 DEF RowsBeat
    <2>. QED
      BY <1>1, <2>1, <2>2, <2>3 DEF InCold
  <1>10. InAnswer(p, e) => InAnswer(p, e)'
    BY <1>1, <1>2, <1>3, <1>4 DEF InAnswer, Beats
  <1>11. ReadTwice(p)' = ReadTwice(p)
    BY <1>1 DEF ReadTwice
  <1>12. OutOfReach(p, e) => OutOfReach(p, e)'
    BY <1>1, <1>8 DEF OutOfReach
  <1>. QED
    BY <1>1, <1>6, <1>7, <1>8, <1>9, <1>10, <1>11, <1>12 DEF Known

\* The pod's own listing after a step of its cycle.
LEMMA RefreshKeepsCache ==
  ASSUME NEW p0, Pod = {p0}, ReadInv, NoCompaction', FilesStay, Refresh(p0)
  PROVE  CacheKnows' /\ cache' \in [Pod -> SUBSET SUBSET File]
  <1>1. /\ cache \in [Pod -> SUBSET SUBSET File] /\ p0 \in Pod
        /\ \A L \in cache[p0] : Live \subseteq L \cup (IF pc[p0] \in Flushing THEN written[p0] ELSE {})
    BY DEF ReadInv, ReadShape, CacheKnows
  <1>2. /\ pc[p0] \notin {"compactList", "compact", "compactRead", "compactDrop"}
        /\ pc'[p0] \notin {"compactList", "compact", "compactRead", "compactDrop"}
    BY <1>1 DEF ReadInv, NoCompaction
  <1>3. \/ Live' \subseteq Live /\ (pc[p0] \in Flushing /\ pc'[p0] = pc[p0] => written'[p0] = written[p0])
        \/ /\ pc[p0] \in Flushing /\ pc'[p0] = pc[p0]
           /\ written[p0] \subseteq written'[p0] /\ Live' \subseteq Live \cup written'[p0]
    BY <1>1 DEF FilesStay
  <1>4. Live \subseteq File
    BY DEF Live
  <1>5. CASE Lists(p0)
    <2>1. cache' = [cache EXCEPT ![p0] = {Live}]
      BY <1>5, <1>1 DEF Refresh, Lists, Drops
    <2>2. pc[p0] = "expireList" /\ pc'[p0] = "expire"
      BY <1>2, <1>5 DEF Lists
    <2>3. Live' \subseteq Live
      BY <1>3, <2>2 DEF Flushing
    <2>4. CacheKnows'
      BY <1>1, <2>1, <2>2, <2>3 DEF CacheKnows, Flushing
    <2>. QED
      BY <1>1, <1>4, <2>1, <2>4
  <1>6. CASE Drops(p0)
    <2>1. cache' = [cache EXCEPT ![p0] = {}]
      BY <1>6, <1>1 DEF Refresh, Lists, Drops
    <2>. QED
      BY <1>1, <2>1 DEF CacheKnows
  <1>7. CASE pc[p0] = "expire" /\ pc'[p0] # "expire"
    <2>1. PICK kept \in {{}, cache[p0]} : cache' = [cache EXCEPT ![p0] = kept]
      BY <1>7, <1>1 DEF Refresh, Lists, Drops
    <2>2. pc[p0] \notin Flushing /\ Live' \subseteq Live
      BY <1>3, <1>7 DEF Flushing
    <2>3. \A L \in cache'[p0] : Live' \subseteq L
      BY <1>1, <2>1, <2>2
    <2>. QED
      BY <1>1, <2>1, <2>3 DEF CacheKnows
  <1>8. CASE ~ Lists(p0) /\ ~ Drops(p0) /\ ~ (pc[p0] = "expire" /\ pc'[p0] # "expire")
    <2>1. cache' = cache
      BY <1>8, <1>1 DEF Refresh
    <2>2. pc[p0] \in Flushing => pc'[p0] = pc[p0]
      BY <1>8 DEF Drops, Flushing
    <2>3. \A L \in cache[p0] : Live' \subseteq L \cup (IF pc'[p0] \in Flushing THEN written'[p0] ELSE {})
      BY <1>1, <1>3, <2>2
    <2>. QED
      BY <1>1, <2>1, <2>3 DEF CacheKnows
  <1>. QED
    BY <1>5, <1>6, <1>7, <1>8

LEMMA StoreKeepsShape ==
  ASSUME ReadShape, StoreStays, UNCHANGED readVars, cache' \in [Pod -> SUBSET SUBSET File]
  PROVE  ReadShape'
BY DEF ReadShape, StoreStays, readVars

LEMMA CycleKeepsReads ==
  ASSUME NEW p0, Pod = {p0}, ~ Compact, MaxLag <= HotFor, ReadInv, NamesStayUnique,
         Arrivals \/ \E p \in Pod : Cycle(p) \/ CycleFails(p)
  PROVE  ReadInv'
  <1>1. [Next]_vars /\ UNCHANGED readVars
    BY DEF Arrivals, Cycle, CycleFails, Next, SmoothNext, Failure
  <1>2. Inv' /\ StoreStays /\ FilesStay
    BY <1>1, InvStep, StoreMoves DEF ReadInv
  <1>3. CacheKnows' /\ cache' \in [Pod -> SUBSET SUBSET File]
    <2>1. CASE \E p \in Pod : Cycle(p) \/ CycleFails(p)
      BY <1>2, <2>1, RefreshKeepsCache DEF Cycle, CycleFails, StoreStays
    <2>2. CASE Arrivals
      <3>1. cache' = cache /\ pc' = pc /\ written' = written /\ rows' = rows
        BY <2>2 DEF Arrivals, Tick, Record, Insert, storeVars, moveVars, coldVars
      <3>. QED
        BY <3>1 DEF ReadInv, CacheKnows, Live, ReadShape
    <2>. QED
      BY <2>1, <2>2
  <1>4. ReadShape'
    BY <1>1, <1>2, <1>3, StoreKeepsShape DEF ReadInv
  <1>5. PlanIsTrue'
    BY <1>1, <1>2, StoreKeepsPlans DEF readVars
  <1>6. ReadsKnow'
    BY <1>1, <1>2, StoreKeepsReads
  <1>. QED
    BY <1>2, <1>3, <1>4, <1>5, <1>6 DEF ReadInv, StoreStays

\* A crash takes the pod's cached listing and its read.
LEMMA CrashKeepsReads ==
  ASSUME NEW p0, Pod = {p0}, ~ Compact, MaxLag <= HotFor, ReadInv, PodCrash(p0)
  PROVE  ReadInv'
  <1>1. [Next]_vars
    BY DEF PodCrash, Next, Failure
  <1>2. Inv' /\ StoreStays
    BY <1>1, InvStep, StoreMoves DEF ReadInv
  <1>3. /\ cache'[p0] = {} /\ rpc'[p0] = "free" /\ asked'[p0] = {} /\ hotPart'[p0] = {}
        /\ plan'[p0] = {} /\ got'[p0] = {} /\ result'[p0] = {} /\ before'[p0] = {}
    BY DEF ReadInv, ReadShape, PodCrash, ReadGoto
  <1>4. ReadShape'
    BY <1>3, FS_EmptySet DEF ReadInv, ReadShape, PodCrash, ReadGoto
  <1>5. CacheKnows' /\ PlanIsTrue' /\ ReadsKnow'
    BY <1>3 DEF CacheKnows, PlanIsTrue, ReadsKnow, Known
  <1>. QED
    BY <1>2, <1>4, <1>5 DEF ReadInv, StoreStays

-----------------------------------------------------------------------------
\* K, the newest n of D by b: what it leaves out is no newer than any of it and it is full;
\* n others no older than x make it full of such.
LEMMA TopBeats ==
  ASSUME NEW D, IsFiniteSet(D), NEW K \in SUBSET D, NEW n \in Nat, NEW b, \A d \in D : b[d] \in Int,
         Cardinality(K) = (IF Cardinality(D) < n THEN Cardinality(D) ELSE n),
         \A k \in K, d \in D \ K : b[k] >= b[d]
  PROVE  /\ \A e \in D \ K : Cardinality(K) = n /\ \A k \in K : b[k] >= b[e]
         /\ \A G \in SUBSET D, x \in Int :
              Cardinality(G) >= n /\ (\A g \in G : b[g] >= x) =>
                Cardinality(K) = n /\ \A k \in K : b[k] >= x
  <1>1. Cardinality(D) \in Nat /\ IsFiniteSet(K) /\ Cardinality(K) \in Nat
    BY FS_Subset, FS_CardinalityType
  <1>2. ASSUME NEW e \in D \ K
        PROVE  Cardinality(K) = n /\ \A k \in K : b[k] >= b[e]
    <2>1. Cardinality(K) # Cardinality(D)
      BY FS_Subset
    <2>. QED
      BY <2>1
  <1>3. ASSUME NEW G \in SUBSET D, NEW x \in Int, Cardinality(G) >= n, \A g \in G : b[g] >= x
        PROVE  Cardinality(K) = n /\ \A k \in K : b[k] >= x
    <2>1. IsFiniteSet(G) /\ Cardinality(G) \in Nat /\ Cardinality(G) <= Cardinality(D)
      BY FS_Subset, FS_CardinalityType
    <2>2. Cardinality(K) = n
      BY <1>1, <1>3, <2>1
    <2>3. CASE G \subseteq K
      <3>1. Cardinality(G) <= Cardinality(K) /\ (Cardinality(K) = Cardinality(G) => K = G)
        BY <1>1, <2>3, FS_Subset
      <3>2. K = G
        BY <1>1, <1>3, <2>1, <2>2, <3>1
      <3>. QED
        BY <1>3, <2>2, <3>2
    <2>4. CASE ~ (G \subseteq K)
      <3>1. PICK g \in G : g \notin K
        BY <2>4
      <3>2. ASSUME NEW k \in K PROVE b[k] >= x
        <4>1. b[k] >= b[g] /\ b[g] >= x /\ b[k] \in Int /\ b[g] \in Int
          BY <1>3, <3>1
        <4>. QED
          BY <4>1
      <3>. QED
        BY <2>2, <3>2
    <2>. QED
      BY <2>3, <2>4
  <1>. QED
    BY <1>2, <1>3

\* What every read relies on.
LEMMA StoreFacts ==
  ASSUME ReadInv
  PROVE  /\ stored \subseteq Entry /\ IsFiniteSet(stored) /\ hot \subseteq stored /\ Visible \subseteq stored
         /\ \A e \in stored : born[e] \in Nat
         /\ \A f \in File : rows[f] \subseteq stored
         /\ \A S : S \subseteq stored => IsFiniteSet(S)
  <1>1. stored \subseteq recorded /\ IsFiniteSet(recorded) /\ Visible \subseteq stored /\ TypeOK
    BY DEF ReadInv, Inv, Bookkeeping, NothingInvented
  <1>2. IsFiniteSet(stored)
    BY <1>1, FS_Subset
  <1>3. \A S : S \subseteq stored => IsFiniteSet(S)
    BY <1>2, FS_Subset
  <1>. QED
    BY <1>1, <1>2, <1>3 DEF TypeOK, Visible, RowsOf

\* The candidates of a listing: each footer's maximum bounds its rows.
LEMMA CandidatesAreTrue ==
  ASSUME ReadInv, NEW L \in SUBSET File, NEW c \in PlanOf(L)
  PROVE  c[1] \in File /\ c[2] \in Int /\ \A e \in rows[c[1]] : born[e] <= c[2]
  <1>1. PICK f \in L : rows[f] # {} /\ c = <<f, NewestIn(f)>>
    BY DEF PlanOf
  <1>. DEFINE S == {born[e] : e \in rows[f]}
  <1>2. now \in Nat /\ \A e \in stored : born[e] \in Nat
    BY StoreFacts DEF ReadInv, Inv, TypeOK
  <1>3. rows[f] \subseteq stored /\ IsFiniteSet(rows[f])
    BY StoreFacts
  <1>4. S \in SUBSET Int /\ S # {} /\ IsFiniteSet(S)
    <2>1. S \in SUBSET Int /\ S # {}
      BY <1>1, <1>2, <1>3
    <2>2. [e \in rows[f] |-> born[e]] \in Surjection(rows[f], S)
      BY DEF Surjection
    <2>. QED
      BY <1>3, <2>1, <2>2, FS_Surjection
  <1>5. NewestIn(f) \in S /\ \A y \in S : y <= NewestIn(f)
    BY <1>4, FiniteHasMax DEF NewestIn
  <1>6. NewestIn(f) \in Int /\ \A e \in rows[f] : born[e] <= NewestIn(f)
    BY <1>4, <1>5
  <1>. QED
    BY <1>1, <1>6

\* An entry that is not in the hot store is in a candidate of every listing the pod may use.
LEMMA InListing ==
  ASSUME ReadInv, NEW p \in Pod, NEW L \in cache[p] \cup {Live},
         NEW e \in stored, ~ Expired(e), e \notin hot
  PROVE  L \in SUBSET File /\ \E c \in PlanOf(L) : e \in rows[c[1]]
  <1>1. PICK f \in File : e \in rows[f]
    BY SafeCopiesLoseNothing DEF ReadInv, Inv, NoLoss, Visible, RowsOf
  <1>2. L \in SUBSET File
    BY DEF ReadInv, ReadShape, Live
  <1>3. f \in L
    <2>1. f \in Live
      BY <1>1 DEF Live
    <2>2. f \notin written[p]
      BY <1>1 DEF ReadInv, MoveIsInHot, RowsOf
    <2>. QED
      BY <2>1, <2>2 DEF ReadInv, CacheKnows
  <1>4. <<f, NewestIn(f)>> \in PlanOf(L)
    BY <1>1, <1>3 DEF PlanOf
  <1>. QED
    BY <1>1, <1>2, <1>4

\* While the store stands still only the pod's read can go wrong.
LEMMA ReadStays ==
  ASSUME NEW p0, Pod = {p0}, MaxLag <= HotFor, ReadInv, UNCHANGED vars,
         \/ cache' = cache \/ cache' = [cache EXCEPT ![p0] = {}]
         \/ \E L \in SUBSET File : Listing(p0, L),
         ReadShape', \A c \in plan'[p0] : c \in plan[p0] \/ \E L \in SUBSET File : c \in PlanOf(L),
         \A e \in Wanted(p0)' : Known(p0, e)'
  PROVE  ReadInv'
  <1>1. Inv' /\ MoveIsInHot' /\ NoCompaction' /\ IsFiniteSet(recorded')
    BY InvStep DEF ReadInv, vars, MoveIsInHot, NoCompaction, RowsOf
  <1>2. CacheKnows'
    <2>1. Live' = Live /\ pc' = pc /\ written' = written
      BY DEF vars, Live
    <2>2. CASE cache' = cache
      BY <2>1, <2>2 DEF ReadInv, CacheKnows
    <2>4. CASE cache' = [cache EXCEPT ![p0] = {}]
      BY <2>1, <2>4 DEF ReadInv, ReadShape, CacheKnows
    <2>3. ASSUME NEW L \in SUBSET File, Listing(p0, L) PROVE CacheKnows'
      <3>1. cache'[p0] = {L} /\ L \in cache[p0] \cup {Live}
        BY <2>3 DEF Listing, ReadInv, ReadShape
      <3>. QED
        BY <2>1, <3>1 DEF ReadInv, CacheKnows
    <2>. QED
      BY <2>2, <2>3, <2>4
  <1>3. PlanIsTrue'
    <2>. SUFFICES ASSUME NEW c \in plan'[p0]
                  PROVE  c[1] \in File /\ c[2] \in Int /\ \A e \in rows[c[1]] : born[e] <= c[2]
      BY DEF PlanIsTrue, vars
    <2>. QED
      BY CandidatesAreTrue DEF ReadInv, PlanIsTrue
  <1>4. ReadsKnow'
    BY DEF ReadsKnow
  <1>. QED
    BY <1>1, <1>2, <1>3, <1>4 DEF ReadInv

LEMMA AskKeepsReads ==
  ASSUME NEW p0, Pod = {p0}, MaxLag <= HotFor, ReadInv, NEW what,
         what = {} \/ \E e \in stored : what = {e}, Ask(p0, what)
  PROVE  ReadInv'
  <1>1. ReadShape /\ UNCHANGED <<vars, cache, hotPart, plan, got, result, degraded>> /\ stored' = stored
    BY DEF ReadInv, Ask, vars
  <1>2. stored \subseteq Entry /\ Visible \subseteq stored /\ what \subseteq stored
    BY StoreFacts
  <1>3. asked'[p0] = what /\ before'[p0] = Visible /\ rpc[p0] = "free" /\ rpc'[p0] = "hot"
    BY <1>1 DEF Ask, ReadGoto, ReadShape
  <1>4. ReadShape'
    <2>1. /\ asked' \in [Pod -> SUBSET Entry] /\ before' \in [Pod -> SUBSET Entry]
          /\ rpc' \in [Pod -> {"free", "hot", "peek", "cold", "files", "answered"}]
      BY <1>1, <1>2 DEF Ask, ReadGoto, ReadShape
    <2>. QED
      BY <1>1, <1>2, <1>3, <2>1 DEF ReadShape
  <1>5. \A e \in Wanted(p0)' : Known(p0, e)'
    BY <1>3 DEF Known
  <1>. QED
    BY <1>1, <1>4, <1>5, ReadStays

LEMMA ReturnKeepsReads ==
  ASSUME NEW p0, Pod = {p0}, MaxLag <= HotFor, ReadInv, Return(p0)
  PROVE  ReadInv'
  <1>1. ReadShape /\ UNCHANGED <<vars, cache>> /\ stored' = stored
    BY DEF ReadInv, Return, vars
  <1>2. /\ rpc'[p0] = "free" /\ asked'[p0] = {} /\ hotPart'[p0] = {}
        /\ plan'[p0] = {} /\ got'[p0] = {} /\ result'[p0] = {} /\ before'[p0] = {}
    BY <1>1 DEF Return, ReadGoto, ReadShape
  <1>3. ReadShape'
    <2>1. /\ asked' \in [Pod -> SUBSET Entry] /\ before' \in [Pod -> SUBSET Entry]
          /\ hotPart' \in [Pod -> SUBSET Entry] /\ result' \in [Pod -> SUBSET Entry]
          /\ got' \in [Pod -> SUBSET (Entry \X File)] /\ DOMAIN plan' = Pod
          /\ rpc' \in [Pod -> {"free", "hot", "peek", "cold", "files", "answered"}]
          /\ degraded' \in [Pod -> BOOLEAN]
      BY <1>1 DEF Return, ReadGoto, ReadShape
    <2>2. IsFiniteSet(got'[p0]) /\ got'[p0] \subseteq stored' \X File
      BY <1>2, FS_EmptySet
    <2>3. cache' \in [Pod -> SUBSET SUBSET File]
      BY <1>1 DEF ReadShape
    <2>4. \A p \in Pod : p = p0
      OBVIOUS
    <2>. QED
      BY <1>2, <2>1, <2>2, <2>3, <2>4 DEF ReadShape
  <1>4. \A e \in Wanted(p0)' : Known(p0, e)'
    BY <1>2 DEF Known
  <1>. QED
    BY <1>1, <1>2, <1>3, <1>4, ReadStays

\* What a read wanted it still wants, when only its own progress changes.
LEMMA StillWanted ==
  ASSUME UNCHANGED <<vars, asked, before>>, NEW p \in Pod, ReadInv
  PROVE  \A e \in Wanted(p)' : e \in Wanted(p) /\ e \in stored /\ ~ Expired(e) /\ born[e] \in Nat
  <1>1. Wanted(p)' = Wanted(p)
    BY DEF Wanted, Expired, vars
  <1>2. \A e \in Wanted(p) : e \in stored /\ ~ Expired(e)
    BY DEF ReadInv, ReadShape, Wanted
  <1>. QED
    BY <1>1, <1>2, StoreFacts

LEMMA GetHotKeepsReads ==
  ASSUME NEW p0, Pod = {p0}, MaxLag <= HotFor, ReadInv, GetHot(p0)
  PROVE  ReadInv'
  <1>1. /\ ReadShape /\ UNCHANGED <<vars, cache, asked, hotPart, plan, got, degraded, before>>
        /\ stored' = stored /\ hot' = hot
    BY DEF ReadInv, GetHot, vars
  <1>2. hot \subseteq stored /\ stored \subseteq Entry
    BY StoreFacts
  <1>3. /\ rpc[p0] = "hot" /\ asked[p0] # {}
        /\ \/ asked[p0] \subseteq hot /\ result' = [result EXCEPT ![p0] = asked[p0]] /\ rpc' = [rpc EXCEPT ![p0] = "answered"]
           \/ ~ (asked[p0] \subseteq hot) /\ result' = result /\ rpc' = [rpc EXCEPT ![p0] = "cold"]
    BY DEF GetHot, Answer, ReadGoto
  <1>4. ReadShape'
    BY <1>1, <1>2, <1>3 DEF ReadShape
  <1>5. ASSUME NEW e \in Wanted(p0)'
        PROVE  Known(p0, e)'
    <2>1. e \in asked[p0] /\ asked[p0] = {e}
      BY <1>1, <1>3, StillWanted DEF Wanted, ReadShape
    <2>2. CASE asked[p0] \subseteq hot
      BY <1>1, <1>3, <2>1, <2>2 DEF Known, InAnswer, ReadShape
    <2>3. CASE ~ (asked[p0] \subseteq hot)
      BY <1>1, <1>3, <2>1, <2>3 DEF Known, ReadShape
    <2>. QED
      BY <2>2, <2>3
  <1>. QED
    BY <1>1, <1>4, <1>5, ReadStays

LEMMA ListHotKeepsReads ==
  ASSUME NEW p0, Pod = {p0}, MaxLag <= HotFor, ReadInv, ListHot(p0)
  PROVE  ReadInv'
  <1>1. /\ ReadShape /\ UNCHANGED <<vars, cache, asked, plan, got, result, degraded, before>>
        /\ stored' = stored /\ hot' = hot /\ born' = born /\ rpc[p0] = "hot" /\ asked[p0] = {}
    BY DEF ReadInv, ListHot, vars
  <1>2. hot \subseteq stored /\ stored \subseteq Entry /\ IsFiniteSet(hot) /\ \A e \in stored : born[e] \in Nat
    BY StoreFacts
  <1>3. PICK H \in SUBSET hot :
          /\ NewestOf(H, hot, PageSize)
          /\ hotPart' = [hotPart EXCEPT ![p0] = H]
          /\ rpc' = [rpc EXCEPT ![p0] = IF Cardinality(H) = PageSize THEN "peek" ELSE "cold"]
    BY DEF ListHot, ReadGoto
  <1>4. hotPart'[p0] = H /\ rpc'[p0] = (IF Cardinality(H) = PageSize THEN "peek" ELSE "cold")
    BY <1>1, <1>3 DEF ReadShape
  <1>5. ReadShape'
    <2>1. /\ hotPart' \in [Pod -> SUBSET Entry]
          /\ rpc' \in [Pod -> {"free", "hot", "peek", "cold", "files", "answered"}]
      BY <1>1, <1>2, <1>3 DEF ReadShape
    <2>. QED
      BY <1>1, <1>2, <1>4, <2>1 DEF ReadShape
  <1>6. ASSUME NEW e \in hot PROVE e \in H \/ (Cardinality(H) = PageSize /\ \A r \in H : born[r] >= born[e])
    BY <1>2, <1>3, TopBeats, PageAssumption DEF NewestOf
  <1>7. ASSUME NEW e \in Wanted(p0)'
        PROVE  Known(p0, e)'
    BY <1>1, <1>4, <1>6 DEF Known, InHot, Beats
  <1>. QED
    BY <1>1, <1>5, <1>7, ReadStays

LEMMA PeekKeepsReads ==
  ASSUME NEW p0, Pod = {p0}, MaxLag <= HotFor, ReadInv, Peek(p0)
  PROVE  ReadInv'
  <1>1. /\ ReadShape /\ UNCHANGED <<vars, asked, hotPart, plan, got, degraded, before>>
        /\ stored' = stored /\ hot' = hot /\ born' = born /\ rpc[p0] = "peek"
    BY DEF ReadInv, Peek, vars
  <1>2. asked[p0] = {} /\ Cardinality(hotPart[p0]) = PageSize /\ hotPart[p0] \subseteq stored
    BY <1>1 DEF ReadShape
  <1>3. PICK L \in SUBSET File :
          /\ Listing(p0, L)
          /\ \/ /\ \A c \in PlanOf(L), e \in hotPart[p0] : c[2] < born[e]
                /\ result' = [result EXCEPT ![p0] = hotPart[p0]] /\ rpc' = [rpc EXCEPT ![p0] = "answered"]
             \/ result' = result /\ rpc' = [rpc EXCEPT ![p0] = "cold"]
    BY DEF Peek, Answer, ReadGoto
  <1>4. cache' = [cache EXCEPT ![p0] = {L}] /\ L \in cache[p0] \cup {Live}
    BY <1>3 DEF Listing
  <1>5. ReadShape'
    BY <1>1, <1>2, <1>3, <1>4 DEF ReadShape
  <1>6. ASSUME NEW e \in Wanted(p0)'
        PROVE  Known(p0, e)'
    <2>1. e \in Wanted(p0) /\ e \in stored /\ ~ Expired(e) /\ born[e] \in Nat
      BY <1>1, StillWanted
    <2>2. InHot(p0, e) \/ e \notin hot
      BY <1>1, <2>1 DEF ReadInv, ReadsKnow, Known
    <2>3. CASE rpc'[p0] = "cold"
      BY <1>1, <2>2, <2>3 DEF Known, InHot, Beats
    <2>4. CASE rpc'[p0] = "answered"
      <3>1. result'[p0] = hotPart[p0] /\ \A c \in PlanOf(L), d \in hotPart[p0] : c[2] < born[d]
        BY <1>1, <1>3, <2>4 DEF ReadShape
      <3>2. InHot(p0, e)
        <4>1. CASE e \notin hot
          <5>1. PICK c \in PlanOf(L) : e \in rows[c[1]]
            BY <1>4, <2>1, <4>1, InListing
          <5>2. c[2] \in Int /\ born[e] <= c[2]
            BY <5>1, CandidatesAreTrue
          <5>3. ASSUME NEW d \in hotPart[p0] PROVE born[d] >= born[e]
            <6>1. c[2] < born[d] /\ born[d] \in Nat
              BY <1>2, <3>1, StoreFacts
            <6>. QED
              BY <2>1, <5>2, <6>1
          <5>. QED
            BY <1>2, <5>3 DEF InHot, Beats
        <4>. QED
          BY <2>2, <4>1
      <3>. QED
        BY <1>1, <1>2, <2>4, <3>1, <3>2 DEF Known, InHot, InAnswer, Beats
    <2>. QED
      BY <1>1, <1>3, <2>3, <2>4 DEF ReadShape
  <1>. QED
    BY <1>1, <1>3, <1>5, <1>6, ReadStays

LEMMA CandidatesKeepReads ==
  ASSUME NEW p0, Pod = {p0}, MaxLag <= HotFor, ReadInv, Candidates(p0)
  PROVE  ReadInv'
  <1>1. /\ ReadShape /\ UNCHANGED <<vars, asked, hotPart, got, result, degraded, before>>
        /\ stored' = stored /\ hot' = hot /\ born' = born /\ rows' = rows /\ rpc[p0] = "cold"
    BY DEF ReadInv, Candidates, vars
  <1>2. PICK L \in SUBSET File : Listing(p0, L) /\ plan' = [plan EXCEPT ![p0] = PlanOf(L)]
    BY DEF Candidates
  <1>3. /\ cache' = [cache EXCEPT ![p0] = {L}] /\ L \in cache[p0] \cup {Live}
        /\ plan'[p0] = PlanOf(L) /\ rpc'[p0] = "files"
    BY <1>1, <1>2 DEF Listing, Candidates, ReadGoto, ReadShape
  <1>4. ReadShape'
    <2>1. /\ rpc' \in [Pod -> {"free", "hot", "peek", "cold", "files", "answered"}]
          /\ cache' \in [Pod -> SUBSET SUBSET File] /\ DOMAIN plan' = Pod
      BY <1>1, <1>2, <1>3 DEF ReadShape, Candidates, ReadGoto
    <2>. QED
      BY <1>1, <1>3, <2>1 DEF ReadShape
  <1>5. ASSUME NEW e \in Wanted(p0)'
        PROVE  Known(p0, e)'
    <2>1. e \in Wanted(p0) /\ e \in stored /\ ~ Expired(e)
      BY <1>1, StillWanted
    <2>2. InHot(p0, e) \/ e \notin hot
      BY <1>1, <2>1 DEF ReadInv, ReadsKnow, Known
    <2>3. e \notin hot => \E c \in PlanOf(L) : e \in rows[c[1]]
      BY <1>3, <2>1, InListing
    <2>. QED
      BY <1>1, <1>3, <2>2, <2>3 DEF Known, InHot, InCold, Beats
  <1>. QED
    BY <1>1, <1>2, <1>3, <1>4, <1>5, ReadStays

LEMMA ReadFileKeepsReads ==
  ASSUME NEW p0, Pod = {p0}, MaxLag <= HotFor, ReadInv, ReadFile(p0)
  PROVE  ReadInv'
  <1>1. /\ ReadShape /\ UNCHANGED <<vars, cache, rpc, asked, hotPart, result, degraded, before>>
        /\ stored' = stored /\ hot' = hot /\ born' = born /\ rows' = rows /\ rpc[p0] = "files"
        /\ ~ Settled(p0)
    BY DEF ReadInv, ReadFile, vars
  <1>2. PICK c \in plan[p0] :
          LET wanted == IF asked[p0] = {} THEN rows[c[1]] ELSE rows[c[1]] \cap asked[p0]
              read == got[p0] \cup (wanted \X {c[1]})
          IN  /\ plan' = [plan EXCEPT ![p0] = plan[p0] \ {c}]
              /\ \E K \in SUBSET read :
                   /\ Newest(K, read, IF asked[p0] = {} THEN PageSize ELSE 1)
                   /\ got' = [got EXCEPT ![p0] = K]
    BY DEF ReadFile
  <1>3. PICK wanted : wanted = IF asked[p0] = {} THEN rows[c[1]] ELSE rows[c[1]] \cap asked[p0]
    OBVIOUS
  <1>4. PICK read : read = got[p0] \cup (wanted \X {c[1]})
    OBVIOUS
  <1>5. PICK n : n = IF asked[p0] = {} THEN PageSize ELSE 1
    OBVIOUS
  <1>6. PICK K \in SUBSET read : Newest(K, read, n) /\ got' = [got EXCEPT ![p0] = K]
    BY <1>2, <1>3, <1>4, <1>5
  <1>7. plan'[p0] = plan[p0] \ {c} /\ got'[p0] = K /\ n \in Nat \ {0}
    BY <1>1, <1>2, <1>5, <1>6, PageAssumption DEF ReadShape
  <1>8. c[1] \in File /\ rows[c[1]] \subseteq stored /\ wanted \subseteq stored /\ stored \subseteq Entry
    BY <1>3, StoreFacts DEF ReadInv, PlanIsTrue
  <1>9. read \subseteq stored \X File /\ IsFiniteSet(read) /\ IsFiniteSet(K)
    <2>1. IsFiniteSet(wanted) /\ IsFiniteSet({c[1]})
      BY <1>8, StoreFacts, FS_Singleton
    <2>2. IsFiniteSet(wanted \X {c[1]})
      BY <2>1, FS_Product
    <2>3. IsFiniteSet(got[p0]) /\ got[p0] \subseteq stored \X File
      BY <1>1 DEF ReadShape
    <2>4. IsFiniteSet(read)
      BY <1>4, <2>2, <2>3, FS_Union
    <2>. QED
      BY <1>4, <1>8, <2>3, <2>4, FS_Subset
  <1>10. ReadShape'
    <2>1. got' \in [Pod -> SUBSET (Entry \X File)] /\ DOMAIN plan' = Pod
      BY <1>1, <1>2, <1>6, <1>8, <1>9 DEF ReadShape
    <2>2. asked[p0] # {} => \A r \in K : r[1] \in asked[p0]
      BY <1>1, <1>3, <1>4 DEF ReadShape
    <2>. QED
      BY <1>1, <1>7, <1>9, <2>1, <2>2 DEF ReadShape
  <1>11. DEFINE b == [r \in read |-> born[r[1]]]
  <1>12. /\ \A e \in read \ K : Cardinality(K) = n /\ \A k \in K : b[k] >= b[e]
         /\ \A G \in SUBSET read, x \in Int :
              Cardinality(G) >= n /\ (\A g \in G : b[g] >= x) =>
                Cardinality(K) = n /\ \A k \in K : b[k] >= x
    <2>1. \A d \in read : b[d] \in Int
      BY <1>9, StoreFacts
    <2>2. /\ Cardinality(K) = (IF Cardinality(read) < n THEN Cardinality(read) ELSE n)
          /\ \A k \in K, d \in read \ K : b[k] >= b[d]
      BY <1>6 DEF Newest
    <2>. HIDE DEF b
    <2>. QED
      BY <1>7, <1>9, <2>1, <2>2, TopBeats
  <1>13. ASSUME NEW e \in Wanted(p0)'
         PROVE  Known(p0, e)'
    <2>1. e \in Wanted(p0) /\ e \in stored /\ born[e] \in Int
      BY <1>1, StillWanted
    <2>2. InHot(p0, e) \/ InCold(p0, e)
      BY <1>1, <2>1 DEF ReadInv, ReadsKnow, Known
    <2>3. InHot(p0, e)' = InHot(p0, e)
      BY <1>1 DEF InHot, Beats
    <2>4. ASSUME InCold(p0, e)
          PROVE  InCold(p0, e)'
      <3>1. CASE \E d \in plan[p0] : d # c /\ e \in rows[d[1]]
        BY <1>1, <1>7, <2>4, <3>1 DEF InCold
      <3>2. CASE \E r \in read : r[1] = e
        <4>1. PICK r \in read : r[1] = e
          BY <3>2
        <4>2. CASE asked[p0] = {}
          <5>1. r \in K \/ RowsBeat(K, e)
            BY <1>5, <1>12, <4>1, <4>2 DEF RowsBeat
          <5>. QED
            BY <1>1, <1>7, <2>4, <4>1, <5>1 DEF InCold, RowsBeat
        <4>3. CASE asked[p0] # {}
          <5>1. K # {}
            <6>1. r \in K \/ Cardinality(K) = 1
              BY <1>5, <1>12, <4>1, <4>3
            <6>. QED
              BY <6>1, FS_EmptySet
          <5>2. asked[p0] = {e} /\ \A k \in K : k[1] = e
            BY <1>1, <1>3, <1>4, <2>1, <4>3 DEF ReadShape, Wanted
          <5>. QED
            BY <1>1, <1>7, <2>4, <5>1, <5>2 DEF InCold
        <4>. QED
          BY <4>2, <4>3
      <3>3. CASE RowsBeat(got[p0], e)
        <4>1. asked[p0] = {}
          <5>1. got[p0] # {}
            BY <3>3, FS_EmptySet, PageAssumption DEF RowsBeat
          <5>. QED
            BY <1>1, <5>1 DEF Settled
        <4>2. n = PageSize /\ got[p0] \in SUBSET read
          BY <1>4, <1>5, <4>1
        <4>3. Cardinality(K) = n /\ \A k \in K : born[k[1]] >= born[e]
          <5>1. \A g \in got[p0] : b[g] >= born[e]
            BY <3>3, <4>2 DEF RowsBeat
          <5>2. Cardinality(got[p0]) >= n
            BY <1>7, <3>3, <4>2 DEF RowsBeat
          <5>3. Cardinality(K) = n /\ \A k \in K : b[k] >= born[e]
            <6>. HIDE DEF b
            <6>. QED
              BY <1>12, <2>1, <4>2, <5>1, <5>2
          <5>. QED
            BY <5>3
        <4>. QED
          BY <1>1, <1>7, <2>4, <4>2, <4>3 DEF InCold, RowsBeat
      <3>4. CASE e \in rows[c[1]]
        <4>1. e \in wanted
          BY <1>3, <2>1, <3>4 DEF Wanted
        <4>2. <<e, c[1]>> \in read
          BY <1>4, <4>1
        <4>. QED
          BY <3>2, <4>2
      <3>. QED
        BY <1>4, <2>4, <3>1, <3>2, <3>3, <3>4 DEF InCold
    <2>. QED
      BY <1>1, <2>2, <2>3, <2>4 DEF Known
  <1>. QED
    BY <1>1, <1>7, <1>10, <1>13, ReadStays

\* A page's rows, none of them twice, are as many entries.
LEMMA RowsAreEntries ==
  ASSUME NEW G, IsFiniteSet(G), \A r, s \in G : r[1] = s[1] => r = s
  PROVE  Cardinality({r[1] : r \in G}) = Cardinality(G) /\ IsFiniteSet({r[1] : r \in G})
  <1>. DEFINE f == [r \in G |-> r[1]]
              T == {r[1] : r \in G}
  <1>1. f \in Surjection(G, T)
    BY DEF Surjection
  <1>2. f \in Injection(G, T)
    BY DEF Injection, IsInjective
  <1>. QED
    BY <1>1, <1>2, FS_Surjection

LEMMA FinishKeepsReads ==
  ASSUME NEW p0, Pod = {p0}, MaxLag <= HotFor, ReadInv, Finish(p0)
  PROVE  ReadInv'
  <1>1. /\ ReadShape /\ UNCHANGED <<vars, cache, asked, hotPart, plan, got, degraded, before>>
        /\ stored' = stored /\ hot' = hot /\ born' = born /\ rpc[p0] = "files" /\ Settled(p0)
    BY DEF ReadInv, Finish, vars
  <1>2. PICK firsts : firsts = {r[1] : r \in got[p0]}
    OBVIOUS
  <1>3. PICK all : all = hotPart[p0] \cup firsts
    OBVIOUS
  <1>4. PICK R \in SUBSET all : NewestOf(R, all, PageSize) /\ result' = [result EXCEPT ![p0] = R]
    BY <1>2, <1>3 DEF Finish, Answer
  <1>5. result'[p0] = R /\ rpc'[p0] = "answered" /\ rpc' = [rpc EXCEPT ![p0] = "answered"]
    BY <1>1, <1>4 DEF ReadShape, Finish, Answer, ReadGoto
  <1>6. /\ all \subseteq stored /\ stored \subseteq Entry /\ IsFiniteSet(all)
        /\ \A e \in stored : born[e] \in Int
    BY <1>1, <1>2, <1>3, StoreFacts DEF ReadShape
  <1>7. ReadShape'
    BY <1>1, <1>4, <1>5, <1>6 DEF ReadShape
  <1>8. /\ \A e \in all \ R : Beats(R, e)
        /\ \A G \in SUBSET all, e \in stored :
             Cardinality(G) >= PageSize /\ (\A g \in G : born[g] >= born[e]) => Beats(R, e)
    <2>1. /\ \A e \in all \ R : Cardinality(R) = PageSize /\ \A r \in R : born[r] >= born[e]
          /\ \A G \in SUBSET all, x \in Int :
               Cardinality(G) >= PageSize /\ (\A g \in G : born[g] >= x) =>
                 Cardinality(R) = PageSize /\ \A r \in R : born[r] >= x
      BY <1>4, <1>6, PageAssumption, TopBeats DEF NewestOf
    <2>. QED
      BY <1>6, <2>1 DEF Beats
  <1>9. ASSUME NEW e \in Wanted(p0)', asked[p0] # {} \/ ~ ReadTwice(p0)
        PROVE  e \in R \/ (asked[p0] = {} /\ Beats(R, e))
    <2>1. e \in Wanted(p0) /\ e \in stored /\ born[e] \in Int
      BY <1>1, StillWanted
    <2>2. InHot(p0, e) \/ InCold(p0, e)
      BY <1>1, <2>1 DEF ReadInv, ReadsKnow, Known
    <2>3. e \in all => e \in R \/ Beats(R, e)
      BY <1>8
    <2>4. CASE asked[p0] # {}
      <3>1. asked[p0] = {e} /\ hotPart[p0] = {} /\ \A r \in got[p0] : r[1] = e
        BY <1>1, <2>1, <2>4 DEF ReadShape, Wanted
      <3>2. ~ InHot(p0, e)
        BY <3>1, FS_EmptySet, PageAssumption DEF InHot, Beats
      <3>3. got[p0] # {}
        <4>1. RowsBeat(got[p0], e) => got[p0] # {}
          BY FS_EmptySet, PageAssumption DEF RowsBeat
        <4>2. plan[p0] = {} \/ got[p0] # {}
          BY <1>1, <2>4 DEF Settled, Full
        <4>. QED
          BY <2>2, <3>2, <4>1, <4>2 DEF InCold
      <3>4. e \in all /\ \A d \in all : d = e
        BY <1>2, <1>3, <3>1, <3>3
      <3>5. e \notin R => Cardinality(R) = PageSize /\ R = {}
        BY <1>4, <2>3, <3>4 DEF Beats
      <3>. QED
        BY <3>5, FS_EmptySet, PageAssumption
    <2>5. CASE asked[p0] = {} /\ ~ ReadTwice(p0)
      <3>1. IsFiniteSet(got[p0]) /\ Cardinality(firsts) = Cardinality(got[p0])
        <4>1. \A r, s \in got[p0] : r[1] = s[1] => r = s
          BY <2>5 DEF ReadTwice
        <4>2. IsFiniteSet(got[p0])
          BY <1>1 DEF ReadShape
        <4>. QED
          BY <1>2, <4>1, <4>2, RowsAreEntries
      <3>2. Cardinality(got[p0]) >= PageSize /\ (\A r \in got[p0] : born[r[1]] >= born[e]) => Beats(R, e)
        <4>1. firsts \in SUBSET all
          BY <1>3
        <4>2. (\A r \in got[p0] : born[r[1]] >= born[e]) => \A g \in firsts : born[g] >= born[e]
          BY <1>2
        <4>. QED
          BY <1>8, <2>1, <3>1, <4>1, <4>2
      <3>3. CASE InHot(p0, e)
        <4>1. hotPart[p0] \in SUBSET all
          BY <1>3
        <4>2. Beats(hotPart[p0], e) => Beats(R, e)
          BY <1>8, <2>1, <4>1, PageAssumption DEF Beats
        <4>. QED
          BY <1>3, <2>3, <2>5, <3>3, <4>2 DEF InHot
      <3>4. CASE \E r \in got[p0] : r[1] = e
        BY <1>2, <1>3, <2>3, <2>5, <3>4
      <3>5. CASE RowsBeat(got[p0], e)
        BY <2>5, <3>2, <3>5, PageAssumption DEF RowsBeat
      <3>6. CASE \E c \in plan[p0] : e \in rows[c[1]]
        <4>1. PICK c \in plan[p0] : e \in rows[c[1]]
          BY <3>6
        <4>2. c[2] \in Int /\ born[e] <= c[2]
          BY <4>1 DEF ReadInv, PlanIsTrue
        <4>3. Cardinality(got[p0]) >= PageSize /\ \A r \in got[p0] : c[2] < born[r[1]]
          BY <1>1, <2>5, <4>1 DEF Settled, Full
        <4>4. ASSUME NEW r \in got[p0] PROVE born[r[1]] >= born[e]
          <5>1. born[r[1]] \in Int
            BY <1>2, <1>3, <1>6
          <5>. QED
            BY <2>1, <4>2, <4>3, <5>1
        <4>. QED
          BY <2>5, <3>2, <4>3, <4>4
      <3>. QED
        BY <2>2, <3>3, <3>4, <3>5, <3>6 DEF InCold
    <2>. QED
      BY <1>9, <2>4, <2>5
  <1>10. ASSUME NEW e \in Wanted(p0)'
         PROVE  Known(p0, e)'
    <2>1. ReadTwice(p0)' = ReadTwice(p0)
      BY <1>1 DEF ReadTwice
    <2>. QED
      BY <1>1, <1>5, <1>9, <2>1 DEF Known, InAnswer, Beats
  <1>. QED
    BY <1>1, <1>7, <1>10, ReadStays

\* Without the cold tier the hot part is the answer, and who is not in it is not hot.
LEMMA ColdFailsKeepsReads ==
  ASSUME NEW p0, Pod = {p0}, MaxLag <= HotFor, ReadInv, ColdFails(p0)
  PROVE  ReadInv'
  <1>1. /\ ReadShape /\ UNCHANGED <<vars, asked, hotPart, before>> /\ stored' = stored /\ hot' = hot
        /\ born' = born /\ rpc[p0] \in {"peek", "cold", "files"}
    BY DEF ReadInv, ColdFails, vars
  <1>2. /\ result'[p0] = hotPart[p0] /\ rpc'[p0] = "answered" /\ plan'[p0] = {} /\ got'[p0] = {} /\ degraded'[p0]
    BY <1>1 DEF ColdFails, Answer, ReadGoto, ReadShape
  <1>3. \/ cache' = cache \/ cache' = [cache EXCEPT ![p0] = {}]
        \/ \E L \in SUBSET File : Listing(p0, L)
    BY DEF ColdFails
  <1>4. ReadShape'
    <2>1. cache' \in [Pod -> SUBSET SUBSET File]
      BY <1>1, <1>3 DEF ReadShape, Listing
    <2>2. /\ result' \in [Pod -> SUBSET Entry] /\ got' \in [Pod -> SUBSET (Entry \X File)]
          /\ DOMAIN plan' = Pod /\ degraded' \in [Pod -> BOOLEAN]
          /\ rpc' \in [Pod -> {"free", "hot", "peek", "cold", "files", "answered"}]
      BY <1>1 DEF ReadShape, ColdFails, Answer, ReadGoto
    <2>3. IsFiniteSet(got'[p0]) /\ got'[p0] \subseteq stored' \X File
      BY <1>2, FS_EmptySet
    <2>4. \A p \in Pod : p = p0
      OBVIOUS
    <2>. QED
      BY <1>1, <1>2, <2>1, <2>2, <2>3, <2>4 DEF ReadShape
  <1>5. ASSUME NEW e \in Wanted(p0)'
        PROVE  Known(p0, e)'
    <2>1. e \in Wanted(p0)
      BY <1>1, StillWanted
    <2>2. InHot(p0, e) \/ e \notin hot
      BY <1>1, <2>1 DEF ReadInv, ReadsKnow, Known, InCold
    <2>3. CASE e \notin hot
      BY <1>1, <1>2, <2>3 DEF Known, OutOfReach
    <2>4. CASE InHot(p0, e)
      <3>1. asked[p0] # {} => ~ InHot(p0, e)
        BY <1>1, FS_EmptySet, PageAssumption DEF ReadShape, InHot, Beats
      <3>. QED
        BY <1>1, <1>2, <2>4, <3>1 DEF Known, InHot, InAnswer, Beats
    <2>. QED
      BY <2>2, <2>3, <2>4
  <1>. QED
    BY <1>1, <1>2, <1>3, <1>4, <1>5, ReadStays

-----------------------------------------------------------------------------
LEMMA ReadInvInit == ReadInit => ReadInv
  <1> SUFFICES ASSUME ReadInit
               PROVE  ReadInv
    OBVIOUS
  <1>1. Inv
    BY InvInit DEF ReadInit
  <1>2. MoveIsInHot /\ NoCompaction /\ IsFiniteSet(recorded) /\ CacheKnows
    BY FS_EmptySet DEF ReadInit, Init, MoveIsInHot, NoCompaction, RowsOf, CacheKnows
  <1>3. ReadShape
    BY FS_EmptySet DEF ReadInit, ReadShape
  <1>4. PlanIsTrue /\ ReadsKnow
    BY DEF ReadInit, PlanIsTrue, ReadsKnow, Known
  <1>. QED
    BY <1>1, <1>2, <1>3, <1>4 DEF ReadInv

LEMMA ReadInvStep ==
  ASSUME NEW p0, Pod = {p0}, ~ Compact, MaxLag <= HotFor, ReadInv, [ReadNext]_allVars
  PROVE  ReadInv'
  <1>1. CASE UNCHANGED allVars
    <2>1. UNCHANGED vars /\ cache' = cache /\ plan' = plan /\ stored' = stored /\ born' = born /\ hot' = hot
          /\ rows' = rows /\ now' = now
          /\ UNCHANGED <<rpc, asked, hotPart, got, result, degraded, before>>
      BY <1>1 DEF allVars, vars, readVars
    <2>2. ReadShape'
      BY <2>1 DEF ReadInv, ReadShape
    <2>3. ASSUME NEW e \in Wanted(p0)' PROVE Known(p0, e)'
      <3>1. e \in Wanted(p0)
        BY <2>1, <2>3 DEF Wanted, Expired
      <3>2. Known(p0, e)
        BY <3>1 DEF ReadInv, ReadsKnow
      <3>. QED
        BY <2>1, <3>2 DEF Known, InHot, InCold, InAnswer, OutOfReach, Beats, RowsBeat, ReadTwice
    <2>. QED
      BY <2>1, <2>2, <2>3, ReadStays
  <1>2. CASE ReadNext
    <2>1. NamesStayUnique /\ (Arrivals \/ Cycle(p0) \/ CycleFails(p0) \/ PodCrash(p0) \/ Read(p0))
      BY <1>2 DEF ReadNext
    <2>2. CASE Arrivals \/ Cycle(p0) \/ CycleFails(p0)
      BY <2>1, <2>2, CycleKeepsReads
    <2>3. CASE PodCrash(p0)
      BY <2>3, CrashKeepsReads
    <2>4. CASE Read(p0)
      BY <2>4, AskKeepsReads, GetHotKeepsReads, ListHotKeepsReads, PeekKeepsReads, CandidatesKeepReads,
         ReadFileKeepsReads, FinishKeepsReads, ColdFailsKeepsReads, ReturnKeepsReads DEF Read
    <2>. QED
      BY <2>1, <2>2, <2>3, <2>4
  <1>. QED
    BY <1>1, <1>2

\* In one pod that does not compact every lookup finds the entry that was there when it began
\* and is not past retention, at whatever awaits moves, failures and crashes meet the read;
\* only when the cold tier itself failed is an entry that had left the hot store missed.
THEOREM LookupsFindLive ==
  ASSUME NEW p0, Pod = {p0}, ~ Compact, MaxLag <= HotFor
  PROVE  ReadSpec => []LookupFindsLive
<1>1. ReadInv /\ [ReadNext]_allVars => ReadInv'
  BY ReadInvStep
<1>2. ReadInv => LookupFindsLive
  BY DEF ReadInv, ReadsKnow, Known, Wanted, InAnswer, OutOfReach, LookupFindsLive
<1>. QED
  BY <1>1, <1>2, ReadInvInit, PTL DEF ReadSpec

\* And every page is the newest of the union of the tiers, of the hot store alone when the cold
\* one failed, unless its cold rows were cut with an entry among them twice.
THEOREM PagesAreNewest ==
  ASSUME NEW p0, Pod = {p0}, ~ Compact, MaxLag <= HotFor
  PROVE  ReadSpec => []PageIsNewest
<1>1. ReadInv /\ [ReadNext]_allVars => ReadInv'
  BY ReadInvStep
<1>2. ReadInv => PageIsNewest
  BY DEF ReadInv, ReadsKnow, Known, Wanted, InAnswer, OutOfReach, Beats, PageIsNewest, NewestPage
<1>. QED
  BY <1>1, <1>2, ReadInvInit, PTL DEF ReadSpec
=============================================================================

------------------------------ MODULE SqlStore ------------------------------
(***************************************************************************)
(* The parts of the SQL store side by side: its writes and deletes, how its *)
(* table comes into being, and what it reads for the dashboard.  Each has   *)
(* the table from its own side, so a behaviour exercises one of them and    *)
(* the others stay as they began.                                          *)
(***************************************************************************)
EXTENDS LucidStore, LucidSchema, SqlReads

VARIABLE part  \* the part that this behaviour exercises

sqlStoreVars == <<part, vars, schemaVars, sqlVars>>

\* The parts a behaviour leaves alone begin in one way.
StoreInit ==
  /\ part \in {"writes", "schema", "reads"}
  /\ Init /\ SchemaInit /\ SqlInit
  /\ part = "writes" \/ owner = [e \in Entry |-> CHOOSE p \in Pod : TRUE]
  /\ part = "schema" \/ /\ dialect = "other"
                        /\ boot = [p \in Booter |-> Asleep("creates", LowestRelease)]
  /\ part = "reads" \/ Shelf = {}

Writing == part = "writes" /\ Next /\ UNCHANGED <<part, schemaVars, sqlVars>>
Booting == part = "schema" /\ SchemaNext /\ UNCHANGED <<part, vars, sqlVars>>
Counting == part = "reads" /\ SqlNext /\ UNCHANGED <<part, vars, schemaVars>>

StoreNext == Writing \/ Booting \/ Counting

StoreSpec == StoreInit /\ [][StoreNext]_sqlStoreVars

-----------------------------------------------------------------------------
(* Properties                                                              *)

\* An initialisation that failed does not fail later calls for ever (init), and what it did to
\* the database stands: whichever processes and releases boot together, lose a race or fail
\* half-way, the marker never speaks for a table or an index that is not there (reconcileSchema,
\* runIdempotentDdl).
InitIsSound ==
  [][/\ SchemaIsInPlace'
     /\ \A e \in Entry :
          call[e] = "none" /\ call'[e] = "failed" => now - failedAt[owner[e]] < RetryDelay]_sqlStoreVars
=============================================================================

---------------------------- MODULE LucidSchema ----------------------------
(***************************************************************************)
(* How the processes of a deployment bring the table of the SQL store into  *)
(* being: a marker row tells that the statements of a schema ran; whoever  *)
(* finds another marker runs them, statement by statement, against others  *)
(* that do the same.  "IF NOT EXISTS" is not atomic: a statement that saw   *)
(* nothing may fail on what another process committed meanwhile.           *)
(*                                                                         *)
(*   idle -> issue <-> commit -> ... -> read -> (issue <-> commit ...)      *)
(*        -> unmark -> mark -> seed -> ready;   failed -> issue             *)
(***************************************************************************)
EXTENDS Integers, Sequences, FiniteSets

CONSTANTS Booter,      \* the processes that boot
          Schema,      \* fingerprint -> the objects its statements create, the table first
          Attempts     \* DDL_RACE_ATTEMPTS

ASSUME SchemaAssumption ==
  /\ DOMAIN Schema \subseteq Nat \ {0} /\ Attempts \in Nat \ {0}
  /\ \A v \in DOMAIN Schema : Schema[v] \in Seq(STRING) /\ Schema[v] # <<>> /\ Schema[v][1] = "table"

VARIABLES dialect,  \* mysql, whose CREATE INDEX has no IF NOT EXISTS, or another
          objects,  \* what is in the database
          marker,   \* the fingerprint in the marker row, or 0
          boot,     \* process -> how far its initialisation is
          rolledBack  \* history: the table was dropped, as the migration's down() does

schemaVars == <<dialect, objects, marker, boot, rolledBack>>

LowestRelease == CHOOSE v \in DOMAIN Schema : \A w \in DOMAIN Schema : v <= w
ObjectsOf(v) == {Schema[v][i] : i \in DOMAIN Schema[v]}
Asleep(how, v) == [how |-> how, schema |-> v, step |-> "idle", at |-> 0, attempt |-> 1, why |-> "none"]

\* A process creates its table, leaves that to a migration, or is a script that only creates it.
SchemaInit ==
  /\ dialect \in {"mysql", "other"} /\ objects = {} /\ marker = 0 /\ rolledBack = FALSE
  /\ boot \in [Booter -> {Asleep(how, v) : how \in {"creates", "migrated", "script"}, v \in DOMAIN Schema}]

Goes(p, b) == boot' = [boot EXCEPT ![p] = b]
At0(p, step) == boot[p].step = step
To(p, step) == [boot[p] EXCEPT !.step = step]
Fails(p, why) == Goes(p, [boot[p] EXCEPT !.step = "failed", !.why = why])

\* The statement under way: the marker table's, then those of the schema.
Object(p) == IF boot[p].at = 0 THEN "meta" ELSE Schema[boot[p].schema][boot[p].at]
Statement(p, n) == [boot[p] EXCEPT !.step = "issue", !.at = n, !.attempt = 1]

\* init(), doInit(): at first use, and again some time after it failed.
SchemaBegins(p) ==
  /\ boot[p].step \in {"idle", "failed"}
  /\ Goes(p, CASE boot[p].how = "creates" -> [Statement(p, 0) EXCEPT !.why = "none"]
               [] boot[p].how = "migrated" -> [To(p, "seed") EXCEPT !.why = "none"]
               [] boot[p].how = "script" -> [Statement(p, 1) EXCEPT !.why = "none"])
  /\ UNCHANGED <<dialect, objects, marker, rolledBack>>

\* runTableStatements(): the next statement, or what follows the last.
After(p) ==
  IF boot[p].at = 0 THEN To(p, "read")
  ELSE IF boot[p].at < Len(Schema[boot[p].schema]) THEN Statement(p, boot[p].at + 1)
  ELSE IF boot[p].how = "script" THEN To(p, "ready") ELSE To(p, "unmark")

\* A statement looks whether its object is there: nothing to do, or ER_DUP_KEYNAME of MySQL.
Issues(p) ==
  /\ At0(p, "issue")
  /\ Goes(p, IF Object(p) \in objects THEN After(p) ELSE To(p, "commit"))
  /\ UNCHANGED <<dialect, objects, marker, rolledBack>>

Index(p) == Object(p) \notin {"meta", "table"}

\* Mutant: a lost race is an error like any other.
LostNotRetried(p) == Fails(p, "race")

\* runIdempotentDdl(): a lost race is issued again, a number of times.
Lost(p) ==
  IF boot[p].attempt < Attempts
  THEN Goes(p, [boot[p] EXCEPT !.step = "issue", !.attempt = @ + 1]) ELSE Fails(p, "race")

\* It takes effect; or the object came in between, and an index needs its table.
Commits(p) ==
  /\ At0(p, "commit")
  /\ IF Object(p) \in objects
     THEN /\ UNCHANGED objects
          /\ IF dialect = "mysql" /\ Index(p) THEN Goes(p, After(p)) ELSE Lost(p)
     ELSE IF Index(p) /\ "table" \notin objects
     THEN Fails(p, "no table") /\ UNCHANGED objects
     ELSE objects' = objects \cup {Object(p)} /\ Goes(p, After(p))
  /\ UNCHANGED <<dialect, marker, rolledBack>>

\* Mutant: the marker is written before the statements it stands for.
ReadsMarking(p) ==
  /\ At0(p, "read")
  /\ marker' = boot[p].schema
  /\ Goes(p, IF marker = boot[p].schema THEN To(p, "seed") ELSE Statement(p, 1))
  /\ UNCHANGED <<dialect, objects, rolledBack>>

\* reconcileSchema(): the same fingerprint spares the statements.
ReadsMarker(p) ==
  /\ At0(p, "read")
  /\ Goes(p, IF marker = boot[p].schema THEN To(p, "seed") ELSE Statement(p, 1))
  /\ UNCHANGED <<dialect, objects, marker, rolledBack>>

\* writeStoredFingerprint(): a delete and an insert; the row of another stands.
Unmarks(p) ==
  /\ At0(p, "unmark")
  /\ marker' = 0 /\ Goes(p, To(p, "mark"))
  /\ UNCHANGED <<dialect, objects, rolledBack>>

Marks(p) ==
  /\ At0(p, "mark")
  /\ marker' = (IF marker = 0 THEN boot[p].schema ELSE marker) /\ Goes(p, To(p, "seed"))
  /\ UNCHANGED <<dialect, objects, rolledBack>>

\* doInit(): the sequence is read from the table.
Seeds(p) ==
  /\ At0(p, "seed")
  /\ IF "table" \in objects THEN Goes(p, To(p, "ready")) ELSE Fails(p, "no table")
  /\ UNCHANGED <<dialect, objects, marker, rolledBack>>

\* A call is answered with an error; the database may have done what it was asked.
DatabaseFails(p) ==
  /\ boot[p].step \notin {"idle", "ready", "failed"}
  /\ Fails(p, "database")
  /\ \/ UNCHANGED <<objects, marker>>
     \/ /\ At0(p, "commit") /\ (Index(p) => "table" \in objects)
        /\ objects' = objects \cup {Object(p)} /\ UNCHANGED marker
     \/ At0(p, "unmark") /\ marker' = 0 /\ UNCHANGED objects
     \/ At0(p, "mark") /\ marker = 0 /\ marker' = boot[p].schema /\ UNCHANGED objects
  /\ UNCHANGED <<dialect, rolledBack>>

\* The process ends and comes back, with this or another release.
Reboots(p) ==
  /\ ~ At0(p, "idle")
  /\ \E v \in DOMAIN Schema : Goes(p, Asleep(boot[p].how, v))
  /\ UNCHANGED <<dialect, objects, marker, rolledBack>>

\* down() of the migration drops the table with its indexes, and leaves the marker.
RollsBack ==
  /\ "table" \in objects /\ ~ rolledBack
  /\ objects' = objects \cap {"meta"} /\ rolledBack' = TRUE
  /\ UNCHANGED <<dialect, marker, boot>>

\* up() of the migration: the table, and its indexes under names of their own.
Migrates ==
  /\ "table" \notin objects
  /\ objects' = objects \cup {"table"}
  /\ UNCHANGED <<dialect, marker, boot, rolledBack>>

SchemaNext ==
  \/ \E p \in Booter : \/ SchemaBegins(p) \/ Issues(p) \/ Commits(p) \/ ReadsMarker(p)
                       \/ Unmarks(p) \/ Marks(p) \/ Seeds(p) \/ DatabaseFails(p) \/ Reboots(p)
  \/ RollsBack \/ Migrates

-----------------------------------------------------------------------------
(* Properties                                                              *)

\* The marker and the schema, as long as nobody drops the table.  What the marker stands for
\* is in place, whichever processes of whichever releases boot, fail and restart together; a
\* store that is ready has the objects of its release, those it left to a migration at least
\* the table; and losing a race never fails an initialisation: it fails only with the database,
\* or when a migration it relies on has not run (reconcileSchema, runIdempotentDdl).
SchemaIsInPlace ==
  /\ ~ rolledBack =>
       /\ marker # 0 => ObjectsOf(marker) \subseteq objects
       /\ \A p \in Booter : At0(p, "ready") =>
            (IF boot[p].how = "migrated" THEN {"table"} ELSE ObjectsOf(boot[p].schema)) \subseteq objects
       /\ \A p \in Booter : boot[p].why = "no table" => boot[p].how = "migrated"
  /\ \A p \in Booter : boot[p].why # "race"
=============================================================================

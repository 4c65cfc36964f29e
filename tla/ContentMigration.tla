---------------------------- MODULE ContentMigration ----------------------------
(* Migration 0002 of the episode log: uniqueness by content and moment becomes    *)
(* uniqueness by content, after the rows that stand in the way are deleted.  The  *)
(* table of the real database is fed the same uploads as a log that had the new   *)
(* constraint from its first row, the log of EpisodeLog.  A migration is one      *)
(* transaction: SQLite rolls back schema and rows together.                       *)
EXTENDS EpisodeLog

VARIABLES table,    \* the rows of gpodsync_episodeactionrecord, whatever its schema
          schema    \* the constraint in force: "moment" of 0001 or "content" of 0002

migrationVars == <<episodeVars, table, schema>>

(* one_row_per_reported_moment: who reported what, and when.                      *)
SameReport(r, q) == SameContent(r, q) /\ r.at = q.at

Conflict(r, q) == IF schema = "content" THEN SameContent(r, q) ELSE SameReport(r, q)

(* INSERT OR IGNORE under the constraint in force.                                *)
Inserted(u, batch, importing, now) ==
  LET rec(i) == RecordOf(u, batch[i], lastId + i, importing, now)
  IN  {rec(i) : i \in {k \in DOMAIN batch :
                         /\ \A r \in table : ~Conflict(r, rec(k))
                         /\ \A j \in DOMAIN batch : j < k => ~Conflict(rec(j), rec(k))}}

Report(u, batch, importing, now) ==
  /\ Upload(u, batch, importing, now)
  /\ table' = table \cup Inserted(u, batch, importing, now)
  /\ UNCHANGED schema

RefusedReport(u, batch) ==
  RefusedUpload(u, batch) /\ UNCHANGED <<table, schema>>

(* Mutants: the last report of a content is kept; rows are compared with the one   *)
(* before them; the account is not in the key.                                    *)
SurplusButLast == {r \in table : \E q \in table : q.id > r.id /\ SameContent(q, r)}
SurplusOfNeighbours ==
  {r \in table : \E q \in table : q.id + 1 = r.id /\ SameContent(q, r)}
SurplusAnyUser ==
  {r \in table : \E q \in table : q.id < r.id /\ q.group = r.group /\ q.content = r.content}

(* dedupe_content_duplicates: in the order of ids, every row whose key was seen.  *)
Surplus == {r \in table : \E q \in table : q.id < r.id /\ SameContent(q, r)}

Migrate ==
  /\ schema = "moment"
  /\ table' = table \ Surplus
  /\ schema' = "content"
  /\ UNCHANGED episodeVars

(* The way back changes the schema and, "a deliberate noop", no row.              *)
MigrateBack ==
  /\ schema = "content"
  /\ schema' = "moment"
  /\ UNCHANGED <<episodeVars, table>>

MigrationInit == Init /\ table = {} /\ schema = "moment"

MigrationNext ==
  \/ Migrate
  \/ MigrateBack
  \/ \E u \in Users, batch \in Batches :
       \/ \E importing \in BOOLEAN, now \in Times : Report(u, batch, importing, now)
       \/ RefusedReport(u, batch)

MigrationSpec == MigrationInit /\ [][MigrationNext]_migrationVars

(* --------------------------------- properties ---------------------------------- *)

(* "The first report sticks ... the same outcome ignore_conflicts produces against *)
(* the new constraint" (0002, dedupe_content_duplicates): a migrated database is   *)
(* the one that would be there had the new constraint been in force all along,     *)
(* ids, moments and all, however often it was migrated and migrated back.          *)
MigratedAsIfAlways == schema = "content" => table = records

(* Both constraints can be added when their migration gets there: no two rows      *)
(* collide under the schema in force ("reverse-migrating the schema never fails"). *)
ConstraintHolds == \A r, q \in table : Conflict(r, q) => r = q

(* "The rows the dedupe deletes were, by definition, redundant re-reports of       *)
(* surviving content" (0002): no step forgets that an account reported something.  *)
Said == {<<r.user, r.group, r.content>> : r \in table}
NothingForgotten == [][Said \subseteq Said']_migrationVars
================================================================================

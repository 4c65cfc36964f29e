------------------------- MODULE ContentMigration_proofs -------------------------
(* Theorems about ContentMigration: for any accounts, reports and order of         *)
(* migrations, a migrated table is the log of the new constraint.                  *)
EXTENDS ContentMigration, EpisodeLog_proofs

(* The table and the log of the new constraint, in step: the log holds the first   *)
(* report of every content in the table, and a migrated table holds nothing else.  *)
Mirrored ==
  /\ records \subseteq table
  /\ table \subseteq Row
  /\ \A r \in table : r.id <= lastId
  /\ \A r \in table : \E q \in records : SameContent(q, r) /\ q.id <= r.id

MigrationInv ==
  /\ LogInv
  /\ Mirrored
  /\ \A r, q \in table : r.id = q.id => r = q
  /\ schema \in {"moment", "content"}
  /\ MigratedAsIfAlways
  /\ ConstraintHolds

(* Having the same content is symmetric and transitive.                            *)
LEMMA SameContentEquivalence ==
  /\ \A r, q : SameContent(r, q) => SameContent(q, r)
  /\ \A r, q, v : SameContent(r, q) /\ SameContent(q, v) => SameContent(r, v)
BY DEF SameContent

(* What the dedupe leaves of a table in step is the log.                           *)
LEMMA DedupeLeavesLog ==
  ASSUME MigrationInv
  PROVE  table \ Surplus = records
<1>1. /\ records \subseteq table
      /\ \A r \in table : r.id \in Nat
      /\ \A r \in table : \E q \in records : SameContent(q, r) /\ q.id <= r.id
      /\ \A r, q \in table : r.id = q.id => r = q
      /\ \A r, q \in records : SameContent(r, q) => r = q
  BY DEF MigrationInv, Mirrored, Row, LogInv
<1>2. ASSUME NEW r \in table \ Surplus
      PROVE  r \in records
  <2>1. PICK q \in records : SameContent(q, r) /\ q.id <= r.id
    BY <1>1
  <2>2. ~(q.id < r.id)
    BY <1>1, <2>1, <1>2 DEF Surplus
  <2>. QED BY <1>1, <2>1, <2>2
<1>3. ASSUME NEW r \in records
      PROVE  r \notin Surplus
  <2>1. SUFFICES ASSUME NEW q \in table, q.id < r.id, SameContent(q, r) PROVE FALSE
    BY DEF Surplus
  <2>2. PICK v \in records : SameContent(v, q) /\ v.id <= q.id
    BY <1>1
  <2>3. v = r
    BY <1>1, <2>1, <2>2, SameContentEquivalence
  <2>. QED BY <1>1, <2>1, <2>2, <2>3
<1>. QED BY <1>1, <1>2, <1>3

(* An accepted report keeps table and log in step.                                 *)
LEMMA ReportKeepsStep ==
  ASSUME MigrationInv, NEW u \in Users, NEW batch \in Batches, NEW importing \in BOOLEAN,
         NEW now \in Times, Report(u, batch, importing, now)
  PROVE  MigrationInv'
<1> DEFINE rec(i) == RecordOf(u, batch[i], lastId + i, importing, now)
           first(k) == \A j \in DOMAIN batch : j < k => ~SameContent(rec(j), rec(k))
           new  == Stored(u, batch, importing, now)
           rows == Inserted(u, batch, importing, now)
<1>1. /\ Upload(u, batch, importing, now) /\ ~NamesBadDevice(batch)
      /\ records' = records \cup new /\ lastId' = lastId + Len(batch)
      /\ table' = table \cup rows /\ schema' = schema
  BY DEF Report, Upload
<1>2. LogInv'
  BY <1>1, UploadKeepsLogInv DEF MigrationInv
<1>3. new = {rec(k) : k \in {k \in DOMAIN batch :
                                (\A r \in records : ~SameContent(r, rec(k))) /\ first(k)}}
  BY DEF Stored
<1>4. rows = {rec(k) : k \in {k \in DOMAIN batch :
                 /\ \A r \in table : ~Conflict(r, rec(k))
                 /\ \A j \in DOMAIN batch : j < k => ~Conflict(rec(j), rec(k))}}
  BY DEF Inserted
<1>5. /\ lastId \in Nat /\ Len(batch) \in Nat /\ DOMAIN batch = 1..Len(batch)
      /\ \A i \in DOMAIN batch : batch[i] \in Entry /\ batch[i].device # BadDevice
  BY <1>1, LimitsAssumption DEF MigrationInv, LogInv, TypeOK, Batches, NamesBadDevice
<1>6. ASSUME NEW i \in DOMAIN batch
      PROVE  rec(i) \in Row /\ rec(i).id = lastId + i
  <2>1. /\ batch[i].group \in Groups /\ batch[i].content \in Contents
        /\ batch[i].device \in DeviceIds \cup {NoDevice}
        /\ batch[i].at \in Times \cup {Unstamped}
    BY <1>5 DEF Entry
  <2>2. lastId + i \in Nat \ {0}
    BY <1>5
  <2>3. rec(i).at \in Times
    BY <2>1, TimesAssumption DEF RecordOf
  <2>. QED BY <2>1, <2>2, <2>3 DEF RecordOf, Row
<1>. HIDE DEF rec, new, rows
<1>7. /\ records \subseteq table /\ table \subseteq Row
      /\ \A r \in table : r.id \in Nat /\ r.id <= lastId
      /\ \A r \in table : \E q \in records : SameContent(q, r) /\ q.id <= r.id
      /\ \A r, q \in table : r.id = q.id => r = q
      /\ schema \in {"moment", "content"} /\ (schema = "content" => table = records)
      /\ \A r, q \in table : Conflict(r, q) => r = q
  BY DEF MigrationInv, Mirrored, MigratedAsIfAlways, ConstraintHolds, Row
<1>8. \A r, q : Conflict(r, q) => SameContent(r, q)
  BY DEF Conflict, SameReport
<1>9. \A r, q : Conflict(r, q) => Conflict(q, r)
  BY DEF Conflict, SameReport, SameContent
<1>10. new \subseteq rows
  <2>1. SUFFICES ASSUME NEW k \in DOMAIN batch,
                        \A r \in records : ~SameContent(r, rec(k)), first(k)
                 PROVE  rec(k) \in rows
    BY <1>3
  <2>2. \A r \in table : ~SameContent(r, rec(k))
    BY <1>7, <2>1, SameContentEquivalence
  <2>. QED BY <1>4, <1>8, <2>1, <2>2
<1>11. ASSUME NEW k \in DOMAIN batch
       PROVE  \E q \in records' : SameContent(q, rec(k)) /\ q.id <= rec(k).id
  <2>1. CASE \E r \in records : SameContent(r, rec(k))
    BY <1>1, <1>5, <1>6, <1>7, <2>1
  <2>2. CASE \A r \in records : ~SameContent(r, rec(k))
    <3> DEFINE same == {j \in DOMAIN batch : SameContent(rec(j), rec(k))}
    <3>1. same \in SUBSET Nat /\ k \in same
      BY <1>5 DEF SameContent
    <3>2. PICK m \in same : \A j \in same : m <= j
      <4>. HIDE DEF same
      <4>. QED BY <3>1, LeastNat
    <3>3. first(m)
      BY <1>5, <3>2, SameContentEquivalence
    <3>4. \A r \in records : ~SameContent(r, rec(m))
      BY <2>2, <3>2, SameContentEquivalence
    <3>5. rec(m) \in new
      BY <1>3, <3>2, <3>3, <3>4
    <3>6. rec(m).id <= rec(k).id
      BY <1>5, <1>6, <3>1, <3>2
    <3>. QED BY <1>1, <3>2, <3>5, <3>6
  <2>. QED BY <2>1, <2>2
<1>12. Mirrored'
  <2>1. records' \subseteq table' /\ table' \subseteq Row
    BY <1>1, <1>4, <1>6, <1>7, <1>10
  <2>2. \A r \in table' : r.id <= lastId'
    BY <1>1, <1>4, <1>5, <1>6, <1>7
  <2>3. \A r \in table' : \E q \in records' : SameContent(q, r) /\ q.id <= r.id
    BY <1>1, <1>4, <1>7, <1>11
  <2>. QED BY <2>1, <2>2, <2>3 DEF Mirrored, SameContent
<1>13. ASSUME NEW r \in table', NEW q \in table', r.id = q.id
       PROVE  r = q
  <2>1. CASE r \in table /\ q \in table
    BY <1>7, <1>13, <2>1
  <2>2. CASE r \in table /\ q \in rows
    BY <1>4, <1>5, <1>6, <1>7, <1>13, <2>2
  <2>3. CASE r \in rows /\ q \in table
    BY <1>4, <1>5, <1>6, <1>7, <1>13, <2>3
  <2>4. CASE r \in rows /\ q \in rows
    BY <1>4, <1>5, <1>6, <1>13, <2>4
  <2>. QED BY <1>1, <2>1, <2>2, <2>3, <2>4
<1>14. MigratedAsIfAlways'
  <2>1. SUFFICES ASSUME schema = "content" PROVE rows = new
    BY <1>1, <1>7 DEF MigratedAsIfAlways
  <2>2. \A r, q : Conflict(r, q) <=> SameContent(r, q)
    BY <2>1 DEF Conflict
  <2>. QED BY <1>3, <1>4, <1>7, <2>1, <2>2
<1>15. ASSUME NEW r \in table', NEW q \in table', Conflict(r, q)
       PROVE  r = q
  <2>1. CASE r \in table /\ q \in table
    BY <1>7, <1>15, <2>1
  <2>2. CASE r \in table /\ q \in rows
    BY <1>4, <1>15, <2>2
  <2>3. CASE r \in rows /\ q \in table
    BY <1>4, <1>9, <1>15, <2>3
  <2>4. CASE r \in rows /\ q \in rows
    <3>1. PICK i \in DOMAIN batch, j \in DOMAIN batch :
            /\ r = rec(i) /\ \A k \in DOMAIN batch : k < i => ~Conflict(rec(k), rec(i))
            /\ q = rec(j) /\ \A k \in DOMAIN batch : k < j => ~Conflict(rec(k), rec(j))
      BY <1>4, <2>4
    <3>2. ~(i < j) /\ ~(j < i)
      BY <1>9, <1>15, <3>1
    <3>. QED BY <1>5, <3>1, <3>2
  <2>. QED BY <1>1, <2>1, <2>2, <2>3, <2>4
<1>16. ConstraintHolds'
  BY <1>1, <1>15 DEF ConstraintHolds, Conflict, SameReport, SameContent
<1>. QED BY <1>1, <1>2, <1>7, <1>12, <1>13, <1>14, <1>16 DEF MigrationInv

(* A migration leaves the log, which has no two rows of one content.               *)
LEMMA MigrateKeepsStep ==
  ASSUME MigrationInv, Migrate
  PROVE  MigrationInv'
<1>1. table' = records /\ schema' = "content" /\ UNCHANGED episodeVars
  BY DedupeLeavesLog DEF Migrate
<1>2. LogInv'
  BY <1>1 DEF MigrationInv, LogInv, TypeOK, episodeVars
<1>3. Mirrored' /\ MigratedAsIfAlways'
  BY <1>1 DEF MigrationInv, Mirrored, MigratedAsIfAlways, LogInv, TypeOK, Row, SameContent,
              episodeVars
<1>4. ConstraintHolds' /\ (\A r, q \in table : r.id = q.id => r = q)'
  BY <1>1 DEF MigrationInv, LogInv, ConstraintHolds, Conflict, episodeVars
<1>. QED BY <1>1, <1>2, <1>3, <1>4 DEF MigrationInv

(* The invariant, for every step.                                                  *)
LEMMA MigrationInvariant == MigrationSpec => []MigrationInv
<1>1. MigrationInit => MigrationInv
  BY DEF MigrationInit, Init, MigrationInv, Mirrored, MigratedAsIfAlways, ConstraintHolds,
         LogInv, TypeOK
<1>2. MigrationInv /\ [MigrationNext]_migrationVars => MigrationInv'
  <2>1. SUFFICES ASSUME MigrationInv, [MigrationNext]_migrationVars PROVE MigrationInv'
    OBVIOUS
  <2>2. CASE MigrateBack
    BY <2>1, <2>2 DEF MigrateBack, MigrationInv, Mirrored, MigratedAsIfAlways, ConstraintHolds,
         Conflict, SameReport, SameContent, LogInv, TypeOK, episodeVars
  <2>3. ASSUME NEW u \in Users, NEW batch \in Batches, RefusedReport(u, batch)
        PROVE  MigrationInv'
    <3>1. LogInv'
      <4>1. {<<u, batch[i].device>> : i \in {k \in DOMAIN batch :
               batch[k].device # NoDevice /\ \A j \in 1..k : batch[j].device # BadDevice}}
              \subseteq Users \X DeviceIds
        <5>1. SUFFICES ASSUME NEW k \in DOMAIN batch, batch[k].device # NoDevice,
                              \A j \in 1..k : batch[j].device # BadDevice
                       PROVE  batch[k].device \in DeviceIds
          OBVIOUS
        <5>2. k \in 1..k /\ batch[k] \in Entry
          BY LimitsAssumption DEF Batches
        <5>. QED BY <5>1, <5>2 DEF Entry
      <4>. QED BY <2>1, <2>3, <4>1 DEF RefusedReport, RefusedUpload, MentionAll, MigrationInv,
                                       LogInv, TypeOK
    <3>. QED BY <2>1, <2>3, <3>1 DEF RefusedReport, RefusedUpload, MigrationInv, Mirrored,
           MigratedAsIfAlways, ConstraintHolds, Conflict, SameReport, SameContent
  <2>4. CASE UNCHANGED migrationVars
    BY <2>1, <2>4 DEF migrationVars, episodeVars, MigrationInv, Mirrored, MigratedAsIfAlways,
         ConstraintHolds, Conflict, SameReport, SameContent, LogInv, TypeOK
  <2>. QED BY <2>1, <2>2, <2>3, <2>4, ReportKeepsStep, MigrateKeepsStep DEF MigrationNext
<1>. QED BY <1>1, <1>2, PTL DEF MigrationSpec

(* A migrated database is the one that would be there had the new constraint been  *)
(* in force from its first row: rows, ids and moments.                             *)
THEOREM MigratedIsAsIfAlways == MigrationSpec => []MigratedAsIfAlways
<1>1. MigrationInv => MigratedAsIfAlways
  BY DEF MigrationInv
<1>. QED BY <1>1, MigrationInvariant, PTL

(* In both directions, the constraint a migration adds finds no two rows in its    *)
(* way.                                                                            *)
THEOREM ConstraintsFit == MigrationSpec => []ConstraintHolds
<1>1. MigrationInv => ConstraintHolds
  BY DEF MigrationInv
<1>. QED BY <1>1, MigrationInvariant, PTL

(* No migration and no upload forgets that an account reported a content.          *)
THEOREM NothingIsForgotten == MigrationSpec => NothingForgotten
<1>1. MigrationInv /\ [MigrationNext]_migrationVars => [Said \subseteq Said']_migrationVars
  <2>1. SUFFICES ASSUME MigrationInv, MigrationNext PROVE Said \subseteq Said'
    OBVIOUS
  <2>2. CASE Migrate
    <3>1. table' = records
      BY <2>1, <2>2, DedupeLeavesLog DEF Migrate
    <3>2. \A r \in table : \E q \in records : SameContent(q, r)
      BY <2>1 DEF MigrationInv, Mirrored
    <3>. QED BY <3>1, <3>2 DEF Said, SameContent
  <2>3. CASE ~Migrate
    <3>1. table \subseteq table'
      BY <2>1, <2>3 DEF MigrationNext, MigrateBack, Report, RefusedReport
    <3>. QED BY <3>1 DEF Said
  <2>. QED BY <2>2, <2>3
<1>. QED BY <1>1, MigrationInvariant, PTL DEF MigrationSpec, NothingForgotten
================================================================================

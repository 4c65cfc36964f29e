------------------------------- MODULE EpisodeLog -------------------------------
(* The episode half of the server: the append-only EpisodeActionRecord table of  *)
(* gpodsync/models.py, the upload of EpisodeActionsView that writes it, and the  *)
(* bounded page of current winners that its GET reads.  One action is one        *)
(* request.                                                                      *)
EXTENDS FiniteSetsExt, Sequences

CONSTANTS Users,                  \* accounts
          DeviceIds,              \* identifiers validate_device_id accepts
          NoDevice,               \* an action that names no device
          BadDevice,              \* an identifier validate_device_id refuses
          Groups,                 \* (podcast, episode, verb)
          Contents,               \* guid and playback offsets: what content_key tells apart
          Times,                  \* moments an action can be stamped with, in seconds
                                  \* since the first one a datetime holds
          ImportSentinel,         \* 1970-01-01, what an import claims
          Unstamped,              \* an action without a timestamp
          MaxActionsPerRequest,   \* the cap of the same name in views.py
          MaxActionsPerPage,      \* likewise
          NoClaim,                \* nothing was reported of a group
          MaxId                   \* bound of the model: ids are handed out up to here

(* A datetime has a first year and a last one; the sentinel is neither.           *)
ASSUME TimesAssumption == /\ Times \subseteq Nat /\ ImportSentinel \in Times
                          /\ \E last \in Times : \A t \in Times : t <= last
                          /\ Unstamped \notin Times
ASSUME NoClaimAssumption ==
  NoClaim \notin [user : Users, group : Groups, content : Contents, at : Times]
ASSUME DeviceAssumption == /\ NoDevice \notin DeviceIds /\ BadDevice \notin DeviceIds
                           /\ NoDevice # BadDevice
ASSUME LimitsAssumption == /\ MaxActionsPerRequest \in Nat /\ MaxId \in Nat
                           /\ MaxActionsPerPage \in Nat \ {0}

VARIABLES records,   \* the rows of gpodsync_episodeactionrecord
          lastId,    \* sqlite_sequence for that table
          devices    \* the rows of gpodsync_device, by their unique key

episodeVars == <<records, lastId, devices>>

Row == [id : Nat \ {0}, user : Users, device : DeviceIds \cup {NoDevice},
        group : Groups, content : Contents, at : Times]

(* One uploaded action that parse_action has accepted.                           *)
Entry == [group : Groups, content : Contents, at : Times \cup {Unstamped},
          device : DeviceIds \cup {NoDevice, BadDevice}]

Batches == UNION {[1..n -> Entry] : n \in 0..MaxActionsPerRequest}

(* ------------------------------- reading the log ------------------------------ *)

RowsOf(u) == {r \in records : r.user = u}

Newest(u) == Max({0} \cup {r.id : r \in RowsOf(u)})

(* Mutant: the cursor is the id the next row will have.                           *)
CursorForNext(u, floor) == Max({Newest(u) + 1, floor})

CursorFor(u, floor) == Max({Newest(u), floor})

(* Mutants: ties are left undecided; the last report wins a tie.                  *)
BeatsByTimeOnly(q, r) == q.user = r.user /\ q.group = r.group /\ q.at > r.at
BeatsByLastReport(q, r) ==
  /\ q.user = r.user /\ q.group = r.group
  /\ q.at > r.at \/ (q.at = r.at /\ q.id > r.id)

(* Row q beats row r: same group, later, or as late and reported first.          *)
Beats(q, r) ==
  /\ q.user = r.user /\ q.group = r.group
  /\ q.at > r.at \/ (q.at = r.at /\ q.id < r.id)

Superseded(r) == \E q \in records : Beats(q, r)

(* Mutant: only rows of the window compete.                                       *)
WinnersOfWindow(u, since) ==
  LET window == {r \in RowsOf(u) : r.id > since}
  IN  {r \in window : \A q \in window : ~Beats(q, r)}

Winners(u, since) == {r \in RowsOf(u) : r.id > since /\ ~Superseded(r)}

(* The first rows of the scan, at most one page of them.                         *)
PageOf(rows) ==
  {r \in rows : Cardinality({q \in rows : q.id <= r.id}) <= MaxActionsPerPage}

Page(u, since) == PageOf(Winners(u, since))

(* Mutant: every page answers with the account's newest id.                       *)
PageCursorNewest(u, since) == CursorFor(u, since)

(* A full page resumes at its last row; a finished scan passes suppressed rows too. *)
PageCursor(u, since) ==
  IF Cardinality(Winners(u, since)) > MaxActionsPerPage
  THEN Max({r.id : r \in Page(u, since)})
  ELSE CursorFor(u, since)

(* ------------------------------ writing the log ------------------------------- *)

(* one_row_per_reported_content: who reported what, never when.                  *)
SameContent(r, q) == r.user = q.user /\ r.group = q.group /\ r.content = q.content

(* Mutant: an import is stored under the moment of the dump.                      *)
RecordOfDump(u, entry, id, importing, now) ==
  [id |-> id, user |-> u, device |-> entry.device,
   group |-> entry.group, content |-> entry.content,
   at |-> IF entry.at = Unstamped THEN now ELSE entry.at]

(* The record of an entry: an import claims nothing about when, an entry without *)
(* a timestamp says "now".                                                       *)
RecordOf(u, entry, id, importing, now) ==
  [id |-> id, user |-> u, device |-> entry.device,
   group |-> entry.group, content |-> entry.content,
   at |-> IF importing THEN ImportSentinel
          ELSE IF entry.at = Unstamped THEN now ELSE entry.at]

(* Mutant: the table is consulted first, the rest of the batch is not.            *)
StoredAfterLooking(u, batch, importing, now) ==
  LET rec(i) == RecordOf(u, batch[i], lastId + i, importing, now)
  IN  {rec(i) : i \in {k \in DOMAIN batch : \A r \in records : ~SameContent(r, rec(k))}}

(* INSERT OR IGNORE, row by row: an id is used up by every row, a row is kept    *)
(* unless its content is already there.                                          *)
Stored(u, batch, importing, now) ==
  LET rec(i) == RecordOf(u, batch[i], lastId + i, importing, now)
  IN  {rec(i) : i \in {k \in DOMAIN batch :
                         /\ \A r \in records : ~SameContent(r, rec(k))
                         /\ \A j \in DOMAIN batch : j < k => ~SameContent(rec(j), rec(k))}}

NamesBadDevice(batch) == \E i \in DOMAIN batch : batch[i].device = BadDevice

(* Mutant: devices are looked up and never created.                               *)
MentionNobody(u, batch) == UNCHANGED devices

(* get_or_create, entry by entry, up to the first unacceptable identifier.       *)
MentionAll(u, batch) ==
  devices' = devices \cup
    {<<u, batch[i].device>> : i \in {k \in DOMAIN batch :
        batch[k].device # NoDevice /\ \A j \in 1..k : batch[j].device # BadDevice}}

Upload(u, batch, importing, now) ==
  /\ lastId + Len(batch) <= MaxId
  /\ ~NamesBadDevice(batch)
  /\ MentionAll(u, batch)
  /\ records' = records \cup Stored(u, batch, importing, now)
  /\ lastId' = lastId + Len(batch)

(* A 400 half-way through the loop leaves the devices of earlier entries behind. *)
RefusedUpload(u, batch) ==
  /\ NamesBadDevice(batch)
  /\ MentionAll(u, batch)
  /\ UNCHANGED <<records, lastId>>

Init == records = {} /\ lastId = 0 /\ devices = {}

Next ==
  \E u \in Users, batch \in Batches :
    \/ \E importing \in BOOLEAN, now \in Times : Upload(u, batch, importing, now)
    \/ RefusedUpload(u, batch)

Spec == Init /\ [][Next]_episodeVars

(* --------------------------------- properties --------------------------------- *)

(* Every row has the shape of the table's columns.                               *)
TypeOK ==
  /\ records \subseteq Row
  /\ lastId \in Nat
  /\ devices \subseteq Users \X DeviceIds

(* Ids name rows and were handed out; the device of a row exists; each content   *)
(* was stored once, under the first report of it.                                *)
LogInv ==
  /\ TypeOK
  /\ \A r \in records : r.id <= lastId
  /\ \A r, q \in records : r.id = q.id \/ SameContent(r, q) => r = q
  /\ \A r \in records : r.device # NoDevice => <<r.user, r.device>> \in devices

(* Every group anything was reported for has exactly one current winner, so a    *)
(* download never carries two competing positions and never none (models.py:240). *)
OneWinner ==
  \A r \in records :
    \E w \in records : /\ w.user = r.user /\ w.group = r.group /\ ~Superseded(w)
                       /\ \A v \in records : v.user = r.user /\ v.group = r.group
                                               /\ ~Superseded(v) => v = w

(* Following cursors from anywhere skips no winner: what a page leaves out lies  *)
(* above the cursor it hands back, and a page that is cut short moves on.        *)
PagesSkipNothing ==
  \A u \in Users, since \in 0..lastId :
    LET winners == Winners(u, since)
        page    == PageOf(winners)
        cursor  == PageCursor(u, since)
    IN  /\ \A r \in winners : r \in page \/ r.id > cursor
        /\ \A r \in page : r.id <= cursor
        /\ page # winners => cursor > since
        /\ Cardinality(page) <= MaxActionsPerPage
        /\ cursor >= since

(* The winner of a group, or nothing.                                            *)
ClaimOf(r) == [user |-> r.user, group |-> r.group, content |-> r.content, at |-> r.at]
Winner(u, g) ==
  LET w == {r \in RowsOf(u) : r.group = g /\ ~Superseded(r)}
  IN  IF w = {} THEN NoClaim ELSE ClaimOf(CHOOSE r \in w : TRUE)

(* An import is the weakest claim (docs/protocol.md, Demotion): whatever a dump     *)
(* carries, a row of it displaces a row that is there only where that one was       *)
(* reported for a moment before 1970, which parse_timestamp accepts.                *)
ImportOverridesNothing ==
  \A u \in Users, entry \in Entry, i \in 1..MaxActionsPerRequest, now \in Times :
    LET q == RecordOf(u, entry, lastId + i, TRUE, now)
    IN  \A r \in records : Beats(q, r) => r.at < ImportSentinel

(* The log implements one resume point per account and group.                    *)
Points == INSTANCE ResumePoints WITH
            claims <- {ClaimOf(r) : r \in records},
            best   <- [u \in Users |-> [g \in Groups |-> Winner(u, g)]]
ImplementsResumePoints == Points!Spec
================================================================================

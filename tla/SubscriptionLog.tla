---------------------------- MODULE SubscriptionLog ----------------------------
(* The subscription half of the server: the append-only SubscriptionChange table *)
(* of gpodsync/models.py and the handlers of SubscriptionsView that write it.    *)
(* The current list and "what changed after a cursor" are both derived from the  *)
(* log.  One action is one request, whose transaction SQLite runs alone          *)
(* (transaction_mode IMMEDIATE); SubscriptionSync splits requests into the steps *)
(* that do interleave.                                                           *)
EXTENDS FiniteSetsExt

CONSTANTS Users,                \* accounts
          DeviceIds,            \* identifiers validate_device_id accepts
          RawUrls,              \* the spellings a request may carry
          Urls,                 \* the canonical URLs that can be stored
          Refused,              \* what sanitising an unusable spelling yields
          Sanitise,             \* sanitise_feed_url, as a function of the spelling
          MaxUrlsPerRequest,    \* the cap of the same name in views.py
          MaxId                 \* bound of the model: ids are handed out up to here

ASSUME RefusedAssumption == Refused \notin Urls
ASSUME SanitiseAssumption == Sanitise \in [RawUrls -> Urls \cup {Refused}]
ASSUME LimitsAssumption == MaxUrlsPerRequest \in Nat /\ MaxId \in Nat

VARIABLES changes,   \* the rows of gpodsync_subscriptionchange
          lastId,    \* sqlite_sequence for that table: ids are never reused
          devices    \* the rows of gpodsync_device, by their unique key

logVars == <<changes, lastId, devices>>

Row == [id : Nat \ {0}, user : Users, device : DeviceIds,
        url : Urls, action : {"add", "remove"}]

(* ------------------------------- reading the log ------------------------------ *)

(* Mutant: a query without its user_id filter.                                  *)
RowsOfAnyone(u) == changes

RowsOf(u) == {r \in changes : r.user = u}

(* Of a set of rows, the newest one of every URL in it.                          *)
LatestPerUrl(rows) ==
  {r \in rows : \A q \in rows : q.url = r.url => q.id <= r.id}

UrlsMarked(action, rows) == {r.url : r \in {q \in LatestPerUrl(rows) : q.action = action}}

CurrentUrls(u) == UrlsMarked("add", RowsOf(u))

(* Mutant: the range starts one row late.                                        *)
WindowSkippingOne(u, since) == {r \in RowsOf(u) : r.id > since + 1}

(* changes_since, first statement: one verdict for every URL in the window.      *)
Window(u, since) == {r \in RowsOf(u) : r.id > since}
AddedSince(u, since)   == UrlsMarked("add", Window(u, since))

(* Mutant: every removal in the window, superseded ones too.                     *)
EverRemovedSince(u, since) == {r.url : r \in {q \in Window(u, since) : q.action = "remove"}}

RemovedSince(u, since) == UrlsMarked("remove", Window(u, since))

(* changes_since, second statement.                                              *)
Newest(u) == Max({0} \cup {r.id : r \in RowsOf(u)})

(* Mutants: the id that comes next; the newest id still in the list.             *)
CursorForNext(u, floor) == Max({Newest(u) + 1, floor})
CursorForListed(u, floor) ==
  Max({floor} \cup {r.id : r \in {q \in LatestPerUrl(RowsOf(u)) : q.action = "add"}})

CursorFor(u, floor) == Max({Newest(u), floor})

(* ------------------------------ writing the log ------------------------------- *)

Batches == {b \in SUBSET RawUrls : IsFiniteSet(b)}

Sanitised(batch) == {Sanitise[raw] : raw \in batch}

(* The checks a body passes before anything is stored.  The batches stand for the *)
(* arrays of the body: dict.fromkeys drops repeats, and the order of an array    *)
(* decides only which id each of its URLs receives.                              *)
Accepted(add, remove) ==
  /\ Cardinality(add) + Cardinality(remove) <= MaxUrlsPerRequest
  /\ Refused \notin Sanitised(add \cup remove)

(* Rows for urls, numbered upwards from base in the order place gives them.      *)
Numbered(u, d, action, urls, place, base) ==
  {[id |-> base + place[x], user |-> u, device |-> d, url |-> x, action |-> action]
     : x \in urls}

Orders(urls) == Bijection(urls, 1..Cardinality(urls))

(* Mutant: a repeated subscription is recorded again.                            *)
AllAdditions(u, add) == add

(* Only what changes the list is recorded; removals see the additions made first. *)
NewAdditions(u, add) == add \ CurrentUrls(u)

(* Mutant: both halves are compared with one snapshot taken at the start.        *)
SnapshotRemovals(u, add, remove) == remove \cap CurrentUrls(u)

NewRemovals(u, add, remove) == remove \cap (CurrentUrls(u) \cup add)

(* The transaction of an upload, on sanitised URLs.                              *)
Commit(u, d, add, remove) ==
  LET subscribed   == NewAdditions(u, add)
      unsubscribed == NewRemovals(u, add, remove)
      middle       == lastId + Cardinality(subscribed)
      last         == middle + Cardinality(unsubscribed)
  IN  /\ last <= MaxId
      /\ lastId' = last
      /\ \E first \in Orders(subscribed), then \in Orders(unsubscribed) :
           changes' = changes \cup Numbered(u, d, "add", subscribed, first, lastId)
                              \cup Numbered(u, d, "remove", unsubscribed, then, middle)

(* Mutant: the device is looked up without its account.                          *)
MentionUnscoped(u, d) ==
  devices' = IF \E v \in Users : <<v, d>> \in devices THEN devices ELSE devices \cup {<<u, d>>}

(* get_or_create: every endpoint naming a device creates it on first mention.    *)
Mention(u, d) == devices' = devices \cup {<<u, d>>}

(* GET of either view that names a device: nothing but the device is written.    *)
Read(u, d) == Mention(u, d) /\ UNCHANGED <<changes, lastId>>

Upload(u, d, add, remove) ==
  /\ Accepted(add, remove)
  /\ Mention(u, d)
  /\ Commit(u, d, Sanitised(add), Sanitised(remove))

(* The device is created before the body is looked at, so a 400 leaves it behind. *)
RefusedUpload(u, d, add, remove) ==
  /\ ~Accepted(add, remove)
  /\ Mention(u, d)
  /\ UNCHANGED <<changes, lastId>>

Init == changes = {} /\ lastId = 0 /\ devices = {}

Next ==
  \E u \in Users, d \in DeviceIds :
    \/ Read(u, d)
    \/ \E add, remove \in Batches :
         \/ Upload(u, d, add, remove)
         \/ RefusedUpload(u, d, add, remove)

Spec == Init /\ [][Next]_logVars

(* --------------------------------- properties --------------------------------- *)

(* Every row has the shape of the table's columns.                               *)
TypeOK ==
  /\ changes \subseteq Row
  /\ lastId \in Nat
  /\ devices \subseteq Users \X DeviceIds

(* An id names one row, and no row has an id that was not handed out: what makes *)
(* a row id usable as a cursor (models.py, module docstring).                    *)
IdsAreCursors ==
  /\ \A r \in changes : r.id <= lastId
  /\ \A r, q \in changes : r.id = q.id => r = q

(* The foreign key: a row's device belongs to the row's account.                 *)
DevicesExist == \A r \in changes : <<r.user, r.device>> \in devices

LogInv == TypeOK /\ IdsAreCursors /\ DevicesExist

(* The history of one feed in one account alternates, starting with a            *)
(* subscription, whichever devices reported it: "Record only what actually       *)
(* changes" (views.py) in the sense the log can carry.                           *)
HistoryAlternates ==
  \A r \in changes :
    LET earlier == {q \in RowsOf(r.user) : q.url = r.url /\ q.id < r.id}
    IN  IF earlier = {} THEN r.action = "add"
        ELSE \A q \in LatestPerUrl(earlier) : q.action # r.action

(* Whatever cursor a device stopped at, the list as it was there, plus what      *)
(* changes_since adds and minus what it removes, is the list now: a URL added    *)
(* and removed inside the window needs only its last verdict.                    *)
ListAt(u, cursor) == UrlsMarked("add", {r \in RowsOf(u) : r.id <= cursor})

DeltaRestoresList ==
  \A u \in Users, since \in 0..lastId :
    (ListAt(u, since) \cup AddedSince(u, since)) \ RemovedSince(u, since) = CurrentUrls(u)

(* What an upload asks for is what becomes of the list, whatever the list was: a  *)
(* feed named in both halves ends up removed ("rather than on what was sent",    *)
(* views.py:191-195).                                                            *)
BatchDecidesList ==
  [][\A u \in Users, d \in DeviceIds, add, remove \in Batches :
       Upload(u, d, add, remove)
         => CurrentUrls(u)' = (CurrentUrls(u) \cup Sanitised(add)) \ Sanitised(remove)]_logVars

(* The log implements one shared list per account: a request changes the list of *)
(* its own account or none.                                                      *)
Shared == INSTANCE AccountList WITH Feeds <- Urls,
                                     list <- [u \in Users |-> CurrentUrls(u)]
ImplementsAccountList == Shared!Spec
================================================================================

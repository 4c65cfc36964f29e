---------------------------- MODULE SubscriptionSync ----------------------------
(* Phones keeping their subscriptions in step through the log.  The server runs  *)
(* every request in a thread of its own (uvicorn, sync views), so requests       *)
(* interleave between database statements: a GET runs two of them, the rows of   *)
(* changes_since and the cursor of cursor_for, outside any transaction; a POST   *)
(* is one transaction.  The phone is AntennaPod as docs/protocol.md and          *)
(* tests/fake_antennapod describe it: read since the stored cursor, apply, upload *)
(* what the user changed, then store the timestamp of the last response.  What a *)
(* phone does by itself is part of the step that follows it.                     *)
(* A response can be lost, a request whose client gave up may still be executed  *)
(* later, and the host may lose power, taking the last transactions with it.     *)
EXTENDS SubscriptionLog

CONSTANTS Account,      \* Account[p]: the account phone p syncs with
          MaxEdits,     \* bound of the model: changes made by users
          MaxDrops,     \* bound of the model: syncs that fail part-way
          MaxLosses     \* bound of the model: losses of power

Phones == DeviceIds     \* a phone names one device, its own

ASSUME AccountAssumption == Account \in [Phones -> Users]

(* A phone may hold an address the server refuses, and otherwise spells feeds as  *)
(* the server does: what update_urls corrects, AntennaPod ignores.               *)
ASSUME SpellingAssumption == /\ Urls \subseteq RawUrls
                             /\ \A raw \in RawUrls : Sanitise[raw] \in {raw, Refused}

ASSUME BoundsAssumption == MaxEdits \in Nat /\ MaxDrops \in Nat /\ MaxLosses \in Nat

VARIABLES view,         \* view[p]: the feeds on the phone
          toAdd,        \* toAdd[p]: subscribed on the phone, not acknowledged
          toRemove,     \* toRemove[p]: unsubscribed on the phone, not acknowledged
          cursor,       \* cursor[p]: the timestamp the phone has stored
          phase,        \* phase[p]: how far the phone's current sync has come
          reply,        \* reply[p]: what the server has computed for that sync
          late,         \* uploads whose client gave up, not executed (yet)
          past,         \* the states of the database a loss of power may fall back to
          lostByRead,   \* history: feeds whose change fell between the two
                        \* statements of a GET the phone took its cursor from
          lostByUpload, \* history: feeds whose change fell between a phone's
                        \* read and the upload it took its cursor from
          lostByPower,  \* history: feeds whose change was lost with the power, or
                        \* got an id the phone's cursor had passed before
          edits,        \* how much of MaxEdits is used
          drops, losses \* how much of MaxDrops and MaxLosses is used

phoneVars == <<view, toAdd, toRemove, cursor>>
dbVars    == <<logVars, past>>
histVars  == <<lostByRead, lostByUpload, lostByPower>>
faults    == <<drops, losses>>
syncVars  == <<dbVars, phoneVars, phase, reply, late, histVars, edits, faults>>

NoReply == [added |-> {}, removed |-> {}, shown |-> {}, upTo |-> 0, cursor |-> 0,
            raced |-> {}, skipped |-> {}]

(* In WAL mode with synchronous=NORMAL a commit is not flushed: after a loss of    *)
(* power the database is as some commit since its last checkpoint left it.        *)
Database == [changes |-> changes, lastId |-> lastId, devices |-> devices]
Remember == past' = IF losses < MaxLosses THEN past \cup {Database'} ELSE {}

(* Feeds with a row in the interval of ids above lo up to hi.                    *)
ChangedBetween(u, lo, hi) == {r.url : r \in {q \in RowsOf(u) : lo < q.id /\ q.id <= hi}}

Queued(p) == toAdd[p] \cup toRemove[p]

(* -------------------------------- the user's side ------------------------------ *)

Edit(p) == /\ phase[p] = "idle"
           /\ edits < MaxEdits
           /\ edits' = edits + 1
           /\ UNCHANGED <<dbVars, cursor, phase, reply, late, histVars, faults>>

Subscribe(p, x) ==
  /\ x \notin view[p]
  /\ view' = [view EXCEPT ![p] = @ \cup {x}]
  /\ toAdd' = [toAdd EXCEPT ![p] = @ \cup {x}]
  /\ toRemove' = [toRemove EXCEPT ![p] = @ \ {x}]
  /\ Edit(p)

Unsubscribe(p, x) ==
  /\ x \in view[p]
  /\ view' = [view EXCEPT ![p] = @ \ {x}]
  /\ toAdd' = [toAdd EXCEPT ![p] = @ \ {x}]
  /\ toRemove' = [toRemove EXCEPT ![p] = @ \cup {x}]
  /\ Edit(p)

(* --------------------------------- one sync ------------------------------------ *)

Advance(p, from, to) == phase[p] = from /\ phase' = [phase EXCEPT ![p] = to]

(* GET: the device, and the first statement of changes_since.                    *)
ScanRows(p) ==
  LET added   == AddedSince(Account[p], cursor[p])
      removed == RemovedSince(Account[p], cursor[p])
  IN  /\ Advance(p, "idle", "scanned")
      /\ Read(Account[p], p) /\ Remember
      /\ reply' = [reply EXCEPT ![p] =
           [NoReply EXCEPT !.added = added, !.removed = removed, !.shown = added \cup removed,
                           !.upTo  = Newest(Account[p])]]
      /\ UNCHANGED <<phoneVars, late, histVars, edits, faults>>

(* The phone applies the answer; what its user has not uploaded yet wins.        *)
Applied(p) == (view[p] \cup (reply[p].added \ toRemove[p])) \ (reply[p].removed \ toAdd[p])

(* The histories of a phone that has applied its answer.                         *)
Told(lost, p) == [lost EXCEPT ![p] = @ \ reply[p].shown]

(* It does no more than that: its sync fails before a cursor is stored.          *)
ApplyOnly(p) == /\ view' = [view EXCEPT ![p] = Applied(p)]
                /\ lostByRead' = Told(lostByRead, p)
                /\ lostByUpload' = Told(lostByUpload, p)
                /\ lostByPower' = Told(lostByPower, p)

(* GET, the second statement: rows committed since the first are in its cursor.   *)
CursorOf(p) == CursorFor(Account[p], cursor[p])
Raced(p)    == ChangedBetween(Account[p], reply[p].upTo, CursorOf(p))

(* A phone with nothing to upload applies the answer and stores its cursor.      *)
Finish(p) ==
  /\ Advance(p, "scanned", "idle")
  /\ Queued(p) = {}
  /\ view' = [view EXCEPT ![p] = Applied(p)]
  /\ cursor' = [cursor EXCEPT ![p] = CursorOf(p)]
  /\ lostByRead' = [Told(lostByRead, p) EXCEPT ![p] = @ \cup Raced(p)]
  /\ lostByUpload' = Told(lostByUpload, p)
  /\ lostByPower' = Told(lostByPower, p)
  /\ reply' = [reply EXCEPT ![p] = NoReply]
  /\ UNCHANGED <<dbVars, toAdd, toRemove, late, edits, faults>>

(* One that has something to upload keeps the cursor until the upload's arrives.  *)
TakeCursor(p) ==
  /\ Advance(p, "scanned", "answered")
  /\ Queued(p) # {}
  /\ reply' = [reply EXCEPT ![p].upTo = 0, ![p].cursor = CursorOf(p), ![p].raced = Raced(p)]
  /\ UNCHANGED <<dbVars, phoneVars, late, histVars, edits, faults>>

(* What a commit puts below the cursor phone q holds or is about to be given: only *)
(* after a loss of power, when ids are handed out a second time.                 *)
Passed(q) == {r.url : r \in {n \in changes' \ changes :
                                n.user = Account[q] /\ n.id <= Max({cursor[q], reply[q].cursor})}}

(* Mutant: the answer's cursor is that of the rows just written, 0 if there are none. *)
StoreAnsweringOwnRows(p) ==
  /\ Advance(p, "answered", "stored")
  /\ Accepted(toAdd[p], toRemove[p])
  /\ Mention(Account[p], p)
  /\ Commit(Account[p], p, Sanitised(toAdd[p]), Sanitised(toRemove[p]))
  /\ Remember
  /\ view' = [view EXCEPT ![p] = Applied(p)]
  /\ reply' = [reply EXCEPT ![p] =
       [NoReply EXCEPT !.cursor = Max({0} \cup {r.id : r \in changes' \ changes})]]
  /\ UNCHANGED <<toAdd, toRemove, cursor, late, histVars, edits, faults>>

(* POST: the device, the transaction, and the cursor it answers with (floor 0).  *)
Store(p) ==
  /\ Advance(p, "answered", "stored")
  /\ Accepted(toAdd[p], toRemove[p])
  /\ Mention(Account[p], p)
  /\ Commit(Account[p], p, Sanitised(toAdd[p]), Sanitised(toRemove[p]))
  /\ Remember
  /\ view' = [view EXCEPT ![p] = Applied(p)]
  /\ reply' = [reply EXCEPT ![p] =
       [NoReply EXCEPT !.cursor  = CursorFor(Account[p], 0)',
                       !.raced   = reply[p].raced,
                       !.skipped = ChangedBetween(Account[p], reply[p].cursor, lastId) \ Queued(p)]]
  /\ lostByRead' = Told(lostByRead, p)
  /\ lostByUpload' = Told(lostByUpload, p)
  /\ lostByPower' = [q \in Phones |-> Told(lostByPower, p)[q] \cup Passed(q)]
  /\ UNCHANGED <<toAdd, toRemove, cursor, late, edits, faults>>

(* POST with a URL that sanitising refuses: a 400, and the sync has failed.       *)
Refuse(p) ==
  /\ Advance(p, "answered", "idle")
  /\ ~Accepted(toAdd[p], toRemove[p])
  /\ Read(Account[p], p) /\ Remember
  /\ ApplyOnly(p)
  /\ reply' = [reply EXCEPT ![p] = NoReply]
  /\ UNCHANGED <<toAdd, toRemove, cursor, late, edits, faults>>

(* The upload is acknowledged: its cursor is stored and the queue emptied.       *)
Acknowledge(p) ==
  /\ Advance(p, "stored", "idle")
  /\ cursor' = [cursor EXCEPT ![p] = reply[p].cursor]
  /\ lostByRead'   = [lostByRead EXCEPT ![p] = (@ \cup reply[p].raced) \ Queued(p)]
  /\ lostByUpload' = [lostByUpload EXCEPT ![p] = (@ \cup reply[p].skipped) \ Queued(p)]
  /\ lostByPower'  = [lostByPower EXCEPT ![p] = @ \ Queued(p)]
  /\ toAdd' = [toAdd EXCEPT ![p] = {}]
  /\ toRemove' = [toRemove EXCEPT ![p] = {}]
  /\ reply' = [reply EXCEPT ![p] = NoReply]
  /\ UNCHANGED <<dbVars, view, late, edits, faults>>

(* ------------------------------- what goes wrong -------------------------------- *)

(* The sync fails: cursor and queue stay, and the next sync starts again.  The    *)
(* phone may have applied the answer, and the upload it then sent may still reach *)
(* the server.                                                                   *)
Abandon(p) ==
  /\ phase[p] # "idle"
  /\ drops < MaxDrops
  /\ drops' = drops + 1
  /\ phase' = [phase EXCEPT ![p] = "idle"]
  /\ reply' = [reply EXCEPT ![p] = NoReply]
  /\ \/ UNCHANGED <<view, late, histVars>>
     \/ /\ phase[p] \in {"scanned", "answered"}
        /\ ApplyOnly(p)
        /\ \/ UNCHANGED late
           \/ /\ phase[p] = "answered" /\ Accepted(toAdd[p], toRemove[p])
              /\ late' = late \cup {[phone |-> p, add |-> toAdd[p], remove |-> toRemove[p]]}
  /\ UNCHANGED <<dbVars, toAdd, toRemove, cursor, edits, losses>>

(* The server executes an upload nobody waits for any more.                      *)
StoreLate(r) ==
  /\ late' = late \ {r}
  /\ Mention(Account[r.phone], r.phone)
  /\ Commit(Account[r.phone], r.phone, Sanitised(r.add), Sanitised(r.remove))
  /\ Remember
  /\ lostByPower' = [q \in Phones |-> lostByPower[q] \cup Passed(q)]
  /\ UNCHANGED <<phoneVars, phase, reply, lostByRead, lostByUpload, edits, faults>>

(* Mutant: without a journal the tables may end up at different commits.         *)
TornBack ==
  \E kept, torn \in past :
    changes' = kept.changes /\ lastId' = kept.lastId /\ devices' = torn.devices

(* WAL: whatever is lost, what is left is one commit.                            *)
FallenBack ==
  \E kept \in past :
    changes' = kept.changes /\ lastId' = kept.lastId /\ devices' = kept.devices

(* The host loses power and starts again: the last transactions are gone, their   *)
(* ids with them, and so is every request.  A phone that has the answer to its   *)
(* read in hand may go on with it.                                               *)
PowerLoss ==
  /\ losses < MaxLosses
  /\ losses' = losses + 1
  /\ FallenBack
  /\ past' = IF losses' < MaxLosses THEN {Database'} ELSE {}
  /\ \E on \in SUBSET {p \in Phones : phase[p] = "answered"} :
       /\ phase' = [p \in Phones |-> IF p \in on THEN phase[p] ELSE "idle"]
       /\ reply' = [p \in Phones |-> IF p \in on THEN [reply[p] EXCEPT !.shown = {}]
                                               ELSE NoReply]
  /\ late' = {}
  /\ lostByPower' = [p \in Phones |-> lostByPower[p] \cup
                       {r.url : r \in {q \in changes \ changes' : q.user = Account[p]}}]
  /\ UNCHANGED <<phoneVars, lostByRead, lostByUpload, edits, drops>>

SyncInit ==
  /\ Init
  /\ past = {Database}
  /\ view = [p \in Phones |-> {}]
  /\ toAdd = [p \in Phones |-> {}]
  /\ toRemove = [p \in Phones |-> {}]
  /\ cursor = [p \in Phones |-> 0]
  /\ phase = [p \in Phones |-> "idle"]
  /\ reply = [p \in Phones |-> NoReply]
  /\ late = {}
  /\ lostByRead = [p \in Phones |-> {}]
  /\ lostByUpload = [p \in Phones |-> {}]
  /\ lostByPower = [p \in Phones |-> {}]
  /\ edits = 0
  /\ drops = 0
  /\ losses = 0

SyncStep(p) ==
  \/ ScanRows(p) \/ TakeCursor(p) \/ Finish(p)
  \/ Store(p) \/ Refuse(p) \/ Acknowledge(p)

SyncNext ==
  \/ \E p \in Phones :
       \/ SyncStep(p)
       \/ Abandon(p)
       \/ \E x \in RawUrls : Subscribe(p, x) \/ Unsubscribe(p, x)
  \/ \E r \in late : StoreLate(r)
  \/ PowerLoss

SyncSpec == SyncInit /\ [][SyncNext]_syncVars

(* A phone keeps starting syncs and the server keeps answering the requests it   *)
(* holds; nobody has to edit, to fail, or to execute an abandoned upload.        *)
FairSyncSpec == SyncSpec /\ \A p \in Phones : WF_syncVars(SyncStep(p))

(* --------------------------------- properties --------------------------------- *)

Phases == {"idle", "scanned", "answered", "stored"}

(* Shapes of the phone side, and the log's own invariant, which losing the end of *)
(* the log must not disturb.                                                     *)
SyncTypeOK ==
  /\ LogInv
  /\ view \in [Phones -> SUBSET RawUrls]
  /\ toAdd \in [Phones -> SUBSET RawUrls]
  /\ toRemove \in [Phones -> SUBSET RawUrls]
  /\ cursor \in [Phones -> Nat]
  /\ phase \in [Phones -> Phases]
  /\ reply \in [Phones -> [added : SUBSET Urls, removed : SUBSET Urls, shown : SUBSET Urls,
                           upTo : Nat, cursor : Nat, raced : SUBSET Urls, skipped : SUBSET Urls]]
  /\ late \subseteq [phone : Phones, add : SUBSET RawUrls, remove : SUBSET RawUrls]
  /\ \A lost \in {lostByRead, lostByUpload, lostByPower} : lost \in [Phones -> SUBSET Urls]
  /\ edits \in 0..MaxEdits
  /\ drops \in 0..MaxDrops /\ losses \in 0..MaxLosses

(* Nothing about feed x is on its way to or from phone p, and yet the phone and  *)
(* the account disagree about it: p will not learn of it until x changes again.  *)
Diverged(p, x) ==
  /\ x \notin Queued(p)
  /\ \A r \in RowsOf(Account[p]) : r.url = x => r.id <= cursor[p]
  /\ (x \in view[p]) # (x \in CurrentUrls(Account[p]))

(* Lost responses, retries, refusals, late uploads and every interleaving of      *)
(* phones leave a phone out of step in three ways only: a change committed between *)
(* the two statements of its GET, one committed between its read and its upload,  *)
(* and a loss of power.                                                          *)
ViewFollowsList ==
  \A p \in Phones, x \in RawUrls :
    Diverged(p, x) => x \in lostByRead[p] \cup lostByUpload[p] \cup lostByPower[p]

(* Claimed by cursor_for, "coarser than necessary but never loses a change"      *)
(* (models.py:52-54), of the cursor a GET hands out.                             *)
ReadsLoseNothing ==
  \A p \in Phones, x \in Urls : Diverged(p, x) => x \notin lostByRead[p] \ lostByUpload[p]

(* Claimed by the module docstring, "Subscriptions are unaffected: their log is  *)
(* per device, and only that device writes to it" (models.py:25-26), of the      *)
(* cursor an upload hands out.                                                   *)
UploadsLoseNothing ==
  \A p \in Phones, x \in Urls : Diverged(p, x) => x \notin lostByUpload[p] \ lostByRead[p]

(* Until power is lost, every cursor a phone holds or is about to be given is one *)
(* the account has reached, so that whatever is committed next lies above it.    *)
CursorsWithinLog ==
  losses = 0 => \A p \in Phones : /\ cursor[p] <= Newest(Account[p])
                                 /\ reply[p].cursor <= Newest(Account[p])

(* A phone's stored cursor never goes back, although an upload answers with no   *)
(* floor ("if a response ever carried a smaller value ... it would ask for the   *)
(* same range forever", models.py:57-60), unless a loss of power took ids back.  *)
CursorNeverRewinds == [][losses = 0 => \A p \in Phones : cursor'[p] >= cursor[p]]_syncVars

(* A batch already stored holds no further change as long as nobody else wrote:  *)
(* the retry that follows a lost answer records nothing and announces nothing.   *)
RetryRecordsNothing ==
  \A p \in Phones :
    LET u == Account[p]
    IN  phase[p] = "stored" /\ Newest(u) = reply[p].cursor
          => NewAdditions(u, toAdd[p]) = {} /\ NewRemovals(u, toAdd[p], toRemove[p]) = {}

(* Once users stop editing and nothing fails any more, every phone empties its    *)
(* queue and stays at the newest id, or above it if ids were lost: no phone keeps *)
(* asking for the same range.  The exception is a phone whose queue names a URL   *)
(* the server refuses: it stays where it is, whatever else it has to say.         *)
CaughtUp(p) == Queued(p) = {} /\ cursor[p] >= Newest(Account[p])
Blocked(p) == Refused \in Sanitised(Queued(p))

AllCatchUp == <>[](\A p \in Phones : CaughtUp(p) \/ Blocked(p))
================================================================================

------------------------------- MODULE EpisodeSync ------------------------------
(* Phones of one account keeping listening positions in step through the episode *)
(* log.  A phone logs in, reads a page since its stored cursor, applies whatever *)
(* arrives, and uploads in batches: what it has queued and, when it read from 0,  *)
(* its whole database, stamped with the moment of the dump.  The server tells the *)
(* two apart by a flag in the phone's session, which Django loads when a request  *)
(* begins and stores, with everything else in the session, when it ends.  What a  *)
(* phone has given up on may begin and end at any time after.                     *)
(* The phone is AntennaPod as docs/protocol.md:136-182 describes it.              *)
EXTENDS EpisodeLog, Functions

CONSTANTS Account,      \* the account all phones sync with
          BatchSize,    \* actions the phone puts into one upload
          Nothing,      \* no position known
          MaxClock,     \* bound of the model: moments that pass
          MaxDrops      \* bound of the model: failed syncs and forced full syncs

Phones == DeviceIds     \* a phone names one device, its own

ASSUME SyncAssumption == /\ Account \in Users
                         /\ BatchSize \in Nat \ {0} /\ BatchSize <= MaxActionsPerRequest
                         /\ MaxClock \in Nat /\ 0..MaxClock+1 \subseteq Times
                         /\ ImportSentinel = 0
                         /\ Nothing \notin Contents

VARIABLES clock,        \* moments that have passed
          heard,        \* heard[g][c]: when g was really left at c, 0 if never
          held,         \* held[p][g]: the content the phone would resume g at
          queue,        \* queue[p]: actions the phone has not got acknowledged
          cursor,       \* cursor[p]: the timestamp the phone has stored
          phase,        \* phase[p]: how far the phone's current sync has come
          reply,        \* reply[p]: what the server answers to that sync's read
          outbox,       \* outbox[p]: what that sync still has to upload
          importing,    \* importing[p]: initial_import in the phone's session row
          late,         \* requests whose phone has given up on them
          crossed,      \* history: an abandoned request has put its flag under a sync
                        \* that relies on another, or an upload has found another's
          delivered,    \* history: rows downloaded by the phone
          gap, rest,    \* history: rows below the cursor of an upload, written after
                        \* the phone's read; left over when its page was full
          drops         \* how much of MaxDrops is used

phoneVars == <<held, queue, cursor>>
pathVars  == <<phase, reply, outbox, importing>>
histVars  == <<crossed, delivered, gap, rest>>
syncVars  == <<episodeVars, clock, heard, phoneVars, pathVars, late, histVars, drops>>

NoReply == [page |-> {}, cursor |-> 0, upTo |-> 0, flag |-> FALSE, saves |-> FALSE]

(* ------------------------------- listening ------------------------------------- *)

(* The user leaves an episode at a new position.  Before the first sync nothing   *)
(* is queued unless sync has been set up.                                         *)
Listen(p, g, c) ==
  /\ phase[p] = "idle"
  /\ clock < MaxClock
  /\ heard[g][c] = 0
  /\ clock' = clock + 1
  /\ heard' = [heard EXCEPT ![g][c] = clock']
  /\ held' = [held EXCEPT ![p][g] = c]
  /\ \/ queue' = [queue EXCEPT ![p] = @ \cup
                    {[group |-> g, content |-> c, at |-> clock', device |-> p]}]
     \/ cursor[p] = 0 /\ UNCHANGED queue
  /\ UNCHANGED <<episodeVars, cursor, pathVars, late, histVars, drops>>

(* --------------------------------- one sync ------------------------------------ *)

Advance(p, from, to) == phase[p] = from /\ phase' = [phase EXCEPT ![p] = to]

(* A login with the cookie of a session loads it, flag and all.                    *)
Login(p) ==
  /\ Advance(p, "idle", "loggingIn")
  /\ reply' = [reply EXCEPT ![p] = [NoReply EXCEPT !.flag = importing[p], !.saves = TRUE]]
  /\ UNCHANGED <<episodeVars, clock, heard, phoneVars, outbox, importing, late, histVars, drops>>

(* One of one's own account is kept, and stored as it was loaded.  When the phone  *)
(* has lost its cookie or the session is over, a new, empty one takes its place:   *)
(* what was abandoned knows the old one, and of all that only uploads still write  *)
(* anything a phone could notice.  Those that have not begun are taken to begin    *)
(* before this, as nothing else reads the old flag any more.                      *)
LoggedIn(p) ==
  /\ Advance(p, "loggingIn", "loggedIn")
  /\ reply' = [reply EXCEPT ![p] = NoReply]
  /\ \/ importing' = [importing EXCEPT ![p] = reply[p].flag] /\ UNCHANGED late
     \/ /\ importing' = [importing EXCEPT ![p] = FALSE]
        /\ late' = {r \in late : r.phone = p => r.kind = "upload"}
  /\ UNCHANGED <<episodeVars, clock, heard, phoneVars, outbox, histVars, drops>>

(* Mutants: a read from 0 is not noticed; a read from a real cursor clears nothing. *)
FlagNeverSet(p) == FALSE
FlagNeverCleared(p) == cursor[p] = 0 \/ importing[p]

(* What a read makes of the flag, and whether it has touched the session at all.  *)
FlagAfterRead(p) == cursor[p] = 0
TouchesSession(p) == cursor[p] = 0 \/ importing[p]

(* GET, up to its answer: the session is loaded and changed, the page selected.   *)
Get(p) ==
  /\ Advance(p, "loggedIn", "reading")
  /\ reply' = [reply EXCEPT ![p] =
       [page   |-> Page(Account, cursor[p]),
        cursor |-> PageCursor(Account, cursor[p]),
        upTo   |-> Newest(Account),
        flag   |-> FlagAfterRead(p),
        saves  |-> TouchesSession(p)]]
  /\ UNCHANGED <<episodeVars, clock, heard, phoneVars, outbox, importing, late, histVars, drops>>

(* A downloaded action is applied unless the phone's own queue has one of its     *)
(* group that is as late or later; what the phone holds is not looked at.         *)
Applied(p, g) == {r \in reply[p].page : /\ r.group = g
                                        /\ \A q \in queue[p] : q.group = g => q.at < r.at}

(* The end of the GET: the session is stored if it was touched, and the phone     *)
(* applies the page.                                                              *)
Download(p) ==
  /\ importing' = [importing EXCEPT ![p] = IF reply[p].saves THEN reply[p].flag ELSE @]
  /\ held' = [held EXCEPT ![p] = [g \in Groups |->
       IF Applied(p, g) = {} THEN held[p][g] ELSE (CHOOSE r \in Applied(p, g) : TRUE).content]]
  /\ delivered' = [delivered EXCEPT ![p] = @ \cup {r.id : r \in reply[p].page}]

(* The whole database: one action per position held, stamped later than any of     *)
(* them was listened to.                                                           *)
Dump(p) ==
  IF cursor[p] # 0 THEN {}
  ELSE {[group |-> g, content |-> held'[p][g], at |-> clock + 1, device |-> p] :
          g \in {h \in Groups : held'[p][h] # Nothing}}

(* There is nothing to upload: the cursor of the page is stored.                  *)
FinishRead(p) ==
  /\ Advance(p, "reading", "idle")
  /\ Download(p)
  /\ queue[p] \cup Dump(p) = {}
  /\ cursor' = [cursor EXCEPT ![p] = reply[p].cursor]
  /\ reply' = [reply EXCEPT ![p] = NoReply]
  /\ UNCHANGED <<episodeVars, clock, heard, queue, outbox, late, crossed, gap, rest, drops>>

StartUpload(p) ==
  /\ Advance(p, "reading", "uploading")
  /\ Download(p)
  /\ outbox' = [outbox EXCEPT ![p] = queue[p] \cup Dump(p)]
  /\ outbox'[p] # {}
  /\ UNCHANGED <<episodeVars, clock, heard, queue, cursor, reply, late, crossed, gap, rest, drops>>

(* The uploads the outbox may be sent as next: a full batch, or all that is left. *)
NextBatches(p) ==
  LET n == Min({BatchSize, Cardinality(outbox[p])})
  IN  {b \in [1..n -> outbox[p]] : IsInjective(b)}

(* What an upload answered with the cursor c hides from the phone, if that is the *)
(* cursor it stores: rows it has not read and not written.                        *)
Hidden(p, lo, hi) == {r.id : r \in {q \in RowsOf(Account) : lo < q.id /\ q.id <= hi
                                                            /\ q.device # p}}

(* POST of one batch and its answer.  After the last one the phone empties its     *)
(* queue and stores the answer's timestamp in place of the page's.                *)
PostBatch(p, batch) ==
  LET left == outbox[p] \ {batch[i] : i \in DOMAIN batch}
      r    == reply[p]
  IN  /\ phase[p] = "uploading"
      /\ Upload(Account, batch, importing[p], clock)
      /\ outbox' = [outbox EXCEPT ![p] = left]
      /\ IF left # {}
         THEN UNCHANGED <<queue, cursor, phase, reply, gap, rest>>
         ELSE /\ queue' = [queue EXCEPT ![p] = {}]
              /\ cursor' = [cursor EXCEPT ![p] = CursorFor(Account, 0)']
              /\ phase' = [phase EXCEPT ![p] = "idle"]
              /\ reply' = [reply EXCEPT ![p] = NoReply]
              /\ rest' = [rest EXCEPT ![p] = @ \cup Hidden(p, r.cursor, r.upTo)]
              /\ gap' = [gap EXCEPT ![p] = @ \cup Hidden(p, r.upTo, lastId)]
      /\ UNCHANGED <<clock, heard, held, importing, late, crossed, delivered, drops>>

(* ------------------------------ failures and resets ----------------------------- *)

(* The request a phone has sent when it gives up: a login, a read or an upload     *)
(* that has not begun, or one that has yet to store its session.  Its flag is      *)
(* what its own sync makes of the import flag, and once it has begun, what it has  *)
(* made of it or found.                                                           *)
InFlight(p) ==
  LET sent(kind, flag, batch) ==
        [mark |-> drops, phone |-> p, kind |-> kind, flag |-> flag, batch |-> batch]
  IN  CASE phase[p] = "idle"      -> {sent("login", FALSE, <<>>)}
        [] phase[p] = "loggedIn"  -> {sent("read", cursor[p] = 0, <<>>)}
        [] phase[p] = "uploading" -> {sent("post", cursor[p] = 0, b) : b \in NextBatches(p)}
        [] OTHER -> IF reply[p].saves THEN {sent("session", reply[p].flag, <<>>)} ELSE {}

(* The sync fails, and with it its dump: queue and cursor stay.                    *)
Drop(p) ==
  /\ drops < MaxDrops
  /\ drops' = drops + 1
  /\ phase' = [phase EXCEPT ![p] = "idle"]
  /\ reply' = [reply EXCEPT ![p] = NoReply]
  /\ outbox' = [outbox EXCEPT ![p] = {}]
  /\ \/ phase[p] # "idle" /\ UNCHANGED late
     \/ \E r \in InFlight(p) : late' = late \cup {r}
  /\ UNCHANGED <<episodeVars, clock, heard, phoneVars, importing, histVars>>

(* "Force full synchronisation": the phone forgets its cursor.                     *)
ForceFullSync(p) ==
  /\ phase[p] = "idle" /\ cursor[p] # 0
  /\ drops < MaxDrops
  /\ drops' = drops + 1
  /\ cursor' = [cursor EXCEPT ![p] = 0]
  /\ UNCHANGED <<episodeVars, clock, heard, held, queue, pathVars, late, histVars>>

(* An abandoned request begins: it loads the session, as it is by now.  A login    *)
(* will store it as it is, a read if it changes it; an upload finds out whether it *)
(* is an import, perhaps from a later sync of its phone.                          *)
BeginSession(r) ==
  /\ r.kind \in {"login", "read"}
  /\ late' = (late \ {r}) \cup
       (CASE r.kind = "login" -> {[r EXCEPT !.kind = "session", !.flag = importing[r.phone]]}
          [] r.kind = "read" /\ (r.flag \/ importing[r.phone]) -> {[r EXCEPT !.kind = "session"]}
          [] OTHER -> {})
  /\ UNCHANGED <<episodeVars, clock, heard, phoneVars, pathVars, histVars, drops>>

BeginUpload(r) ==
  /\ r.kind = "post"
  /\ late' = (late \ {r}) \cup {[r EXCEPT !.kind = "upload", !.flag = importing[r.phone]]}
  /\ crossed' = (crossed \/ importing[r.phone] # r.flag)
  /\ UNCHANGED <<episodeVars, clock, heard, phoneVars, pathVars, delivered, gap, rest, drops>>

(* The sync under way has read, and stores the flag no more: it needs it as it is. *)
Relies(p) == phase[p] = "uploading" \/ (phase[p] = "reading" /\ ~reply[p].saves)

(* An abandoned request ends: the session is stored as it was loaded and changed. *)
StoreSession(r) ==
  /\ r.kind = "session"
  /\ late' = late \ {r}
  /\ importing' = [importing EXCEPT ![r.phone] = r.flag]
  /\ crossed' = (crossed \/ (Relies(r.phone) /\ importing[r.phone] # r.flag))
  /\ UNCHANGED <<episodeVars, clock, heard, phoneVars, phase, reply, outbox,
                 delivered, gap, rest, drops>>

StoreUpload(r) ==
  /\ r.kind = "upload"
  /\ late' = late \ {r}
  /\ Upload(Account, r.batch, r.flag, clock)
  /\ UNCHANGED <<clock, heard, phoneVars, pathVars, histVars, drops>>

(* ------------------------------- specification ---------------------------------- *)

SyncInit ==
  /\ Init
  /\ clock = 0
  /\ heard = [g \in Groups |-> [c \in Contents |-> 0]]
  /\ held = [p \in Phones |-> [g \in Groups |-> Nothing]]
  /\ queue = [p \in Phones |-> {}]
  /\ cursor = [p \in Phones |-> 0]
  /\ phase = [p \in Phones |-> "idle"]
  /\ reply = [p \in Phones |-> NoReply]
  /\ outbox = [p \in Phones |-> {}]
  /\ importing = [p \in Phones |-> FALSE]
  /\ late = {}
  /\ crossed = FALSE
  /\ delivered = [p \in Phones |-> {}]
  /\ gap = [p \in Phones |-> {}]
  /\ rest = [p \in Phones |-> {}]
  /\ drops = 0

SyncStep(p) ==
  \/ Login(p) \/ LoggedIn(p) \/ Get(p) \/ FinishRead(p) \/ StartUpload(p)
  \/ \E batch \in NextBatches(p) : PostBatch(p, batch)

SyncNext ==
  \/ \E p \in Phones :
       \/ SyncStep(p)
       \/ Drop(p)
       \/ ForceFullSync(p)
       \/ \E g \in Groups, c \in Contents : Listen(p, g, c)
  \/ \E r \in late : BeginSession(r) \/ BeginUpload(r) \/ StoreSession(r) \/ StoreUpload(r)

SyncSpec == SyncInit /\ [][SyncNext]_syncVars
FairSyncSpec == SyncSpec /\ \A p \in Phones : WF_syncVars(SyncStep(p))

(* --------------------------------- properties ----------------------------------- *)

QueueEntry == [group : Groups, content : Contents, at : Times, device : Phones]

(* Shapes of the phones' side, and the log's own invariant.                        *)
PhonesTypeOK ==
  /\ LogInv
  /\ clock \in 0..MaxClock
  /\ heard \in [Groups -> [Contents -> 0..MaxClock]]
  /\ held \in [Phones -> [Groups -> Contents \cup {Nothing}]]
  /\ queue \in [Phones -> SUBSET QueueEntry]
  /\ outbox \in [Phones -> SUBSET QueueEntry]
  /\ cursor \in [Phones -> Nat]
  /\ phase \in [Phones -> {"idle", "loggingIn", "loggedIn", "reading", "uploading"}]
  /\ \A p \in Phones : reply[p].page \subseteq records
  /\ importing \in [Phones -> BOOLEAN]
  /\ drops \in Nat

(* Detection and demotion (docs/protocol.md:158-172): an upload is an import       *)
(* exactly when its sync read from 0, across failures, retries, forced full syncs, *)
(* lost cookies and sessions kept from one sync to the next, until the session of  *)
(* an abandoned login or read is stored under it (crossed).                        *)
FlagFollowsRead ==
  \A p \in Phones : phase[p] = "uploading" /\ ~crossed => (importing[p] <=> cursor[p] = 0)

(* No fabricated moment is stored until two syncs of one phone have met in its     *)
(* session (crossed): a row says when somebody really listened, or it makes no     *)
(* claim (docs/protocol.md:168-172).                                               *)
Genuine(r) == r.at = ImportSentinel \/ r.at = heard[r.group][r.content]
NothingFabricated == crossed \/ \A r \in records : Genuine(r)

Moment(p, g) == IF held[p][g] = Nothing THEN 0 ELSE heard[g][held[p][g]]

(* The position the phone holds is one the server has under its own moment, or one *)
(* the phone is about to report.                                                   *)
Reported(p, g) ==
  \/ \E r \in records : r.group = g /\ r.content = held[p][g] /\ r.at # ImportSentinel
  \/ \E q \in queue[p] : q.group = g /\ q.content = held[p][g]

(* No download rewinds listening that was reported: the phone applies any action   *)
(* that crosses the wire, so no dump, retry or late report of another phone may    *)
(* become a winner over it (docs/protocol.md:148-156, models.py:244-247).          *)
NoRewind ==
  [][~crossed' => \A p \in Phones, g \in Groups :
       Reported(p, g) => Moment(p, g)' >= Moment(p, g)]_syncVars

(* The winners below a phone's cursor that it neither wrote nor downloaded.        *)
Missed(p) == {r.id : r \in {q \in Winners(Account, 0) : q.id <= cursor[p] /\ q.device # p}}
               \ delivered[p]

(* A phone misses a winner in two ways only, both by storing the cursor of an       *)
(* upload: what was written after its read, and what did not fit its page.         *)
WinnersArrive == \A p \in Phones : Missed(p) \subseteq gap[p] \cup rest[p]

(* When users and failures have come to rest every phone empties its queue and     *)
(* reaches the newest id, page by page and batch by batch.                         *)
PhonesCatchUp == \A p \in Phones : <>[](queue[p] = {} /\ cursor[p] = Newest(Account))
================================================================================

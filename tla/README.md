# gpodsync in TLA+

gpodsync keeps the podcast subscriptions and listening positions of one person's
devices in step. It is a Django application on SQLite, served by one uvicorn
process with a thread per request, and its clients are AntennaPod phones that sync
whenever they please, lose responses and try again. This directory holds a model
of it, what TLC checks on small instances and what TLAPS proves for every size.
References such as `models.py:155` are to `src/gpodsync/`; tests and docs are named
with their directory.

## The system

| component | state | operations | hard because |
|---|---|---|---|
| subscription log (`models.py`, `api/views.py` SubscriptionsView) | `SubscriptionChange` rows whose ids are cursors | read since a cursor, upload additions and removals | devices interleave; the list and every delta are derived from the log; the cursor is computed apart from the rows |
| episode log (`models.py`, EpisodeActionsView) | `EpisodeActionRecord` rows, unique per content | read a page of winners, upload actions, import | retries, ties, dumps with fabricated times, pages |
| devices (`Device`, DeviceConfigView, DeviceListView) | rows per (account, identifier) | created on first mention, configured, listed | created by requests that are then refused; two configurations of one device overlap |
| phones (external; `docs/protocol.md`, `tests/fake_antennapod`) | feeds, queue of unsent changes, cursor | read, apply, upload, store the cursor | a response may be lost, a request executed late |
| episode action codec (`domain/episode_actions.py`) | none | parse, compare, serialise | refusals, collapsing keys, the ends of datetime |
| login and sessions (LoginView, `api/base.py`, Django sessions) | sessions with the `initial_import` flag | log in, authenticate, expire | a session read by a request that ends after it; one flag read and written by several requests |
| lockout (django-axes, `domain/addresses.py`) | failures per (username, address) | count, refuse, reset, expire | attempts looked up together and counted later; an address that is a claim |
| configuration, secret key (`config.py`) | the key file | resolve at start | processes start together or die half-way |
| accounts (`accounts.py`, `bootstrap_account`, `adduser`, `docker-entrypoint.sh`) | user rows | bootstrap on every start, add by hand | check, then create; a failure stops the container |
| migrations | schema | change a constraint over a table with a history | rows in its way |
| tracing, redaction, logging, routing, static page | none | text and routes | nothing stateful |

Phones talk to the server in request and response only. The server's state is
shared by all its request threads through SQLite, whose write transactions take
the lock when they open (`transaction_mode IMMEDIATE`), so a transaction is one
atomic step and everything outside one is as many steps as it has statements.

What makes each of them correct:

* subscriptions: one list per account whichever device reports; a cursor never hides
  a change from the device that holds it; a retry changes nothing; a refused upload
  stores nothing; every phone ends up with the account's list;
* episodes: a device is told one position per episode and verb, never an older one
  than it was told before; imports fill gaps and override nothing; retries store
  nothing; pages lose nothing;
* the import: an upload is treated as a dump exactly when it is one, across failed
  syncs, retries, late requests and sessions that outlive a sync; no download rewinds
  a phone;
* the codec: what is stored can be served, and what is served can be reported again;
* devices: what was last said of a device is what it is listed with;
* sessions and lockout: a session names one account until it ends; guesses stay few,
  and lock nobody out but the address they came from;
* durability: what a loss of power takes is all that is lost;
* start-up: all processes agree on the key; the account is made once and keeps its
  password; a start that finds it comes up;
* the migration: what it leaves is what would be there had it always been in force.

`PROJECT.json` lists the components with what is modelled of each, and under
`hazards` the places where the code is hard to test, each with the properties
that watch it or the reason none does yet.

## Modules

| module | what it is |
|---|---|
| `AccountList` | abstract: one list per account, an upload adds a set and then removes a set |
| `SubscriptionLog` | the log, its readers and the upload; one action is one request; implements `AccountList` |
| `SubscriptionSync` | phones syncing through `SubscriptionLog`; requests split where the code can interleave |
| `ResumePoints` | abstract: accepted claims, and one leading claim served per group |
| `EpisodeLog` | the episode log, its upload and its pages; implements `ResumePoints` |
| `ContentMigration` | the table of a database that is migrated while `EpisodeLog` shows what it should hold |
| `EpisodeSync` | phones syncing positions through `EpisodeLog`: sessions, the import flag, pages, batches, dumps |
| `ActionWire` | the codec between an uploaded object, the row and the object served |
| `Devices` | the device table, its configuration in two steps, and its list |
| `Access` | who a request acts for: login, sessions, Basic credentials, lockout, client addresses; extends `Devices` |
| `SecretKey` | processes resolving the signing key, statement by statement |
| `Bootstrap` | what such a process does next: create the account; extends `SecretKey` |
| `MCSubscriptionLog`, `MCSubscriptionSync`, `MCContentMigration`, `MCEpisodeSync`, `MCActionWire`, `MCAccess`, `MCBootstrap` | small instances for TLC |
| `SubscriptionLog_proofs`, `SubscriptionSync_proofs` | theorems of the log, and of the phones that sync through it |
| `EpisodeLog_proofs`, `ContentMigration_proofs`, `EpisodeSync_proofs` | the same for episodes, and for a database that is migrated |
| `ActionWire_proofs`, `Access_proofs`, `SecretKey_proofs` | theorems of the codec, of the door with the devices behind it, and of start-up (`Bootstrap` included) |

### SubscriptionLog

`changes` is the table of `SubscriptionChange`, `lastId` SQLite's sequence for it
(AUTOINCREMENT, so an id is never used twice) and `devices` the device table by its
unique key. `CurrentUrls` is `current_urls`, `AddedSince`, `RemovedSince` and
`CursorFor` are the three results of `changes_since`. `Upload` is the accepted POST:
`Accepted` are its checks, `NewAdditions` and `NewRemovals` the two loops (removals
look at the picture the additions have updated), `Commit` the transaction. Inside a
batch the order of URLs decides only ids, so `Orders` leaves it open. `RefusedUpload`
is a 400: the device exists by then, nothing else has changed. URLs are values, and
`Sanitise`, the function from a spelling to the stored URL or to `Refused`, is a
constant: the model holds for any normalisation.

### SubscriptionSync

Each phone walks through one sync. `ScanRows` is the first statement of the GET. A phone
with an empty queue ends with `Finish`: the second statement, the answer applied (the
phone's own unsent changes winning), the cursor stored. One with something to say
goes on with `TakeCursor` (the second statement), `Store` (the answer applied, the upload's
transaction and its cursor) and `Acknowledge`. What a phone does by itself is folded
into the neighbouring step, since nobody sees it in between.

`Refuse` is the 400 of a batch that names a URL `Sanitise` refuses: the device is
mentioned, queue and cursor stay, and the phone will send the same batch again.
`Abandon` fails a sync at any point, with the answer applied or not; an upload on its way
goes into `late`, from where `StoreLate` may execute it at any later time or never.
`PowerLoss` is the host losing power: with WAL and `synchronous=NORMAL` the database comes
back as some earlier commit (`past`) left it, every request is gone, and ids will be handed
out again that phones have cursors above. A phone that had its answer in hand may go on with
it. Phones spell feeds as the server does, or in a way it refuses (`SpellingAssumption`): what
`update_urls` corrects, AntennaPod ignores, so a third kind of phone would keep a URL of its
own that the server never mentions again.

`Subscribe` and `Unsubscribe` are the user between syncs; the phone's queue
holds the user's last word about each feed. `lostByRead`, `lostByUpload` and `lostByPower`
are history variables: they name the feeds whose change fell between the two statements
of the GET a cursor came from, or between read and upload, or was lost with the power or
committed under an id a phone's cursor had passed before. The code never
reads them; they let a property say why a phone is out of step.

### EpisodeLog

`Groups` are (podcast, episode, verb) and `Contents` what `content_key` adds to them:
guid and offsets. `Beats` is the `superseded` subquery (later, or as late with a
lower id), `Winners`, `Page` and `PageCursor` are `EpisodeActionRecord.since`.
`Stored` is `bulk_create(ignore_conflicts=True)`: rows go in one by one and a row whose
content is there is dropped, though its id is spent (so is it with SQLite's INSERT OR
IGNORE on an AUTOINCREMENT table). `importing` is the session's flag, here a free
choice of every upload. `RefusedUpload` is the 400 of a bad device in the middle of
the loop, which leaves the devices of the actions before it behind. Requests that
are refused earlier change nothing.

### ContentMigration

Migration 0002 deletes all but the first row of every content and replaces the
constraint on content and moment by one on content. `table` is the real table under
the schema in force, `records` (of `EpisodeLog`) the log that had the new constraint from
its first row; every upload goes into both. `Migrate` is one transaction (SQLite rolls
back schema and rows together), so the chunks of the DELETE are not steps.
`MigrateBack` changes the schema only. What is deleted may be the current winner: of
three reports of which the first and third say the same, the third goes and the second
wins. That is the rule of the new constraint, which `MigratedAsIfAlways` shows the
dedupe to apply exactly; see "Known gaps".

### EpisodeSync

One sync of a phone is `Login` and `LoggedIn`, `Get` (session loaded, flag decided, page
selected), then `FinishRead` if there is nothing to say, or `StartUpload` and a `PostBatch` for
each batch; the last one stores the upload's cursor over the page's. Django loads the session
row when a request first looks at it and stores all of it when the request ends. A login of the
session's own account always stores it, with the flag as it was loaded (`login()` keeps the key);
any other starts an empty one (the session is over, the cookie lost; `Access` has the
sessions themselves). A GET stores it only if the view touched it (`TouchesSession`: `pop` of an
absent key does not count). An upload reads the flag and stores nothing of the session. A sync that
read from 0 uploads `Dump`, the whole database stamped with the moment of the dump. `Applied` is
the phone's filter: what it downloads it applies, unless its own queue has something as late.
`ForceFullSync` forgets the cursor. Listening happens between syncs, and every position
is heard once: returning to an old position is the gap named below.

`Drop` fails a sync anywhere and may leave a request behind (`InFlight`) that begins and ends
at any later time, or never. One that has not begun (`BeginSession`, `BeginUpload`) loads the
session then, not when it was sent, so an upload of an abandoned dump may find the flag of a
later sync; one that has ends with `StoreSession` (a login's or a read's session, stored
whole) or `StoreUpload` (an upload's rows). A new session makes those of the old one harmless
but for the rows of uploads, and what happens to the old one commutes with all that follows,
so `LoggedIn` drops the rest. A request the phone is waiting for reads or writes the log in
one step with the flag it found: the two statements of a page read apart are
`SubscriptionSync`'s race, and between an upload's look at the flag and its rows another sync
of the same phone can only come in if the phone has given up, which makes it an abandoned one.

`crossed` is history: two syncs of one phone have met in its session. It becomes true when an
abandoned request stores a session with another flag under a sync that has read and relies on it
(`Relies`), or when an abandoned upload finds another flag than its own sync set. From then
on `FlagFollowsRead`, `NothingFabricated` and `NoRewind` promise nothing; see "Known gaps".
Meetings that do no such harm (a session stored under a login, or before the read that sets
its own flag; an upload that finds what it should) do not count. `delivered`, `gap` and `rest` are
history too: what was downloaded, and what lies below the cursor of an upload because it was
written after the read or did not fit the page.

### ActionWire

A field is a value, `Missing`, or `Bad` (wrong type, too long, unreadable); a timestamp may also be
`NoText`, a number or a list, whose `strip()` is an `AttributeError`. `RefusedEarly`, `Raises` and
`RefusedLate` keep the order in which `parse_action` reads the fields, since what raises between
them ends the request differently: nothing turns it into a 400. Times are ticks: a moment and a
UTC offset, with datetime ending at both ends, and `TicksPerSecond` ticks to a second, of
which `format_timestamp` serves whole ones. `Relay` is a client that reports what it was
served.

### Devices and Access

`ReadRow` and `SaveRow` are the two halves of `DeviceConfigView.post`, which reads a row,
merges the body with what it has read (`Merged`) and writes both fields, with no
transaction around them. `said` and `undone` are history: the last thing a saved body said of
a field, and the fields a configuration that did not mention them has written back from a
row another one had changed since.

`Access` puts that table behind the door. A password is hashed between the lookup in the
lockout and the count, so `Attempt` (not `Locked`) and its outcome are two steps: `Fail`,
`Login`, `Enter` (Basic credentials on another endpoint, which forgive nothing) or `Mismatch`
(the right password and another account in the path: a 401 that counts nothing). `Resume` is a
request with a live session. `Sync` and `Configure` are what it may then do; a request that has
changed its session stores it at its end (`StoredBack`) if it is still there, and one that came
with Basic credentials alone is given none (`views.py:271-275`). `StartSession`
is Django's `login()`: a session of the same account keeps its key
(`tests/component/test_authentication.py:64-68`), any other is replaced. `CoolOff` and
`Expire` are time, at any moment. `ClientAddress` is `client_address`; a request of a
host goes through all `Proxies`, each appending the address it saw after whatever the
client had claimed. django-axes and Django's sessions are external: they do what
`settings.py:140-212` asks of them. `misses` and `guesses` are history. A refused attempt
is not a step: during a lockout axes counts it and starts the cool-off again, which a
`CoolOff` that may come at any time, or never, allows for.

### SecretKey and Bootstrap

Every `manage.py` process and the server resolve the key when their settings are loaded, so
a process of `SecretKey` is any of them. The file goes from `Absent` to `Empty` (created,
nothing flushed) to a key. Each statement that touches the file is an action, and a process
may `Die` at any of them. `raced` is history: a file was truncated while it held a key or
its writer was about to fill it. In `Bootstrap` a process goes on to `create_account`:
`LookUp` (does the name exist, is the password acceptable), then `CreateUser` (the insert).
All processes name one account; each has its own password, some are rejected; some run
`adduser`, for which "already exists" is an error. A configured key
(`GPODSYNC_SECRET_KEY`) bypasses the file and is not modelled.

Operators marked `Mutant` in the modules are plausible mistakes in the operator that
follows them. No specification uses them; each stands for a regression one of the
properties is there to catch, and `PROJECT.json` says which.

## What is checked

| run | instance | shows |
|---|---|---|
| `subscription_log` | 2 accounts with one device identifier, 2 feeds in 3 spellings (one normalised, one refused), 5 ids | `LogInv`, `HistoryAlternates`, `DeltaRestoresList`, `ImplementsAccountList`, `BatchDecidesList` |
| `sync_two_phones` | 2 phones, 1 account, 2 feeds and a refused spelling, 2 edits, 1 failed sync, 1 loss of power, fair | `SyncTypeOK`, `ViewFollowsList`, `CursorsWithinLog`, `RetryRecordsNothing`, `CursorNeverRewinds`, `AllCatchUp` |
| `access` | 2 accounts, 2 names (one of nobody), 2 hosts behind 1 proxy, limit 2, 2 threads, 2 session keys, 1 device each | `AccessTypeOK`, `SettingsAsSaid`, `OwnFailuresOnly`, `GuessesBounded`, `SessionsKeepTheirAccount` |
| `episode_log` | 2 accounts, 1 group, 2 contents, 3 moments (one before the epoch, 2 in a table at once), uploads of up to 2, 3 ids, any migrations | `LogInv`, `OneWinner`, `ImportOverridesNothing`, `ImplementsResumePoints`, `MigratedAsIfAlways`, `ConstraintHolds`, `NothingForgotten` |
| `episode_sync_import` | 2 phones, 1 group, batches of 1; 3 listens, failures and forced full syncs together, or 2 listens with 2 of the others | `PhonesTypeOK`, `FlagFollowsRead`, `NothingFabricated`, `NoRewind` |
| `episode_sync_pages` | 2 phones, 2 groups, pages of 1, batches of 2, 1 failure or forced full sync, fair | `WinnersArrive`, `PagesSkipNothing`, `PhonesCatchUp` |
| `action_wire` | 5 offsets around the limits, 4 ticks of 2 to the second, 3 zones, 1 row | `WireTypeOK`, `CollapseLosesNothing`, `EchoChangesNothing` |
| `bootstrap` | 3 container starts (one with a rejected password), 1 adduser, all overlapping, fair | `TypeOK`, `OneKeyUnlessRaced`, `UpWithAccount`, `PasswordStays`, `EveryStartEnds`, `RestartComesUp` |
| `sync_read_race`, `sync_upload_skip`, `action_wire_overflow`, `secret_key_mint` | small | violated, see Findings |

Bounds. `MaxId` ends the log; five ids are enough for add, remove, add again and two changes
of another account or feed. One device identifier is enough in `subscription_log`, because
nothing that reads the log looks at the device of a row; `sync_two_phones` has two. Three ids
of `episode_log` are a report, its re-report at another moment and something in between, of
the same account or another; the two moments a table holds at once (`WithinBounds`) may be on
either side of the epoch. In `EpisodeSync` two listens (`MaxClock`) on two phones make one
stale, and a third puts a late report beside a claim that beats it. `episode_sync_import` has
three listens and failures together, or two and two with one request late at a time
(`WithinBounds`): a failure leaves a request, and the next, or a forced full sync, makes it
meet another sync. It goes no further where two syncs have met, since its properties say
nothing more there. The dumps and retries never reach `MaxId`. That run looks at states
without the histories of downloads (`WithoutDownloads`), which none of its properties reads.
`episode_sync_pages` looks at late uploads for the rows they add, and leaves out late requests
that touch the flag alone (`LateUploadsOnly`). The batch size, the page size and the dump are
of the order of one, so that cut pages and interrupted dumps are the ordinary case. One row is
enough in `ActionWire`, where properties compare a report with the row it collapses into.
`MaxEdits`, `MaxDrops` and `MaxLosses` bound the users, the network and the host: two edits
with one failure and one loss reach a retry that races another phone's change, a late upload
that contradicts a newer one, and an id handed out twice below a cursor. In `access`,
`WithinBounds` keeps passwords guessed at (`MaxMisses`, enough to lock a key, exceed the limit
and count elsewhere too) apart from devices being configured; sessions come and go with
either. The theorems have no such bound. In `SubscriptionSync` ids never run out: every edit
is uploaded at most twice per failure. In `Bootstrap` every command ends, so its run allows
the system to stop. In `SubscriptionLog` and `EpisodeLog` the log does fill up; reads and
refused uploads go on, so nothing deadlocks. Symmetry is used only where no constant singles
out a value and no liveness is checked.

Fairness. `FairSyncSpec` asks weak fairness of each phone's sync as a whole: a phone
keeps scheduling syncs, and the server answers a request it holds (a thread per
request, and a 20 s lock timeout that the short transactions of one process do not
reach). Nothing obliges users to edit, syncs to fail, or abandoned uploads to be
executed; edits, listening and failures stop because they are bounded, which is the usual
"eventually quiet" reading. `StoreLate` needs no fairness: a late upload that never
runs is a request that died with its connection. `FairBootSpec` asks it of each process's
own steps: an operating system runs a process that is not killed, and the entrypoint does
not wait for anything else.

`ViewFollowsList` is the central property of the sync: whatever the interleaving, the only
ways to be out of step are the two windows in the findings and a loss of power. It is stated
with the history variables so that it stays meaningful in their presence. `AllCatchUp` excuses
one phone, the `Blocked` one whose queue names a refused URL. That no account disturbs another
is `subscription_log`'s to show. `NoRewind` and `WinnersArrive` are their counterparts for
episodes: no download takes a phone back behind listening that was reported, and a winner a
phone misses is one of two named kinds.

## Findings

* **Uploads skip other devices' subscription changes** (`sync_upload_skip`). The cursor
  of an upload is account-wide (`views.py:221`), so what another device committed
  between this device's read and its upload is never served to it. `models.py:25-26`
  claims subscriptions are unaffected because the log is per device; it no longer is.
* **A GET can lose a change** (`sync_read_race`). Rows and cursor are two statements
  (`models.py:151-155`) and no transaction holds them together. The cursor is said to
  be "coarser than necessary but never loses a change" (`models.py:52-54`).
* **A timestamp can leave datetime** (`action_wire_overflow`). `parse_timestamp` moves a
  moment to UTC outside its `try` (`episode_actions.py:95`): year 1 with a positive offset
  and year 9999 with a negative one raise `OverflowError`, which the view does not catch,
  where `parse_action` promises `InvalidAction` (`episode_actions.py:119`). The whole batch
  answers 500, and again on every retry. A timestamp that is not text ends the same way, one
  line into the function (`episode_actions.py:84`); the run leaves it out, so that the trace is the
  overflow.
* **Two starts can run with two keys** (`secret_key_mint`). A start that loses the `O_EXCL`
  race while the winner has created the file and not yet flushed it finds it empty, takes
  it for an interrupted write and replaces it (`config.py:120-126`).

Known gaps, which the code accepts or its comments half describe, and which the passing
properties name instead of hiding:

* Reports are unique by content without time (`models.py:201-206`), so listening again at a
  position reported once before is dropped, and a position reported in between stays
  the winner. `EpisodeSync` lets every position be heard once, and `NoRewind` speaks of those.
* An upload answers with the newest id of the account (`views.py:367`). What was written
  since the read is missed, as the docstring of `models.py` says, and so is the rest of a
  page that was cut short, which `since()` says the client asks for on its next sync
  (`models.py:233-234`): a client that uploads in that sync stores a cursor above it, and a
  first sync always uploads. `WinnersArrive` has the two as `gap` and `rest`.
* After a loss of power ids are assigned again. `settings.py:124-127` accepts that the last
  transactions are lost; what is also lost is what is committed afterwards under ids that a
  phone's cursor has passed, which that phone is never told of. `lostByPower` holds both.
* A URL the server refuses blocks its phone's queue: the 400 is for the whole batch
  (`feeds.py:67`), the phone sends the same batch on every sync, and nothing else it has to say
  arrives. Unsubscribing does not help, because the removal names the same URL. (In
  `sanitise_feed_url`, an address `urlsplit` itself rejects, such as an unclosed IPv6 host, is
  a `ValueError` nobody turns into a refusal, which ends the same way with a 500; and the
  fragment is dropped, although `feeds.py:9-10` says that nothing else is changed.)
* A sync can meet the requests of an earlier one of the same phone that was given up on, since
  a login of the same account keeps the session and Django stores all of a session when a
  request ends. A read or a login that ends late puts its old flag back (`views.py:77`,
  `views.py:275-277`): the dump of a "force full sync" is then taken for live reports, or live reports for a
  dump. And a batch of an abandoned dump that is executed after a later sync has popped the flag
  (`views.py:277`, `views.py:324`) is stored with the moments of the dump, which can rewind other phones.
  `crossed` names these cases.
* A moment before 1970, which `parse_timestamp` accepts, is a weaker claim than an import's
  (`episode_actions.py:35-39` counts on there being none). `ImportOverridesNothing` says that an
  import displaces nothing else.
* Overlapping configurations of one device undo fields they do not mention
  (`views.py:118-121`); `undone` names them.
* The lockout admits more guesses than its limit when attempts arrive together
  (`base.py:207`), by fewer than the number of threads.
* A container start that is beaten between looking for the account and creating it stops
  with an exception, "already exists" or not (`accounts.py:30-38`); `RestartComesUp` says
  the next start comes up.

## What is proved

For every choice of the constants under the assumptions the modules name:

* `SubscriptionLog`: `RefusedAssumption` and `SanitiseAssumption` (sanitising is a total function
  to URLs or a refusal), `LimitsAssumption`; `SubscriptionSync` adds `AccountAssumption` (a phone
  has one account), `SpellingAssumption` (its URLs are stored as it spells them, or refused) and
  `BoundsAssumption` (the bounds are numbers, of any size);
* `EpisodeLog`: `TimesAssumption` (there is a last moment; the sentinel of an import is any
  of them), `NoClaimAssumption`, `DeviceAssumption`, `LimitsAssumption`; `EpisodeSync` adds
  `SyncAssumption` (the phones' clocks start at the sentinel, the epoch, and stay within those moments;
  a batch fits a request);
* `ActionWire`: `WireAssumption` and `AbsenceAssumption` (what is absent or unusable is not a text,
  a number or a time);
* `Devices` and `Access`: `FieldsAssumption`, `HopsAssumption` (the setting counts the
  proxies there are), `ThreadsAssumption`, `LimitAssumption`, `OwnersAssumption`;
* `SecretKey` and `Bootstrap`: `KeyAssumption`, `StartingAssumption`, `BootstrapAssumption`.

| theorem | statement |
|---|---|
| `SubscriptionLog_proofs!LogInvariant` | `Spec => []LogInv` |
| `SubscriptionLog_proofs!HistoryInvariant` | `Spec => []HistoryAlternates` |
| `SubscriptionLog_proofs!DeltaInvariant` | `Spec => []DeltaRestoresList` |
| `SubscriptionLog_proofs!BatchProperty` | `Spec => BatchDecidesList` |
| `SubscriptionLog_proofs!LogImplementsList` | `Spec => ImplementsAccountList` |
| `SubscriptionSync_proofs!SyncTypes` | `SyncSpec => []SyncTypeOK` |
| `SubscriptionSync_proofs!ViewsFollowList` | `SyncSpec => []ViewFollowsList` |
| `SubscriptionSync_proofs!CursorsAreWithinLog` | `SyncSpec => []CursorsWithinLog` |
| `SubscriptionSync_proofs!CursorsNeverRewind` | `SyncSpec => CursorNeverRewinds` |
| `SubscriptionSync_proofs!RetriesRecordNothing` | `SyncSpec => []RetryRecordsNothing` |
| `SubscriptionSync_proofs!HistoryAcrossLosses` | `SyncSpec => []HistoryAlternates` |
| `SubscriptionSync_proofs!DeltaAcrossLosses` | `SyncSpec => []DeltaRestoresList` |
| `SubscriptionSync_proofs!SyncImplementsLog` | if `MaxLosses = 0`, `SyncSpec => Spec` of the log |
| `EpisodeLog_proofs!LogInvariant` | `Spec => []LogInv` |
| `EpisodeLog_proofs!OneWinnerInvariant` | `Spec => []OneWinner` |
| `EpisodeLog_proofs!ImportInvariant` | `Spec => []ImportOverridesNothing` |
| `EpisodeLog_proofs!PagesInvariant` | `Spec => []PagesSkipNothing` |
| `EpisodeLog_proofs!LogImplementsPoints` | `Spec => ImplementsResumePoints` |
| `EpisodeSync_proofs!SyncTypes` | `SyncSpec => []PhonesTypeOK` |
| `EpisodeSync_proofs!FlagIsTheReads` | `SyncSpec => []FlagFollowsRead` |
| `EpisodeSync_proofs!MomentsAreGenuine` | `SyncSpec => []NothingFabricated` |
| `EpisodeSync_proofs!WinnersReachPhones` | `SyncSpec => []WinnersArrive` |
| `EpisodeSync_proofs!NothingRewinds` | `SyncSpec => NoRewind` |
| `EpisodeSync_proofs!SyncImplementsLog` | `SyncSpec => Spec` of the log |
| `EpisodeSync_proofs!SyncImplementsPoints` | `SyncSpec => ImplementsResumePoints /\ []PagesSkipNothing` |
| `ContentMigration_proofs!MigratedIsAsIfAlways` | `MigrationSpec => []MigratedAsIfAlways` |
| `ContentMigration_proofs!ConstraintsFit` | `MigrationSpec => []ConstraintHolds` |
| `ContentMigration_proofs!NothingIsForgotten` | `MigrationSpec => NothingForgotten` |
| `ActionWire_proofs!ColumnsHold` | `Spec => []WireTypeOK` |
| `ActionWire_proofs!NothingCollapses` | `Spec => []CollapseLosesNothing` |
| `ActionWire_proofs!EchoesAreHarmless` | `Spec => []EchoChangesNothing` |
| `Access_proofs!AddressIsOwn` | `AddressOf(h, claim) = h` for every client, claim and sequence of proxies |
| `Access_proofs!AccessTypes` | `AccessSpec => []AccessTypeOK` |
| `Access_proofs!ConfigurationsKept` | `AccessSpec => []SettingsAsSaid` |
| `Access_proofs!LockedByOwnFailures` | `AccessSpec => []OwnFailuresOnly` |
| `Access_proofs!SessionsNeverChangeHands` | `AccessSpec => SessionsKeepTheirAccount` |
| `Access_proofs!GuessesAreBounded` | `AccessSpec => []GuessesBounded` |
| `Access_proofs!AccessImplementsDevices` | `AccessSpec => DeviceSpec` |
| `SecretKey_proofs!KeyTypes` | `Spec => []TypeOK` |
| `SecretKey_proofs!AgreementUnlessRaced` | `Spec => []OneKeyUnlessRaced` |
| `SecretKey_proofs!AgreementInTurn` | if `MaxStarting = 1`, `Spec => []OneKey` |
| `SecretKey_proofs!ContainersComeUpWithAccount` | `FairBootSpec => []UpWithAccount` |
| `SecretKey_proofs!PasswordsStay` | `FairBootSpec => PasswordStays` |
| `SecretKey_proofs!ContainersAgreeOnKey` | `FairBootSpec => [](TypeOK /\ OneKeyUnlessRaced)` |

The argument for subscriptions. `LogInv` is inductive: `NumberedIsBlock` and
`CommitBlocks` say that a transaction adds two blocks of rows with fresh, distinct,
consecutive ids, the additions below the removals. `MarkedMeansNewest` and
`NewestRowExists` (which needs `MaxOfBounded`: ids are bounded by `lastId`) turn "the
newest row of a URL says add" into a first-order fact, from which `CommitAppliesBatch`
follows: after a commit the list is the old one plus the additions minus the removals.
That is `BatchDecidesList` and the refinement's step; reads and refusals stutter and other
accounts keep their lists. (`AccountList` leaves open which sets an upload brings, so the
refinement says that one request touches one list and `BatchDecidesList` says how.)
`DeltaFromLog` holds of any well-formed log, so `DeltaRestoresList` needs no induction of
its own. `HistoryAlternates` does: it is proved together with `LogInv`, from the fact
that a commit adds a row for a URL only when it contradicts the newest one.

The argument for phones that sync subscriptions. `SyncInv` is the inductive invariant; TLC was
run on the instance of `sync_two_phones` with it as an invariant before it was proved.
`ViewFollowsList` speaks of what is neither queued nor pending nor lost, in any phase, but a
step that ends a sync makes the phone show what an earlier step has read, so `FollowInv` says
it of each phase apart: what the phone would show *if it applied the answer in its hand*
agrees with the account, but for feeds with a row above the id up to which that answer looked
(`FollowsScanned`), above the cursor the second statement took (`FollowsAnswered`), or above
the upload's (`FollowsStored`). The feeds the gap between two of these ids hides are the ones
`lostByRead` and `lostByUpload` receive. `ReplyInv` bounds those ids by the log, which
`BystanderKeeps` needs: rows another phone commits lie above all of them. `PastInv` says of
every commit the host may fall back to that it is a part of the log and complete in itself, so
what comes back is well formed (`FallingBack`), and `PowerLossKeeps` that a phone then
disagrees only about feeds of the rows that went, which are in `lostByPower`. `RetryInv` makes
of a retry that nothing intervened what `RetryRecordsNothing` states. `SyncImplementsLog`
gives a system without loss of power everything proved of `SubscriptionLog`; with it the log
is no longer one of `Spec`, so `HistoryAcrossLosses` is proved from an invariant of its own
(what may come back alternates too) and `DeltaAcrossLosses` from `DeltaFromLog`.

The argument for episodes. `StoredRows` says what an upload adds: rows above `lastId`,
of the uploading account, each content new. `LogInv` is inductive from it. Being beaten
orders the rows of a group by time and then by id, and `TimesAssumption` (there is a
last moment, as `datetime` has) gives every group a row nothing beats
(`WinnerExists`), `WinnerUnique` makes it the only one. For the refinement,
`UploadReports` shows that a winner stays the winner while its claim leads: a new row
with the same moment has a higher id.

`PagesInvariant` needs no induction of its own: on a well-formed log a page is the winners up to
some id (`PageFacts`), and its cursor is that id if it was cut and an id no winner exceeds if not.

The argument for phones that sync episodes. Again one inductive `SyncInv`, which TLC checked
on the instances of both runs first. It says what may be on its way: an entry of a queue is
genuine; of an upload that is not an import, running or abandoned (`UploadInv`, and `LateInv`
whether the server has begun with it or not), every entry is genuine and still queued by its
phone or already known to the log; so what is stored is genuine or makes no claim
(`NothingFabricated`), and whatever is newly stored with a moment comes out of a queue.
`FlagInv` ties the flag a read will store to the cursor it read from; an abandoned session can
undo that only under a phone that `Relies` on it, and then `crossed` is set. For `NoRewind`,
`OwnerInv` says of a position held that it is known, queued by the holder, or in nobody's
queue, so that no later report of somebody else can come from behind it as news; `ReadInv`
says that a page in a phone's hand is no earlier than any known claim for what the phone
holds, which is what makes applying it safe although the log has moved on. For
`WinnersArrive`, `ArriveInv` accounts for every winner below the cursor stored and below the
one about to be. The proof is by actor: `WorldMoves` states what any step may do to the log,
the moments and the queues; `BystanderKeeps` shows a phone's invariant to survive it; and one
lemma per action shows it for the phone that acts. `SyncImplementsLog` has no exception, so
the whole of sessions, pages and queues implements `ResumePoints`.

The argument for the migration. `MigratedAsIfAlways` is not inductive: before a migration it
says nothing. `Mirrored` says what it rests on: the log of the new constraint is part of
the table, and for every row of the table it has a row of the same content that came no
later. Of a table in step the dedupe leaves exactly the log (`DedupeLeavesLog`), and an
upload keeps them in step (`ReportKeepsStep`), because the earliest entry of a batch with a
given content is stored in both (`LeastNat`).

The argument for the door. `DInv` says of the device table that a configuration nobody has
overtaken works on the row there is (`ReadsAreFresh`) and that of a device that does not exist
nothing has been said; with these, `SettingsAsSaid` is kept by a save. `DoorInv` says that an
attempt is keyed on its own client's address, which is `AddressIsOwn`, that a count never exceeds
the misses it stands for (`OwnCounts`), and that a request runs in a session of its account or
in one that is over (`InSession`), so what it stores back gives nobody a session. `Budget` is the
invariant of the count: below the limit it is exact, and guesses made plus attempts in flight
stay below the limit plus the threads, because an attempt only starts while the count is below
the limit.

The argument for the key. The invariant follows the file: until somebody truncates it
under a writer, an absent file means nobody has written, at most one process is between
creating it and filling it, and a filled one is what every running process runs with. When
starts do not overlap nobody can truncate a file another is filling, so `raced` stays
FALSE.

For the account, `BootInv` says that a process that has found nobody has had its own password
accepted, so whoever then makes the account makes it with one the validators accept. Its other
steps leave the key alone, so what is proved of `SecretKey` carries over (`ContainersAgreeOnKey`).

The argument for the codec. `WireInv` types the columns and ranges of what is stored. An
action and the row it collapses into agree on `ContentKey`, in which an absent offset is -1.
Offsets may be negative, so the two can differ; but an action is shown with its position only
if none of its offsets is, and then they agree on all three (`SameKeyShowsSame`). What is
served is again an acceptable object, a whole second and so no later (`WholeSecondIsEarlier`).

`AccessImplementsDevices` and both `SyncImplementsLog` say how those modules compose: each
composed specification implements the module it extends, so the theorems of that module hold in it.

Only model-checked: the liveness properties (`AllCatchUp`, `PhonesCatchUp`, `EveryStartEnds`,
`RestartComesUp`), which are out of the prover's reach, and the four violations. Every safety and
action property of a passing run is a theorem.

## Not modelled, and the plan

In order:

1. Proofs: that a phone which is its account's only one, and whose syncs do not fail, loses nothing to
   either window of `ViewFollowsList`; when `crossed` can happen at all (never where every
   abandoned request has ended before its phone syncs again); that the accounts of one log do not disturb each other, as a property of their histories; and
   the theorems of what items 2 to 4 add.
2. Loss of power under the episode log, whose cursors are exposed to it in the same way, and
   under the session that holds the import flag between a read from 0 and its dump.
3. The flag of `EpisodeSync` in the sessions of `Access`: sessions two devices share.
4. Phones whose spellings `update_urls` would correct.

Left out for good: request tracing, redaction and log formatting, environment parsing,
routing, the static page and the deploy scripts. They hold no state the sync
reads, and their correctness is about text. What `urlsplit` makes of one URL stays
behind `Sanitise`. The decoding of a Basic header, cookie attributes and the rejection of
cross-site requests come before everything `Access` models and change nothing. Devices
are deleted only through the optional admin. Phones are taken to run after 1970
(`SyncAssumption`).

## Running

    tlc -config SyncTwoPhones.cfg MCSubscriptionSync.tla
    tlc -config Access.cfg MCAccess.tla
    tlc -config Bootstrap.cfg MCBootstrap.tla
    tlapm SubscriptionLog_proofs.tla

`PROJECT.json` names the module and configuration of every run.

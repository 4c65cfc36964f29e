--------------------------- MODULE EpisodeSync_proofs ---------------------------
(* Theorems about EpisodeSync, for every number of phones, groups, contents and  *)
(* failures, and any sizes of batches and pages.                                 *)
EXTENDS EpisodeSync, EpisodeLog_proofs

--------------------------------------------------------------------------------
(* The invariant.                                                                *)

(* The account has reported the content c of the group g; the phone p is about to. *)
Known(g, c) == \E r \in records : r.group = g /\ r.content = c
Waiting(p, g, c) == \E e \in queue[p] : e.group = g /\ e.content = c

PhoneBatches == {b \in Batches : \A i \in DOMAIN b : b[i] \in QueueEntry}
Requests == [mark : Nat, phone : Phones, kind : {"login", "read", "session", "post", "upload"},
             flag : BOOLEAN, batch : PhoneBatches]
SyncPhases == {"idle", "loggingIn", "loggedIn", "reading", "uploading"}
USE DEF SyncPhases
Reply == [page : SUBSET Row, cursor : Nat, upTo : Nat, flag : BOOLEAN, saves : BOOLEAN]

Shapes ==
  /\ PhonesTypeOK
  /\ reply \in [Phones -> Reply]
  /\ late \subseteq Requests
  /\ delivered \in [Phones -> SUBSET Nat]
  /\ gap \in [Phones -> SUBSET Nat]
  /\ rest \in [Phones -> SUBSET Nat]

(* Whatever is reported or held was listened to, in the past.                    *)
HearingInv ==
  /\ \A g \in Groups, c \in Contents : heard[g][c] <= clock
  /\ \A r \in records : r.user = Account /\ heard[r.group][r.content] > 0
  /\ \A p \in Phones, g \in Groups : held[p][g] # Nothing => heard[g][held[p][g]] > 0

(* What a phone queues carries its name and the moment of the listening; there is *)
(* never more of anything than can be counted.                                   *)
QueueInv(p) ==
  /\ IsFiniteSet(queue[p]) /\ IsFiniteSet(outbox[p])
  /\ IsFiniteSet({g \in Groups : held[p][g] # Nothing})
  /\ \A e \in queue[p] : /\ e.device = p /\ e.at > 0
                         /\ e.at = heard[e.group][e.content]
  /\ \A e \in outbox[p] : e.device = p /\ heard[e.group][e.content] > 0

(* An upload that is not an import sends what is queued, and queued stays what is *)
(* not known yet.                                                                *)
UploadInv(p) ==
  phase[p] = "uploading" =>
    /\ cursor[p] # 0 => outbox[p] \subseteq queue[p]
    /\ \A e \in queue[p] : e \in outbox[p] \/ Known(e.group, e.content)

(* What an abandoned live upload carries is genuine, and queued or known, whether *)
(* it has begun or not.                                                          *)
LateHolds(r) ==
  r.kind \in {"post", "upload"} => \A i \in DOMAIN r.batch :
    LET e == r.batch[i]
    IN  /\ heard[e.group][e.content] > 0
        /\ ~crossed /\ ~r.flag =>
             /\ e.at = heard[e.group][e.content]
             /\ e \in queue[e.device] \/ Known(e.group, e.content)
LateInv == \A r \in late : LateHolds(r)

(* The answer of a read carries the flag it will store, if it stores one.        *)
FlagInv(p) ==
  /\ phase[p] = "reading" => /\ reply[p].flag <=> cursor[p] = 0
                             /\ cursor[p] = 0 => reply[p].saves
                             /\ ~crossed /\ ~reply[p].saves => ~importing[p]
  /\ phase[p] = "uploading" /\ ~crossed => (importing[p] <=> cursor[p] = 0)

(* A position held is known, or queued by the phone itself, or in nobody's queue. *)
OwnerInv(p) ==
  \A g \in Groups : held[p][g] # Nothing =>
    \/ Known(g, held[p][g])
    \/ Waiting(p, g, held[p][g])
    \/ \A q \in Phones : ~Waiting(q, g, held[p][g])

(* The page in a phone's hand is no earlier than the known claim for what it holds, *)
(* unless the phone has that claim queued and will look at it.                     *)
ReadInv(p) ==
  phase[p] = "reading" /\ ~crossed =>
    \A r \in reply[p].page, s \in records :
      s.group = r.group /\ s.content = held[p][r.group] /\ s.at # ImportSentinel =>
        s.at <= r.at \/ Waiting(p, r.group, s.content)

(* Below the phone's cursor, and below that of the page in its hand, every winner  *)
(* of another phone is accounted for.                                             *)
Passed(p, n) ==
  \A r \in Winners(Account, 0) :
    r.id <= n /\ r.device # p => r.id \in delivered[p] \cup gap[p] \cup rest[p]
ArriveInv(p) ==
  /\ cursor[p] <= lastId /\ Passed(p, cursor[p])
  /\ phase[p] \in {"reading", "uploading"} => reply[p].cursor <= lastId
  /\ phase[p] = "reading" => \A r \in Winners(Account, 0) :
       cursor[p] < r.id /\ r.id <= reply[p].cursor => r \in reply[p].page
  /\ phase[p] = "uploading" => Passed(p, reply[p].cursor)

PhoneInv(p) ==
  /\ QueueInv(p) /\ UploadInv(p) /\ FlagInv(p)
  /\ OwnerInv(p) /\ ReadInv(p) /\ ArriveInv(p)

SyncInv == /\ Shapes /\ HearingInv /\ LateInv /\ NothingFabricated
           /\ \A p \in Phones : PhoneInv(p)

--------------------------------------------------------------------------------
(* What one step may do to the world around a phone.                             *)

(* The log grows by rows of the account above every id handed out; what was not  *)
(* imported says the truth and comes from a queue.                               *)
LogGrows ==
  /\ LogInv /\ LogInv'
  /\ records \subseteq records' /\ lastId <= lastId'
  /\ \A r \in records' \ records :
       /\ lastId < r.id /\ r.user = Account
       /\ heard[r.group][r.content] > 0 /\ ~Known(r.group, r.content)
       /\ ~crossed /\ r.at # ImportSentinel =>
            /\ r.at = heard[r.group][r.content]
            /\ \E q \in Phones : Waiting(q, r.group, r.content)

(* Moments pass, and each content is listened to once.                           *)
HearingGrows ==
  /\ clock <= clock'
  /\ \A g \in Groups, c \in Contents :
       \/ heard'[g][c] = heard[g][c]
       \/ heard[g][c] = 0 /\ heard'[g][c] > 0 /\ heard'[g][c] <= clock'

(* What enters a queue was never heard before; what leaves one is known.         *)
QueuesMove ==
  \A q \in Phones :
    /\ \A e \in queue'[q] : e \in queue[q] \/ heard[e.group][e.content] = 0
    /\ \A e \in queue[q] : e \in queue'[q] \/ Known(e.group, e.content)'

WorldMoves == LogGrows /\ HearingGrows /\ QueuesMove /\ (crossed => crossed')

PhoneStays(p) ==
  /\ held'[p] = held[p] /\ queue'[p] = queue[p] /\ cursor'[p] = cursor[p]
  /\ phase'[p] = phase[p] /\ reply'[p] = reply[p] /\ outbox'[p] = outbox[p]
  /\ delivered'[p] = delivered[p] /\ gap'[p] = gap[p] /\ rest'[p] = rest[p]

LEMMA TypesHere ==
  ASSUME Shapes
  PROVE  /\ LogInv /\ records \subseteq Row /\ lastId \in Nat
         /\ clock \in Nat /\ clock <= MaxClock /\ clock \in Times
         /\ heard \in [Groups -> [Contents -> Nat]]
         /\ held \in [Phones -> [Groups -> Contents \cup {Nothing}]]
         /\ queue \in [Phones -> SUBSET QueueEntry]
         /\ outbox \in [Phones -> SUBSET QueueEntry]
         /\ cursor \in [Phones -> Nat]
         /\ reply \in [Phones -> Reply]
         /\ importing \in [Phones -> BOOLEAN]
         /\ phase \in [Phones -> SyncPhases]
         /\ drops \in Nat
<1>1. /\ MaxClock \in Nat /\ 0..MaxClock \subseteq Nat /\ 0..MaxClock \subseteq Times
  BY SyncAssumption
<1>2. heard \in [Groups -> [Contents -> Nat]]
  BY <1>1 DEF Shapes, PhonesTypeOK
<1>. QED BY <1>1, <1>2 DEF Shapes, PhonesTypeOK, LogInv, TypeOK

LEMMA KnownStays ==
  ASSUME records \subseteq records', NEW g, NEW c, Known(g, c)
  PROVE  Known(g, c)'
BY DEF Known

(* Each row of a group that is there, or an earlier row, keeps its rivals.        *)
LEMMA OldWinners ==
  ASSUME LogGrows, NEW r \in Winners(Account, 0)'
  PROVE  r \in Winners(Account, 0) \/ r \in records' \ records
BY DEF LogGrows, Winners, RowsOf, Superseded, Beats

(* After an upload the content of each of its entries is known.                  *)
LEMMA BatchIsKnown ==
  ASSUME LogInv, \A r \in records : r.user = Account,
         NEW batch \in Batches, NEW imported \in BOOLEAN, NEW now \in Times,
         Upload(Account, batch, imported, now), NEW i \in DOMAIN batch
  PROVE  Known(batch[i].group, batch[i].content)'
<1> DEFINE rec(k) == RecordOf(Account, batch[k], lastId + k, imported, now)
           same  == {k \in DOMAIN batch : SameContent(rec(k), rec(i))}
<1>1. DOMAIN batch \subseteq Nat
  BY LimitsAssumption DEF Batches
<1>2. \A k \in DOMAIN batch : /\ rec(k).user = Account /\ rec(k).group = batch[k].group
                              /\ rec(k).content = batch[k].content
  BY DEF RecordOf
<1>3. records' = records \cup Stored(Account, batch, imported, now)
  BY DEF Upload
<1>4. Stored(Account, batch, imported, now) =
        {rec(k) : k \in {n \in DOMAIN batch :
            /\ \A r \in records : ~SameContent(r, rec(n))
            /\ \A j \in DOMAIN batch : j < n => ~SameContent(rec(j), rec(n))}}
  BY DEF Stored
<1>. HIDE DEF rec
<1>5. same \in SUBSET Nat /\ same # {}
  BY <1>1 DEF SameContent
<1>6. PICK k \in same : \A j \in same : k <= j
  <2>. HIDE DEF same
  <2>. QED BY <1>5, LeastNat
<1>7. \A j \in DOMAIN batch : j < k => ~SameContent(rec(j), rec(k))
  BY <1>1, <1>6 DEF SameContent
<1>8. CASE \A r \in records : ~SameContent(r, rec(k))
  <2>1. rec(k) \in records'
    BY <1>3, <1>4, <1>6, <1>7, <1>8
  <2>. QED BY <1>2, <1>6, <2>1 DEF SameContent, Known
<1>9. CASE \E r \in records : SameContent(r, rec(k))
  BY <1>2, <1>3, <1>6, <1>9 DEF SameContent, Known
<1>. QED BY <1>8, <1>9

(* Entries the log may be sent by the phones: heard of, and, unless they are     *)
(* imported, genuine and queued or known.                                        *)
Sendable(batch, imported) ==
  \A i \in DOMAIN batch :
    LET e == batch[i]
    IN  /\ heard[e.group][e.content] > 0
        /\ ~crossed /\ ~imported =>
             /\ e.at = heard[e.group][e.content]
             /\ (\E q \in Phones : e \in queue[q]) \/ Known(e.group, e.content)

LEMMA UploadGrows ==
  ASSUME Shapes, HearingInv, NEW batch \in PhoneBatches, NEW imported \in BOOLEAN,
         Sendable(batch, imported), Upload(Account, batch, imported, clock)
  PROVE  /\ LogGrows
         /\ \A r \in records' \ records : \E i \in DOMAIN batch : r.device = batch[i].device
         /\ \A i \in DOMAIN batch : Known(batch[i].group, batch[i].content)'
<1>1. /\ LogInv /\ clock \in Times /\ lastId \in Nat /\ batch \in Batches
      /\ Account \in Users /\ \A i \in DOMAIN batch : batch[i] \in QueueEntry
      /\ ~NamesBadDevice(batch) /\ \A r \in records : r.user = Account
  BY TypesHere, SyncAssumption DEF PhoneBatches, Upload, HearingInv
<1> DEFINE new == Stored(Account, batch, imported, clock)
           rec(k) == RecordOf(Account, batch[k], lastId + k, imported, clock)
<1>2. /\ new \subseteq Row
      /\ \A r \in new : /\ r.user = Account /\ lastId < r.id
                        /\ \A q \in records : ~SameContent(q, r)
  BY <1>1, StoredRows
<1>3. records' = records \cup new /\ lastId' = lastId + Len(batch) /\ Len(batch) \in Nat
  BY <1>1, LimitsAssumption DEF Upload, Batches
<1>4. LogInv'
  BY <1>1, UploadKeepsLogInv
<1>5. \A i \in DOMAIN batch : Known(batch[i].group, batch[i].content)'
  BY <1>1, BatchIsKnown
<1>6. ASSUME NEW r \in new
      PROVE  /\ \E i \in DOMAIN batch : r.device = batch[i].device
             /\ lastId < r.id /\ r.user = Account
             /\ heard[r.group][r.content] > 0 /\ ~Known(r.group, r.content)
             /\ ~crossed /\ r.at # ImportSentinel =>
                  /\ r.at = heard[r.group][r.content]
                  /\ \E q \in Phones : Waiting(q, r.group, r.content)
  <2>1. PICK i \in DOMAIN batch : r = rec(i)
    BY DEF Stored
  <2>2. batch[i].at # Unstamped
    BY <1>1, TimesAssumption DEF QueueEntry
  <2>3. /\ r.group = batch[i].group /\ r.content = batch[i].content
        /\ r.device = batch[i].device
        /\ r.at = IF imported THEN ImportSentinel ELSE batch[i].at
    BY <2>1, <2>2 DEF RecordOf
  <2>. HIDE DEF rec, new
  <2>4. ~Known(r.group, r.content)
    BY <1>1, <1>2 DEF Known, SameContent
  <2>5. heard[r.group][r.content] > 0
    BY <2>3 DEF Sendable
  <2>6. ASSUME ~crossed, r.at # ImportSentinel
        PROVE  /\ r.at = heard[r.group][r.content]
               /\ \E q \in Phones : Waiting(q, r.group, r.content)
    <3>1. ~imported /\ r.at = batch[i].at
      BY <2>3, <2>6
    <3>2. /\ batch[i].at = heard[batch[i].group][batch[i].content]
          /\ (\E q \in Phones : batch[i] \in queue[q])
               \/ Known(batch[i].group, batch[i].content)
      BY <2>6, <3>1 DEF Sendable
    <3>3. PICK q \in Phones : batch[i] \in queue[q]
      BY <2>3, <2>4, <3>2
    <3>. QED BY <2>3, <3>1, <3>2, <3>3 DEF Waiting
  <2>. QED BY <1>2, <2>3, <2>4, <2>5, <2>6
<1>. HIDE DEF new
<1>7. \A r \in records' \ records : r \in new
  BY <1>3
<1>8. LogGrows
  BY <1>1, <1>3, <1>4, <1>6, <1>7 DEF LogGrows
<1>. QED BY <1>5, <1>6, <1>7, <1>8

--------------------------------------------------------------------------------
(* What the world's steps leave standing.                                        *)

LEMMA HearingKeeps ==
  ASSUME Shapes, Shapes', HearingInv, LogGrows, HearingGrows,
         \A p \in Phones, g \in Groups :
           held'[p][g] # Nothing => held'[p][g] = held[p][g] \/ heard'[g][held'[p][g]] > 0
  PROVE  HearingInv'
<1>1. /\ heard \in [Groups -> [Contents -> Nat]] /\ clock \in Nat
      /\ heard' \in [Groups -> [Contents -> Nat]] /\ clock' \in Nat
  BY SyncAssumption DEF Shapes, PhonesTypeOK
<1>2. /\ records' \subseteq Row
      /\ held' \in [Phones -> [Groups -> Contents \cup {Nothing}]]
  BY DEF Shapes, PhonesTypeOK, LogInv, TypeOK
<1>3. \A g \in Groups, c \in Contents : heard'[g][c] <= clock'
  BY <1>1 DEF HearingInv, HearingGrows
<1>4. \A g \in Groups, c \in Contents : heard[g][c] > 0 => heard'[g][c] = heard[g][c]
  BY <1>1 DEF HearingGrows
<1>5. ASSUME NEW r \in records' PROVE r.user = Account /\ heard'[r.group][r.content] > 0
  <2>1. r.group \in Groups /\ r.content \in Contents
    BY <1>2 DEF Row
  <2>2. r.user = Account /\ heard[r.group][r.content] > 0
    BY DEF HearingInv, LogGrows
  <2>. QED BY <1>4, <2>1, <2>2
<1>6. ASSUME NEW p \in Phones, NEW g \in Groups, held'[p][g] # Nothing
      PROVE  heard'[g][held'[p][g]] > 0
  <2>1. held'[p][g] \in Contents
    BY <1>2, <1>6
  <2>2. CASE held'[p][g] = held[p][g]
    <3>1. heard[g][held[p][g]] > 0
      BY <1>6, <2>2 DEF HearingInv
    <3>. QED BY <1>4, <2>1, <2>2, <3>1
  <2>. QED BY <1>6, <2>2
<1>. QED BY <1>3, <1>5, <1>6 DEF HearingInv

LEMMA GenuineStays ==
  ASSUME Shapes, Shapes', NothingFabricated, LogGrows, HearingGrows, crossed => crossed'
  PROVE  NothingFabricated'
<1>1. /\ heard \in [Groups -> [Contents -> Nat]] /\ heard' \in [Groups -> [Contents -> Nat]]
      /\ records' \subseteq Row /\ ImportSentinel = 0
  BY SyncAssumption DEF Shapes, PhonesTypeOK, LogInv, TypeOK
<1>2. SUFFICES ASSUME ~crossed', NEW r \in records', r.at # ImportSentinel
               PROVE  r.at = heard'[r.group][r.content]
  BY DEF NothingFabricated, Genuine
<1>3. ~crossed /\ r.group \in Groups /\ r.content \in Contents /\ r.at # 0
  BY <1>1, <1>2 DEF Row
<1>4. r.at = heard[r.group][r.content]
  BY <1>2, <1>3 DEF NothingFabricated, Genuine, LogGrows
<1>. QED BY <1>1, <1>3, <1>4 DEF HearingGrows

(* What an abandoned request carries stays what it was.                          *)
LEMMA LateKeeps ==
  ASSUME Shapes, Shapes', WorldMoves, NEW r \in Requests, LateHolds(r)
  PROVE  LateHolds(r)'
<1>1. /\ heard \in [Groups -> [Contents -> Nat]] /\ records \subseteq records'
  BY TypesHere DEF WorldMoves, LogGrows
<1>2. SUFFICES ASSUME r.kind \in {"post", "upload"}, NEW i \in DOMAIN r.batch
               PROVE  /\ heard'[r.batch[i].group][r.batch[i].content] > 0
                      /\ ~crossed' /\ ~r.flag =>
                           /\ r.batch[i].at = heard'[r.batch[i].group][r.batch[i].content]
                           /\ \/ r.batch[i] \in queue'[r.batch[i].device]
                              \/ Known(r.batch[i].group, r.batch[i].content)'
  BY DEF LateHolds
<1> DEFINE e == r.batch[i]
<1>3. r.batch \in PhoneBatches
  BY DEF Requests
<1>4. e \in QueueEntry
  BY <1>3 DEF PhoneBatches
<1>5. e.group \in Groups /\ e.content \in Contents /\ e.device \in Phones
  BY <1>4 DEF QueueEntry
<1>6. /\ heard[e.group][e.content] > 0
      /\ ~crossed /\ ~r.flag =>
           /\ e.at = heard[e.group][e.content]
           /\ e \in queue[e.device] \/ Known(e.group, e.content)
  BY <1>2 DEF LateHolds
<1>. HIDE DEF e
<1>7. heard'[e.group][e.content] = heard[e.group][e.content]
  BY <1>1, <1>5, <1>6 DEF WorldMoves, HearingGrows
<1>8. e \in queue[e.device] => e \in queue'[e.device] \/ Known(e.group, e.content)'
  BY <1>5 DEF WorldMoves, QueuesMove
<1>9. Known(e.group, e.content) => Known(e.group, e.content)'
  BY <1>1, KnownStays
<1>. QED BY <1>6, <1>7, <1>8, <1>9 DEF WorldMoves, e

LEMMA LateNext ==
  ASSUME Shapes, Shapes', WorldMoves, LateInv,
         \A r \in late' : r \in late \/ LateHolds(r)'
  PROVE  LateInv'
<1>1. \A r \in late : r \in Requests /\ LateHolds(r)
  BY DEF LateInv, Shapes
<1>2. \A r \in late' : LateHolds(r)'
  BY <1>1, LateKeeps
<1>. QED BY <1>2 DEF LateInv

(* What a phone holds and no longer has queued is known; what enters a queue is   *)
(* held by nobody else.                                                          *)
LEMMA OwnerKeeps ==
  ASSUME Shapes, HearingInv, WorldMoves, NEW p \in Phones, OwnerInv(p), held'[p] = held[p]
  PROVE  OwnerInv(p)'
<1>1. \A g, c : Known(g, c) => Known(g, c)'
  BY KnownStays DEF WorldMoves, LogGrows
<1>2. SUFFICES ASSUME NEW g \in Groups, NEW c, c = held[p][g], c # Nothing,
                      ~Known(g, c)', ~Waiting(p, g, c)',
                      NEW q \in Phones, NEW e \in queue'[q],
                      e.group = g, e.content = c
               PROVE  FALSE
  BY DEF OwnerInv, Waiting, Known
<1>3. ~Known(g, c)
  BY <1>1, <1>2
<1>4. ~Waiting(p, g, c)
  <2>1. SUFFICES ASSUME NEW w \in queue[p], w.group = g, w.content = c PROVE FALSE
    BY DEF Waiting
  <2>2. w \in queue'[p] \/ Known(g, c)'
    BY <2>1 DEF WorldMoves, QueuesMove
  <2>. QED BY <1>2, <2>1, <2>2 DEF Waiting
<1>5. e \notin queue[q]
  BY <1>2, <1>3, <1>4 DEF OwnerInv, Waiting
<1>6. heard[e.group][e.content] = 0
  BY <1>2, <1>5 DEF WorldMoves, QueuesMove
<1>. QED BY <1>2, <1>6 DEF HearingInv

(* A phone that takes no part in a step keeps its invariant, whoever moves.       *)
LEMMA BystanderKeeps ==
  ASSUME Shapes, Shapes', HearingInv, HearingInv', WorldMoves,
         NEW p \in Phones, PhoneInv(p), PhoneStays(p),
         importing'[p] = importing[p] \/ crossed' \/ ~Relies(p)
  PROVE  PhoneInv(p)'
<1>1. /\ heard \in [Groups -> [Contents -> Nat]] /\ records \subseteq records'
      /\ held \in [Phones -> [Groups -> Contents \cup {Nothing}]]
      /\ queue \in [Phones -> SUBSET QueueEntry] /\ outbox \in [Phones -> SUBSET QueueEntry]
      /\ queue' \in [Phones -> SUBSET QueueEntry]
      /\ cursor \in [Phones -> Nat] /\ reply \in [Phones -> Reply]
      /\ lastId \in Nat /\ lastId' \in Nat /\ lastId <= lastId'
      /\ records' \subseteq Row /\ Nothing \notin Contents
  BY TypesHere, SyncAssumption DEF WorldMoves, LogGrows, Shapes, PhonesTypeOK, LogInv, TypeOK
<1>2. \A g, c : Known(g, c) => Known(g, c)'
  BY <1>1, KnownStays
<1>3. \A g \in Groups, c \in Contents : heard[g][c] > 0 => heard'[g][c] = heard[g][c]
  BY <1>1 DEF WorldMoves, HearingGrows
<1>4. \A g, c : Waiting(p, g, c)' <=> Waiting(p, g, c)
  BY DEF Waiting, PhoneStays
<1>5. QueueInv(p)'
  <2>1. ASSUME NEW e \in queue[p] PROVE e.at = heard'[e.group][e.content]
    <3>1. e.group \in Groups /\ e.content \in Contents
      BY <1>1 DEF QueueEntry
    <3>2. e.at > 0 /\ e.at = heard[e.group][e.content]
      BY DEF PhoneInv, QueueInv
    <3>. QED BY <1>3, <3>1, <3>2
  <2>2. ASSUME NEW e \in outbox[p] PROVE heard'[e.group][e.content] > 0
    <3>1. e.group \in Groups /\ e.content \in Contents
      BY <1>1 DEF QueueEntry
    <3>2. heard[e.group][e.content] > 0
      BY DEF PhoneInv, QueueInv
    <3>. QED BY <1>3, <3>1, <3>2
  <2>. QED BY <2>1, <2>2 DEF PhoneInv, QueueInv, PhoneStays
<1>6. UploadInv(p)'
  BY <1>2 DEF PhoneInv, UploadInv, PhoneStays
<1>7. FlagInv(p)'
  BY DEF PhoneInv, FlagInv, PhoneStays, WorldMoves, Relies
<1>8. OwnerInv(p)'
  BY OwnerKeeps DEF PhoneInv, PhoneStays
<1>9. ReadInv(p)'
  <2>1. SUFFICES ASSUME phase[p] = "reading", ~crossed', NEW r \in reply[p].page,
                        NEW s \in records', s.group = r.group,
                        s.content = held[p][r.group], s.at # ImportSentinel,
                        ~Waiting(p, r.group, s.content)
                 PROVE  s.at <= r.at
    BY <1>4 DEF ReadInv, PhoneStays
  <2>2. ~crossed
    BY <2>1 DEF WorldMoves
  <2>3. CASE s \in records
    BY <2>1, <2>2, <2>3 DEF PhoneInv, ReadInv
  <2>4. CASE s \notin records
    <3>1. ~Known(s.group, s.content) /\ \E q \in Phones : Waiting(q, s.group, s.content)
      BY <2>1, <2>2, <2>4 DEF WorldMoves, LogGrows
    <3>2. s.group \in Groups /\ s.content # Nothing
      BY <1>1 DEF Row
    <3>. QED BY <2>1, <3>1, <3>2 DEF PhoneInv, OwnerInv
  <2>. QED BY <2>3, <2>4
<1>10. ArriveInv(p)'
  <2>1. \A r \in Winners(Account, 0)' :
          r \in Winners(Account, 0) \/ (lastId < r.id /\ r.id \in Nat)
    BY <1>1, OldWinners DEF WorldMoves, LogGrows, Row
  <2>2. /\ cursor[p] <= lastId /\ cursor[p] \in Nat
        /\ reply[p].cursor \in Nat
        /\ phase[p] \in {"reading", "uploading"} => reply[p].cursor <= lastId
    BY <1>1 DEF PhoneInv, ArriveInv, Reply
  <2>4. phase[p] = "reading" => \A r \in Winners(Account, 0)' :
          cursor[p] < r.id /\ r.id <= reply[p].cursor => r \in reply[p].page
    BY <1>1, <2>1, <2>2 DEF PhoneInv, ArriveInv
  <2>5. cursor'[p] = cursor[p] /\ reply'[p] = reply[p] /\ phase'[p] = phase[p]
    BY DEF PhoneStays
  <2>6. Passed(p, cursor[p])' /\ (phase[p] = "uploading" => Passed(p, reply[p].cursor)')
    <3>1. Passed(p, cursor[p]) /\ (phase[p] = "uploading" => Passed(p, reply[p].cursor))
      BY DEF PhoneInv, ArriveInv
    <3>. QED BY <1>1, <2>1, <2>2, <2>5, <3>1 DEF Passed, PhoneStays
  <2>. QED BY <1>1, <2>2, <2>4, <2>5, <2>6 DEF ArriveInv
<1>. QED BY <1>5, <1>6, <1>7, <1>8, <1>9, <1>10 DEF PhoneInv

--------------------------------------------------------------------------------
(* One action at a time.                                                         *)

Others(p) == \A q \in Phones \ {p} : PhoneStays(q) /\ importing'[q] = importing[q]

(* What is shown of every action of a phone.                                     *)
StepKeeps(p) ==
  /\ Shapes' /\ HearingInv' /\ WorldMoves /\ Others(p) /\ PhoneInv(p)'
  /\ \A r \in late' : r \in late \/ LateHolds(r)'

LEMMA QuietLog ==
  ASSUME Shapes, UNCHANGED episodeVars
  PROVE  /\ LogInv' /\ LogGrows /\ records' = records /\ lastId' = lastId
         /\ Winners(Account, 0)' = Winners(Account, 0)
<1>1. records' = records /\ lastId' = lastId /\ devices' = devices /\ LogInv
  BY TypesHere DEF episodeVars
<1>2. LogInv'
  BY <1>1 DEF LogInv, TypeOK
<1>3. lastId <= lastId'
  BY <1>1, TypesHere
<1>4. Winners(Account, 0)' = Winners(Account, 0)
  BY <1>1 DEF Winners, RowsOf, Superseded
<1>. QED BY <1>1, <1>2, <1>3, <1>4 DEF LogGrows

LEMMA QuietWorld ==
  ASSUME Shapes, UNCHANGED <<episodeVars, clock, heard, queue>>, crossed => crossed'
  PROVE  WorldMoves
<1>1. LogGrows
  BY QuietLog
<1>2. HearingGrows
  BY TypesHere DEF HearingGrows
<1>3. QueuesMove
  BY DEF QueuesMove
<1>. QED BY <1>1, <1>2, <1>3 DEF WorldMoves

(* The parts of the invariant that read nothing but the log and the queue.       *)
LEMMA QuietParts ==
  ASSUME Shapes, UNCHANGED <<episodeVars, heard, queue, held>>, NEW p \in Phones
  PROVE  /\ OwnerInv(p) => OwnerInv(p)'
         /\ outbox'[p] \in {outbox[p], {}} /\ QueueInv(p) => QueueInv(p)'
         /\ delivered' = delivered /\ gap' = gap /\ rest' = rest =>
              \A n : Passed(p, n) => Passed(p, n)'
<1>1. OwnerInv(p) => OwnerInv(p)'
  BY QuietLog DEF OwnerInv, Known, Waiting
<1>2. outbox'[p] \in {outbox[p], {}} /\ QueueInv(p) => QueueInv(p)'
  BY FS_EmptySet DEF QueueInv
<1>3. ASSUME delivered' = delivered /\ gap' = gap /\ rest' = rest, NEW n, Passed(p, n)
      PROVE  Passed(p, n)'
  BY <1>3, QuietLog DEF Passed
<1>. QED BY <1>1, <1>2, <1>3

LEMMA LoginKeeps ==
  ASSUME SyncInv, NEW p \in Phones, Login(p)
  PROVE  StepKeeps(p)
<1> DEFINE loaded == [NoReply EXCEPT !.flag = importing[p], !.saves = TRUE]
<1>1. /\ Shapes /\ HearingInv /\ PhoneInv(p)
      /\ phase \in [Phones -> SyncPhases] /\ reply \in [Phones -> Reply]
      /\ importing \in [Phones -> BOOLEAN]
  BY TypesHere DEF SyncInv
<1>2. /\ phase[p] = "idle" /\ phase' = [phase EXCEPT ![p] = "loggingIn"]
      /\ reply' = [reply EXCEPT ![p] = loaded]
      /\ UNCHANGED <<episodeVars, clock, heard, held, queue, cursor, outbox, importing,
                     late, crossed, delivered, gap, rest, drops>>
  BY DEF Login, Advance, phoneVars, histVars
<1>3. loaded \in Reply /\ loaded.page = {}
  BY <1>1 DEF NoReply, Reply
<1>. HIDE DEF loaded
<1>4. /\ phase' \in [Phones -> SyncPhases] /\ reply' \in [Phones -> Reply]
      /\ phase'[p] = "loggingIn" /\ reply'[p] = loaded
      /\ \A q \in Phones \ {p} : phase'[q] = phase[q] /\ reply'[q] = reply[q]
  BY <1>1, <1>2, <1>3
<1>5. Shapes'
  <2>1. \A q \in Phones : reply'[q].page \subseteq records'
    BY <1>1, <1>2, <1>3, <1>4, QuietLog DEF Shapes, PhonesTypeOK
  <2>. QED BY <1>1, <1>2, <1>4, <2>1, QuietLog DEF Shapes, PhonesTypeOK
<1>6. WorldMoves /\ Others(p)
  BY <1>1, <1>2, <1>4, QuietWorld DEF Others, PhoneStays
<1>7. HearingInv'
  BY <1>1, <1>2, <1>5, <1>6, HearingKeeps DEF WorldMoves
<1>8. PhoneInv(p)'
  <2>1. OwnerInv(p)' /\ QueueInv(p)'
    BY <1>1, <1>2, QuietParts DEF PhoneInv
  <2>2. ArriveInv(p)'
    BY <1>1, <1>2, <1>4, QuietLog DEF PhoneInv, ArriveInv, Passed
  <2>. QED BY <1>4, <2>1, <2>2 DEF PhoneInv, UploadInv, FlagInv, ReadInv
<1>. QED BY <1>2, <1>5, <1>6, <1>7, <1>8 DEF StepKeeps

LEMMA LoggedInKeeps ==
  ASSUME SyncInv, NEW p \in Phones, LoggedIn(p)
  PROVE  StepKeeps(p)
<1>1. /\ Shapes /\ HearingInv /\ PhoneInv(p)
      /\ phase \in [Phones -> SyncPhases] /\ reply \in [Phones -> Reply]
      /\ importing \in [Phones -> BOOLEAN]
  BY TypesHere DEF SyncInv
<1>2. /\ phase[p] = "loggingIn" /\ phase' = [phase EXCEPT ![p] = "loggedIn"]
      /\ reply' = [reply EXCEPT ![p] = NoReply]
      /\ UNCHANGED <<episodeVars, clock, heard, held, queue, cursor, outbox,
                     crossed, delivered, gap, rest, drops>>
      /\ late' \subseteq late
      /\ \/ importing' = [importing EXCEPT ![p] = reply[p].flag]
         \/ importing' = [importing EXCEPT ![p] = FALSE]
  BY DEF LoggedIn, Advance, phoneVars, histVars
<1>3. NoReply \in Reply /\ NoReply.page = {} /\ reply[p].flag \in BOOLEAN
  BY <1>1 DEF NoReply, Reply
<1>4. /\ phase' \in [Phones -> SyncPhases] /\ reply' \in [Phones -> Reply]
      /\ phase'[p] = "loggedIn" /\ reply'[p] = NoReply
      /\ \A q \in Phones \ {p} : phase'[q] = phase[q] /\ reply'[q] = reply[q]
  BY <1>1, <1>2, <1>3
<1>5. /\ importing' \in [Phones -> BOOLEAN]
      /\ \A q \in Phones \ {p} : importing'[q] = importing[q]
  BY <1>1, <1>2, <1>3
<1>6. Shapes'
  <2>1. \A q \in Phones : reply'[q].page \subseteq records'
    BY <1>1, <1>2, <1>3, <1>4, QuietLog DEF Shapes, PhonesTypeOK
  <2>2. late' \subseteq Requests
    BY <1>1, <1>2 DEF Shapes
  <2>. QED BY <1>1, <1>2, <1>4, <1>5, <2>1, <2>2, QuietLog DEF Shapes, PhonesTypeOK
<1>7. WorldMoves /\ Others(p)
  BY <1>1, <1>2, <1>4, <1>5, QuietWorld DEF Others, PhoneStays
<1>8. HearingInv'
  BY <1>1, <1>2, <1>6, <1>7, HearingKeeps DEF WorldMoves
<1>9. PhoneInv(p)'
  <2>1. OwnerInv(p)' /\ QueueInv(p)'
    BY <1>1, <1>2, QuietParts DEF PhoneInv
  <2>2. ArriveInv(p)'
    BY <1>1, <1>2, <1>4, QuietLog DEF PhoneInv, ArriveInv, Passed
  <2>. QED BY <1>4, <2>1, <2>2 DEF PhoneInv, UploadInv, FlagInv, ReadInv
<1>. QED BY <1>2, <1>6, <1>7, <1>8, <1>9 DEF StepKeeps

LEMMA ForceFullSyncKeeps ==
  ASSUME SyncInv, NEW p \in Phones, ForceFullSync(p)
  PROVE  StepKeeps(p)
<1>1. /\ Shapes /\ HearingInv /\ PhoneInv(p)
      /\ cursor \in [Phones -> Nat] /\ lastId \in Nat /\ records \subseteq Row
  BY TypesHere DEF SyncInv
<1>2. /\ phase[p] = "idle" /\ cursor' = [cursor EXCEPT ![p] = 0]
      /\ drops' = drops + 1
      /\ UNCHANGED <<episodeVars, clock, heard, held, queue, phase, reply, outbox,
                     importing, late, crossed, delivered, gap, rest>>
  BY DEF ForceFullSync, pathVars, histVars
<1>3. /\ cursor'[p] = 0 /\ \A q \in Phones \ {p} : cursor'[q] = cursor[q]
      /\ cursor' \in [Phones -> Nat] /\ drops' \in Nat
  BY <1>1, <1>2, TypesHere
<1>4. Shapes'
  BY <1>1, <1>2, <1>3, QuietLog DEF Shapes, PhonesTypeOK
<1>5. WorldMoves /\ Others(p)
  BY <1>1, <1>2, <1>3, QuietWorld DEF Others, PhoneStays
<1>6. HearingInv'
  BY <1>1, <1>2, <1>4, <1>5, HearingKeeps DEF WorldMoves
<1>7. PhoneInv(p)'
  <2>1. OwnerInv(p)' /\ QueueInv(p)'
    BY <1>1, <1>2, QuietParts DEF PhoneInv
  <2>2. \A r \in Winners(Account, 0)' : r.id > 0 /\ r.id \in Nat
    BY <1>1, <1>2, QuietLog DEF Winners, RowsOf, Row
  <2>3. Passed(p, cursor[p])'
    BY <1>3, <2>2 DEF Passed
  <2>4. ArriveInv(p)'
    BY <1>1, <1>2, <1>3, <2>3, QuietLog DEF ArriveInv
  <2>. QED BY <1>2, <2>1, <2>4 DEF PhoneInv, UploadInv, FlagInv, ReadInv
<1>. QED BY <1>2, <1>4, <1>5, <1>6, <1>7 DEF StepKeeps

LEMMA ListenKeeps ==
  ASSUME SyncInv, NEW p \in Phones, NEW g \in Groups, NEW c \in Contents, Listen(p, g, c)
  PROVE  StepKeeps(p)
<1> DEFINE e == [group |-> g, content |-> c, at |-> clock', device |-> p]
<1>1. /\ Shapes /\ HearingInv /\ PhoneInv(p)
      /\ clock \in Nat /\ heard \in [Groups -> [Contents -> Nat]]
      /\ held \in [Phones -> [Groups -> Contents \cup {Nothing}]]
      /\ queue \in [Phones -> SUBSET QueueEntry]
      /\ records \subseteq Row
  BY TypesHere DEF SyncInv
<1>2. /\ phase[p] = "idle" /\ clock < MaxClock /\ heard[g][c] = 0
      /\ clock' = clock + 1
      /\ heard' = [heard EXCEPT ![g][c] = clock']
      /\ held' = [held EXCEPT ![p][g] = c]
      /\ \/ queue' = [queue EXCEPT ![p] = @ \cup {e}]
         \/ queue' = queue
      /\ UNCHANGED <<episodeVars, cursor, phase, reply, outbox,
                     importing, late, crossed, delivered, gap, rest, drops>>
  BY DEF Listen, pathVars, histVars
<1>3. /\ clock' \in Nat /\ clock' > 0 /\ clock' \in 0..MaxClock /\ clock' \in Times
      /\ MaxClock \in Nat /\ Nothing \notin Contents
  BY <1>1, <1>2, SyncAssumption
<1>4. /\ heard'[g][c] = clock' /\ heard' \in [Groups -> [Contents -> 0..MaxClock]]
      /\ heard' \in [Groups -> [Contents -> Nat]]
      /\ \A h \in Groups, d \in Contents :
           (h = g /\ d = c) \/ heard'[h][d] = heard[h][d]
  BY <1>1, <1>2, <1>3 DEF Shapes, PhonesTypeOK
<1>5. /\ held' \in [Phones -> [Groups -> Contents \cup {Nothing}]]
      /\ held'[p][g] = c
      /\ \A h \in Groups \ {g} : held'[p][h] = held[p][h]
      /\ \A q \in Phones \ {p} : held'[q] = held[q]
  BY <1>1, <1>2
<1>6. e \in QueueEntry
  BY <1>3 DEF QueueEntry
<1>7. /\ queue' \in [Phones -> SUBSET QueueEntry]
      /\ queue'[p] = queue[p] \cup {e} \/ queue' = queue
      /\ \A q \in Phones \ {p} : queue'[q] = queue[q]
      /\ \A q \in Phones : queue[q] \subseteq queue'[q]
  BY <1>1, <1>2, <1>6
<1>8. Shapes'
  BY <1>1, <1>2, <1>3, <1>4, <1>5, <1>7, QuietLog DEF Shapes, PhonesTypeOK
<1>9. WorldMoves
  <2>1. HearingGrows
    BY <1>1, <1>2, <1>3, <1>4 DEF HearingGrows
  <2>2. QueuesMove
    BY <1>2, <1>7 DEF QueuesMove
  <2>. QED BY <1>1, <1>2, <2>1, <2>2, QuietLog DEF WorldMoves
<1>10. Others(p)
  BY <1>2, <1>5, <1>7 DEF Others, PhoneStays
<1>11. HearingInv'
  <2>1. \A q \in Phones, h \in Groups :
          held'[q][h] = held[q][h] \/ heard'[h][held'[q][h]] > 0
    BY <1>3, <1>4, <1>5
  <2>. QED BY <1>1, <1>8, <1>9, <2>1, HearingKeeps DEF WorldMoves
<1>12. \A h \in Groups, d \in Contents : heard[h][d] > 0 => heard'[h][d] = heard[h][d]
  BY <1>1, <1>2, <1>4
<1>13. QueueInv(p)'
  <2>1. IsFiniteSet(queue'[p]) /\ IsFiniteSet(outbox'[p])
    <3>1. IsFiniteSet(queue[p]) /\ IsFiniteSet(outbox[p])
      BY <1>1 DEF PhoneInv, QueueInv
    <3>2. IsFiniteSet(queue[p] \cup {e})
      <4>. HIDE DEF e
      <4>. QED BY <3>1, FS_AddElement
    <3>. QED BY <1>2, <1>7, <3>1, <3>2
  <2>2. IsFiniteSet({h \in Groups : held'[p][h] # Nothing})
    <3>1. {h \in Groups : held'[p][h] # Nothing}
            = {h \in Groups : held[p][h] # Nothing} \cup {g}
      BY <1>3, <1>5
    <3>2. IsFiniteSet({h \in Groups : held[p][h] # Nothing})
      BY <1>1 DEF PhoneInv, QueueInv
    <3>. QED BY <3>1, <3>2, FS_AddElement
  <2>3. ASSUME NEW d \in queue'[p]
        PROVE  d.device = p /\ d.at > 0 /\ d.at = heard'[d.group][d.content]
    <3>1. CASE d \in queue[p]
      <4>1. d.group \in Groups /\ d.content \in Contents
        BY <1>1, <3>1 DEF QueueEntry
      <4>2. d.device = p /\ d.at > 0 /\ d.at = heard[d.group][d.content]
        BY <1>1, <3>1 DEF PhoneInv, QueueInv
      <4>. QED BY <1>12, <4>1, <4>2
    <3>2. CASE d = e
      BY <1>3, <1>4, <3>2
    <3>. QED BY <1>7, <3>1, <3>2
  <2>4. ASSUME NEW d \in outbox'[p]
        PROVE  d.device = p /\ heard'[d.group][d.content] > 0
    <3>1. d \in outbox[p] /\ d.group \in Groups /\ d.content \in Contents
      BY <1>1, <1>2, TypesHere DEF QueueEntry
    <3>2. d.device = p /\ heard[d.group][d.content] > 0
      BY <1>1, <3>1 DEF PhoneInv, QueueInv
    <3>. QED BY <1>12, <3>1, <3>2
  <2>. QED BY <2>1, <2>2, <2>3, <2>4 DEF QueueInv
<1>14. OwnerInv(p)'
  <2>1. SUFFICES ASSUME NEW h \in Groups, NEW d, d = held'[p][h], d # Nothing,
                        ~Known(h, d)', ~Waiting(p, h, d)',
                        NEW q \in Phones, NEW w \in queue'[q], w.group = h, w.content = d
                 PROVE  FALSE
    BY DEF OwnerInv, Waiting, Known
  <2>2. ~Known(h, d) /\ ~Waiting(p, h, d)
    <3>1. records' = records
      BY <1>1, <1>2, QuietLog
    <3>. QED BY <1>7, <2>1, <3>1 DEF Waiting, Known
  <2>3. CASE h = g
    <3>1. d = c /\ q # p
      BY <1>5, <2>1, <2>3 DEF Waiting
    <3>2. w \in queue[q]
      BY <1>7, <2>1, <3>1
    <3>3. heard[w.group][w.content] > 0
      BY <3>2 DEF SyncInv, PhoneInv, QueueInv
    <3>. QED BY <1>2, <2>1, <2>3, <3>1, <3>3
  <2>4. CASE h # g
    <3>1. d = held[p][h] /\ w # e
      BY <1>5, <2>1, <2>4
    <3>2. w \in queue[q]
      BY <1>7, <3>1
    <3>. QED BY <1>1, <2>1, <2>2, <3>1, <3>2 DEF PhoneInv, OwnerInv, Waiting
  <2>. QED BY <2>3, <2>4
<1>15. ArriveInv(p)'
  BY <1>1, <1>2, QuietLog DEF PhoneInv, ArriveInv, Passed
<1>16. PhoneInv(p)'
  BY <1>2, <1>13, <1>14, <1>15 DEF PhoneInv, UploadInv, FlagInv, ReadInv
<1>. QED BY <1>2, <1>8, <1>9, <1>10, <1>11, <1>16 DEF StepKeeps

(* What a phone may send next has the shape of a batch and comes from its outbox; *)
(* after a read from a real cursor it is genuine and queued.                      *)
LEMMA NextBatchFacts ==
  ASSUME SyncInv, NEW p \in Phones, NEW b \in NextBatches(p)
  PROVE  /\ b \in PhoneBatches
         /\ \A i \in DOMAIN b : /\ b[i] \in outbox[p] /\ b[i].device = p
                                /\ heard[b[i].group][b[i].content] > 0
         /\ phase[p] = "uploading" /\ cursor[p] # 0 => \A i \in DOMAIN b :
              b[i] \in queue[p] /\ b[i].at = heard[b[i].group][b[i].content]
<1>1. /\ Shapes /\ PhoneInv(p) /\ outbox \in [Phones -> SUBSET QueueEntry]
      /\ IsFiniteSet(outbox[p])
  BY TypesHere DEF SyncInv, PhoneInv, QueueInv
<1> DEFINE n == Min({BatchSize, Cardinality(outbox[p])})
<1>2. n \in Nat /\ n <= BatchSize
  <2>1. Cardinality(outbox[p]) \in Nat /\ BatchSize \in Nat
    BY <1>1, FS_CardinalityType, SyncAssumption
  <2>2. \E x \in {BatchSize, Cardinality(outbox[p])} :
          \A y \in {BatchSize, Cardinality(outbox[p])} : x <= y
    BY <2>1
  <2>3. /\ n \in {BatchSize, Cardinality(outbox[p])}
        /\ \A y \in {BatchSize, Cardinality(outbox[p])} : n <= y
    BY <2>2 DEF Min
  <2>. QED BY <2>1, <2>3
<1>. HIDE DEF n
<1>3. b \in [1..n -> outbox[p]]
  BY DEF NextBatches, n
<1>4. n \in 0..MaxActionsPerRequest
  BY <1>2, SyncAssumption, LimitsAssumption
<1>5. QueueEntry \subseteq Entry
  BY DEF QueueEntry, Entry, Phones
<1>6. b \in [1..n -> QueueEntry] /\ DOMAIN b = 1..n
  BY <1>1, <1>3
<1>7. b \in Batches
  BY <1>4, <1>5, <1>6 DEF Batches
<1>8. b \in PhoneBatches
  BY <1>6, <1>7 DEF PhoneBatches
<1>9. \A i \in DOMAIN b : b[i] \in outbox[p]
  BY <1>3
<1>10. ASSUME phase[p] = "uploading", cursor[p] # 0, NEW i \in DOMAIN b
       PROVE  b[i] \in queue[p] /\ b[i].at = heard[b[i].group][b[i].content]
  <2>1. outbox[p] \subseteq queue[p]
    BY <1>1, <1>10 DEF PhoneInv, UploadInv
  <2>. QED BY <1>1, <1>9, <2>1 DEF PhoneInv, QueueInv
<1>. QED BY <1>1, <1>8, <1>9, <1>10 DEF PhoneInv, QueueInv

LEMMA NoBatch == <<>> \in PhoneBatches
<1>1. /\ 0 \in 0..MaxActionsPerRequest
      /\ <<>> \in [1..0 -> Entry] /\ DOMAIN <<>> = {}
  BY LimitsAssumption
<1>. QED BY <1>1 DEF PhoneBatches, Batches

LEMMA DropKeeps ==
  ASSUME SyncInv, NEW p \in Phones, Drop(p)
  PROVE  StepKeeps(p)
<1>1. /\ Shapes /\ HearingInv /\ PhoneInv(p)
      /\ phase \in [Phones -> SyncPhases]
      /\ reply \in [Phones -> Reply] /\ outbox \in [Phones -> SUBSET QueueEntry]
      /\ importing \in [Phones -> BOOLEAN] /\ late \subseteq Requests
  BY TypesHere DEF SyncInv, Shapes
<1>2. /\ phase' = [phase EXCEPT ![p] = "idle"] /\ reply' = [reply EXCEPT ![p] = NoReply]
      /\ outbox' = [outbox EXCEPT ![p] = {}]
      /\ late' = late \/ \E r \in InFlight(p) : late' = late \cup {r}
      /\ drops' = drops + 1
      /\ UNCHANGED <<episodeVars, clock, heard, held, queue, cursor, importing,
                     crossed, delivered, gap, rest>>
  BY DEF Drop, phoneVars, histVars
<1>3. NoReply \in Reply /\ NoReply.page = {}
  BY DEF NoReply, Reply
<1>4. /\ phase' \in [Phones -> SyncPhases]
      /\ reply' \in [Phones -> Reply] /\ outbox' \in [Phones -> SUBSET QueueEntry]
      /\ phase'[p] = "idle" /\ reply'[p] = NoReply /\ outbox'[p] = {}
      /\ \A q \in Phones \ {p} : /\ phase'[q] = phase[q] /\ reply'[q] = reply[q]
                                 /\ outbox'[q] = outbox[q]
  BY <1>1, <1>2, <1>3
<1>5. ASSUME NEW r \in InFlight(p)
      PROVE  r \in Requests /\ LateHolds(r)'
  <2> DEFINE sent(kind, flag, batch) ==
        [mark |-> drops, phone |-> p, kind |-> kind, flag |-> flag, batch |-> batch]
  <2>1. /\ <<>> \in PhoneBatches /\ drops \in Nat /\ reply[p].flag \in BOOLEAN
        /\ (cursor[p] = 0) \in BOOLEAN
    BY <1>1, NoBatch, TypesHere DEF Reply
  <2>2. CASE phase[p] = "uploading"
    <3>1. PICK b \in NextBatches(p) : r = sent("post", cursor[p] = 0, b)
      BY <2>2 DEF InFlight
    <3>2. /\ b \in PhoneBatches
          /\ \A i \in DOMAIN b : /\ b[i].device = p
                                 /\ heard[b[i].group][b[i].content] > 0
          /\ cursor[p] # 0 => \A i \in DOMAIN b :
               b[i] \in queue[p] /\ b[i].at = heard[b[i].group][b[i].content]
      BY <2>2, NextBatchFacts
    <3>3. r \in Requests
      BY <2>1, <3>1, <3>2 DEF Requests
    <3>4. LateHolds(r)'
      BY <1>2, <3>1, <3>2 DEF LateHolds
    <3>. QED BY <3>3, <3>4
  <2>3. CASE phase[p] # "uploading"
    <3>1. \/ r = sent("login", FALSE, <<>>)
          \/ r = sent("read", cursor[p] = 0, <<>>)
          \/ r = sent("session", reply[p].flag, <<>>)
      BY <2>3 DEF InFlight
    <3>2. \A kind \in {"login", "read", "session"}, flag \in BOOLEAN :
            sent(kind, flag, <<>>) \in Requests
      BY <2>1 DEF Requests
    <3>3. r \in Requests
      BY <2>1, <3>1, <3>2
    <3>4. r.kind \notin {"post", "upload"}
      BY <3>1
    <3>. QED BY <3>3, <3>4 DEF LateHolds
  <2>. QED BY <2>2, <2>3
<1>6. Shapes'
  <2>1. \A q \in Phones : reply'[q].page \subseteq records'
    BY <1>1, <1>2, <1>3, <1>4, QuietLog DEF Shapes, PhonesTypeOK
  <2>2. late' \subseteq Requests
    BY <1>1, <1>2, <1>5
  <2>3. drops' \in Nat
    BY <1>1, <1>2, TypesHere
  <2>. QED BY <1>1, <1>2, <1>4, <2>1, <2>2, <2>3, QuietLog DEF Shapes, PhonesTypeOK
<1>7. WorldMoves /\ Others(p)
  BY <1>1, <1>2, <1>4, QuietWorld DEF Others, PhoneStays
<1>8. HearingInv'
  BY <1>1, <1>2, <1>6, <1>7, HearingKeeps DEF WorldMoves
<1>9. PhoneInv(p)'
  <2>1. OwnerInv(p)' /\ QueueInv(p)'
    BY <1>1, <1>2, <1>4, QuietParts DEF PhoneInv
  <2>2. ArriveInv(p)'
    BY <1>1, <1>2, <1>4, QuietLog DEF PhoneInv, ArriveInv, Passed
  <2>. QED BY <1>4, <2>1, <2>2 DEF PhoneInv, UploadInv, FlagInv, ReadInv
<1>. QED BY <1>2, <1>5, <1>6, <1>7, <1>8, <1>9 DEF StepKeeps

LEMMA GetKeeps ==
  ASSUME SyncInv, NEW p \in Phones, Get(p)
  PROVE  StepKeeps(p)
<1>1. /\ Shapes /\ HearingInv /\ PhoneInv(p) /\ LogInv /\ records \subseteq Row
      /\ phase \in [Phones -> SyncPhases]
      /\ reply \in [Phones -> Reply] /\ cursor \in [Phones -> Nat] /\ lastId \in Nat
      /\ importing \in [Phones -> BOOLEAN]
  BY TypesHere DEF SyncInv
<1> DEFINE got == [page   |-> Page(Account, cursor[p]),
                   cursor |-> PageCursor(Account, cursor[p]),
                   upTo   |-> Newest(Account),
                   flag   |-> FlagAfterRead(p),
                   saves  |-> TouchesSession(p)]
<1>2. /\ phase' = [phase EXCEPT ![p] = "reading"] /\ reply' = [reply EXCEPT ![p] = got]
      /\ UNCHANGED <<episodeVars, clock, heard, held, queue, cursor, outbox, importing,
                     late, crossed, delivered, gap, rest, drops>>
  BY DEF Get, Advance, phoneVars, histVars
<1>3. cursor[p] \in Nat /\ cursor[p] <= lastId
  BY <1>1 DEF PhoneInv, ArriveInv
<1>4. /\ got.page \subseteq Winners(Account, cursor[p])
      /\ \A r \in Winners(Account, cursor[p]) : r \in got.page \/ r.id > got.cursor
      /\ got.cursor \in Nat /\ got.cursor <= lastId
  BY <1>1, <1>3, PageSkipsNothing
<1>5. /\ got.upTo \in Nat /\ got.upTo <= lastId
  BY <1>1, NewestBounds
<1>6. /\ got.flag \in BOOLEAN /\ (got.flag <=> cursor[p] = 0)
      /\ got.saves \in BOOLEAN /\ (got.saves <=> cursor[p] = 0 \/ importing[p])
  BY <1>1 DEF FlagAfterRead, TouchesSession
<1>7. got.page \subseteq records
  BY <1>4 DEF Winners, RowsOf
<1>8. got \in Reply
  <2>1. got.page \in SUBSET Row
    BY <1>1, <1>7
  <2>. QED BY <1>4, <1>5, <1>6, <2>1 DEF Reply
<1>. HIDE DEF got
<1>9. /\ phase' \in [Phones -> SyncPhases]
      /\ reply' \in [Phones -> Reply] /\ phase'[p] = "reading" /\ reply'[p] = got
      /\ \A q \in Phones \ {p} : phase'[q] = phase[q] /\ reply'[q] = reply[q]
  BY <1>1, <1>2, <1>8
<1>10. Shapes'
  <2>1. \A q \in Phones : reply'[q].page \subseteq records'
    BY <1>1, <1>2, <1>7, <1>9, QuietLog DEF Shapes, PhonesTypeOK
  <2>. QED BY <1>1, <1>2, <1>9, <2>1, QuietLog DEF Shapes, PhonesTypeOK
<1>11. WorldMoves /\ Others(p)
  BY <1>1, <1>2, <1>9, QuietWorld DEF Others, PhoneStays
<1>12. HearingInv'
  BY <1>1, <1>2, <1>10, <1>11, HearingKeeps DEF WorldMoves
<1>13. PhoneInv(p)'
  <2>1. OwnerInv(p)' /\ QueueInv(p)'
    BY <1>1, <1>2, QuietParts DEF PhoneInv
  <2>2. FlagInv(p)'
    BY <1>2, <1>6, <1>9 DEF FlagInv
  <2>3. ASSUME NEW r \in got.page, NEW s \in records, s.group = r.group
        PROVE  s.at <= r.at
    <3>1. r \in records /\ r.user = Account /\ ~Superseded(r)
      BY <1>4 DEF Winners, RowsOf
    <3>2. s.user = Account /\ ~Beats(s, r)
      BY <1>1, <3>1 DEF HearingInv, Superseded
    <3>3. s.at \in Nat /\ r.at \in Nat
      BY <1>1, <3>1, TimesAssumption DEF Row
    <3>. QED BY <2>3, <3>1, <3>2, <3>3 DEF Beats
  <2>4. ReadInv(p)'
    <3>1. records' = records
      BY <1>1, <1>2, QuietLog
    <3>. QED BY <1>9, <2>3, <3>1 DEF ReadInv
  <2>5. \A r \in Winners(Account, 0) : cursor[p] < r.id => r \in Winners(Account, cursor[p])
    BY DEF Winners
  <2>6. \A r \in Winners(Account, 0) : r.id \in Nat
    BY <1>1 DEF Winners, RowsOf, Row
  <2>7. \A r \in Winners(Account, 0) :
          cursor[p] < r.id /\ r.id <= got.cursor => r \in got.page
    BY <1>4, <2>5, <2>6
  <2>8. Passed(p, cursor[p])'
    BY <1>1, <1>2, QuietLog DEF PhoneInv, ArriveInv, Passed
  <2>9. ArriveInv(p)'
    BY <1>1, <1>2, <1>3, <1>4, <1>9, <2>7, <2>8, QuietLog DEF ArriveInv
  <2>. QED BY <1>9, <2>1, <2>2, <2>4, <2>9 DEF PhoneInv, UploadInv
<1>. QED BY <1>2, <1>10, <1>11, <1>12, <1>13 DEF StepKeeps

(* The values a function takes on finitely many arguments are finitely many.     *)
LEMMA FiniteImage ==
  ASSUME NEW f, IsFiniteSet(DOMAIN f), f = [x \in DOMAIN f |-> f[x]]
  PROVE  IsFiniteSet({f[x] : x \in DOMAIN f})
<1> DEFINE T == {f[x] : x \in DOMAIN f}
<1>1. f \in Surjection(DOMAIN f, T)
  BY DEF Surjection
<1>. QED BY <1>1, FS_Surjection

(* The end of a read, whatever follows it.                                       *)
LEMMA DownloadFacts ==
  ASSUME SyncInv, NEW p \in Phones, phase[p] = "reading", Download(p)
  PROVE  /\ importing' \in [Phones -> BOOLEAN]
         /\ importing'[p] = IF reply[p].saves THEN reply[p].flag ELSE importing[p]
         /\ held' \in [Phones -> [Groups -> Contents \cup {Nothing}]]
         /\ \A g \in Groups :
              \/ Applied(p, g) = {} /\ held'[p][g] = held[p][g]
              \/ \E r \in Applied(p, g) : held'[p][g] = r.content
         /\ IsFiniteSet({g \in Groups : held'[p][g] # Nothing})
         /\ delivered' \in [Phones -> SUBSET Nat]
         /\ delivered'[p] = delivered[p] \cup {r.id : r \in reply[p].page}
         /\ \A q \in Phones \ {p} : /\ importing'[q] = importing[q]
                                    /\ held'[q] = held[q] /\ delivered'[q] = delivered[q]
<1>1. /\ Shapes /\ PhoneInv(p) /\ LogInv /\ records \subseteq Row
      /\ held \in [Phones -> [Groups -> Contents \cup {Nothing}]]
      /\ reply \in [Phones -> Reply] /\ importing \in [Phones -> BOOLEAN]
      /\ delivered \in [Phones -> SUBSET Nat]
      /\ reply[p].page \subseteq records
  BY TypesHere DEF SyncInv, Shapes, PhonesTypeOK
<1> DEFINE value == [g \in Groups |->
              IF Applied(p, g) = {} THEN held[p][g]
              ELSE (CHOOSE r \in Applied(p, g) : TRUE).content]
           ids == {r.id : r \in reply[p].page}
<1>2. /\ importing' = [importing EXCEPT ![p] = IF reply[p].saves THEN reply[p].flag
                                              ELSE importing[p]]
      /\ held' = [held EXCEPT ![p] = value]
      /\ delivered' = [delivered EXCEPT ![p] = delivered[p] \cup ids]
  BY DEF Download
<1>3. reply[p].flag \in BOOLEAN /\ importing[p] \in BOOLEAN /\ ids \subseteq Nat
  BY <1>1 DEF Reply, Row
<1>4. \A g \in Groups :
        \/ Applied(p, g) = {} /\ value[g] = held[p][g]
        \/ \E r \in Applied(p, g) : value[g] = r.content
  OBVIOUS
<1>5. \A g \in Groups : \A r \in Applied(p, g) :
        r \in reply[p].page /\ r.group = g /\ r.content \in Contents
  BY <1>1 DEF Applied, Row
<1>6. value \in [Groups -> Contents \cup {Nothing}]
  <2>1. \A g \in Groups : value[g] \in Contents \cup {Nothing}
    <3>. HIDE DEF value
    <3>. QED BY <1>1, <1>4, <1>5
  <2>. QED BY <2>1
<1>. HIDE DEF value, ids
<1>7. /\ importing' \in [Phones -> BOOLEAN]
      /\ importing'[p] = IF reply[p].saves THEN reply[p].flag ELSE importing[p]
      /\ \A q \in Phones \ {p} : importing'[q] = importing[q]
  BY <1>1, <1>2, <1>3
<1>8. /\ held' \in [Phones -> [Groups -> Contents \cup {Nothing}]] /\ held'[p] = value
      /\ \A q \in Phones \ {p} : held'[q] = held[q]
  BY <1>1, <1>2, <1>6
<1>9. /\ delivered' \in [Phones -> SUBSET Nat] /\ delivered'[p] = delivered[p] \cup ids
      /\ \A q \in Phones \ {p} : delivered'[q] = delivered[q]
  BY <1>1, <1>2, <1>3
<1>10. IsFiniteSet({g \in Groups : value[g] # Nothing})
  <2> DEFINE groupOf == [r \in reply[p].page |-> r.group]
             touched == {groupOf[r] : r \in DOMAIN groupOf}
             before  == {g \in Groups : held[p][g] # Nothing}
  <2>1. IsFiniteSet(reply[p].page)
    BY <1>1, RowsFinite
  <2>2. IsFiniteSet(touched)
    <3>1. DOMAIN groupOf = reply[p].page /\ groupOf = [r \in DOMAIN groupOf |-> groupOf[r]]
      OBVIOUS
    <3>. HIDE DEF groupOf
    <3>. QED BY <2>1, <3>1, FiniteImage
  <2>3. IsFiniteSet(before)
    BY <1>1 DEF PhoneInv, QueueInv
  <2>4. {g \in Groups : value[g] # Nothing} \in SUBSET (touched \cup before)
    BY <1>4, <1>5
  <2>. HIDE DEF touched, before
  <2>5. IsFiniteSet(touched \cup before)
    BY <2>2, <2>3, FS_Union
  <2>. QED BY <2>4, <2>5, FS_Subset
<1>. QED BY <1>4, <1>7, <1>8, <1>9, <1>10 DEF ids

(* A downloaded row is known, so what the phone holds afterwards is, too.        *)
LEMMA DownloadOwns ==
  ASSUME SyncInv, NEW p \in Phones, phase[p] = "reading", Download(p), Shapes',
         UNCHANGED <<episodeVars, clock, heard, queue>>
  PROVE  /\ OwnerInv(p)'
         /\ \A g \in Groups : held'[p][g] # Nothing =>
              held'[p][g] = held[p][g] \/ heard'[g][held'[p][g]] > 0
<1>1. /\ Shapes /\ HearingInv /\ PhoneInv(p) /\ records' = records
      /\ reply[p].page \subseteq records
  BY QuietLog DEF SyncInv, Shapes, PhonesTypeOK
<1>2. \A g \in Groups :
        held'[p][g] = held[p][g] \/ \E r \in Applied(p, g) : held'[p][g] = r.content
  BY DownloadFacts
<1>3. \A g \in Groups : \A r \in Applied(p, g) : r \in records /\ r.group = g
  BY <1>1 DEF Applied
<1>4. OwnerInv(p)'
  <2>1. SUFFICES ASSUME NEW g \in Groups, NEW c, c = held'[p][g], c # Nothing,
                        ~Known(g, c)', ~Waiting(p, g, c)'
                 PROVE  \A q \in Phones : ~Waiting(q, g, c)'
    BY DEF OwnerInv, Waiting, Known
  <2>2. ~Known(g, c) /\ \A q : Waiting(q, g, c)' <=> Waiting(q, g, c)
    BY <1>1, <2>1 DEF Known, Waiting
  <2>3. c = held[p][g]
    BY <1>2, <1>3, <2>1, <2>2 DEF Known
  <2>. QED BY <1>1, <2>1, <2>2, <2>3 DEF PhoneInv, OwnerInv
<1>5. \A g \in Groups : \A r \in Applied(p, g) : heard'[g][r.content] > 0
  BY <1>1, <1>3 DEF HearingInv
<1>. QED BY <1>2, <1>4, <1>5

(* Below the cursor of its page a phone has every winner, once it has the page.  *)
LEMMA DownloadPasses ==
  ASSUME SyncInv, NEW p \in Phones, phase[p] = "reading", Download(p),
         UNCHANGED <<episodeVars, gap, rest>>
  PROVE  \A r \in Winners(Account, 0)' :
           r.id <= cursor[p] \/ r.id <= reply[p].cursor =>
             r.device = p \/ r.id \in delivered'[p] \cup gap'[p] \cup rest'[p]
<1>1. /\ Shapes /\ PhoneInv(p) /\ Winners(Account, 0)' = Winners(Account, 0)
      /\ cursor \in [Phones -> Nat] /\ records \subseteq Row
  BY TypesHere, QuietLog DEF SyncInv
<1>2. delivered'[p] = delivered[p] \cup {r.id : r \in reply[p].page}
  BY DownloadFacts
<1>3. SUFFICES ASSUME NEW r \in Winners(Account, 0), r.device # p,
                      r.id <= cursor[p] \/ r.id <= reply[p].cursor
               PROVE  r.id \in delivered'[p] \cup gap[p] \cup rest[p]
  BY <1>1
<1>4. r.id \in Nat /\ cursor[p] \in Nat
  BY <1>1 DEF Winners, RowsOf, Row
<1>5. CASE r.id <= cursor[p]
  BY <1>1, <1>2, <1>3, <1>5 DEF PhoneInv, ArriveInv, Passed
<1>6. CASE cursor[p] < r.id
  <2>1. r.id <= reply[p].cursor
    BY <1>3, <1>4, <1>6
  <2>2. r \in reply[p].page
    BY <1>1, <1>6, <2>1 DEF PhoneInv, ArriveInv
  <2>. QED BY <1>2, <2>2
<1>. QED BY <1>4, <1>5, <1>6

(* A dump has one entry per position held, none of them unheard of.              *)
LEMMA DumpFacts ==
  ASSUME SyncInv, NEW p \in Phones, phase[p] = "reading", Download(p), UNCHANGED heard,
         \A g \in Groups : held'[p][g] # Nothing => heard[g][held'[p][g]] > 0
  PROVE  /\ Dump(p) \subseteq QueueEntry /\ IsFiniteSet(Dump(p))
         /\ \A e \in Dump(p) : e.device = p /\ heard[e.group][e.content] > 0
         /\ cursor[p] # 0 => Dump(p) = {}
<1>1. CASE cursor[p] # 0
  BY <1>1, FS_EmptySet DEF Dump
<1>2. CASE cursor[p] = 0
  <2> DEFINE known == {g \in Groups : held'[p][g] # Nothing}
             entry == [g \in known |-> [group |-> g, content |-> held'[p][g],
                                        at |-> clock + 1, device |-> p]]
  <2>1. Dump(p) = {entry[g] : g \in DOMAIN entry}
    BY <1>2 DEF Dump
  <2>2. IsFiniteSet(known) /\ held'[p] \in [Groups -> Contents \cup {Nothing}]
    BY DownloadFacts
  <2>3. clock + 1 \in Times
    <3>1. clock \in 0..MaxClock /\ MaxClock \in Nat
      BY SyncAssumption DEF SyncInv, Shapes, PhonesTypeOK
    <3>. QED BY <3>1, SyncAssumption
  <2>4. \A g \in known : /\ entry[g] \in QueueEntry /\ entry[g].device = p
                         /\ heard[entry[g].group][entry[g].content] > 0
    BY <2>2, <2>3 DEF QueueEntry
  <2>5. DOMAIN entry = known /\ entry = [g \in DOMAIN entry |-> entry[g]]
    OBVIOUS
  <2>. HIDE DEF known, entry
  <2>6. IsFiniteSet({entry[g] : g \in DOMAIN entry})
    BY <2>2, <2>5, FiniteImage
  <2>. QED BY <1>2, <2>1, <2>4, <2>5, <2>6
<1>. QED BY <1>1, <1>2

LEMMA FinishReadKeeps ==
  ASSUME SyncInv, NEW p \in Phones, FinishRead(p)
  PROVE  StepKeeps(p)
<1>1. /\ Shapes /\ HearingInv /\ PhoneInv(p)
      /\ phase \in [Phones -> SyncPhases]
      /\ reply \in [Phones -> Reply] /\ cursor \in [Phones -> Nat]
  BY TypesHere DEF SyncInv
<1>2. /\ phase[p] = "reading" /\ phase' = [phase EXCEPT ![p] = "idle"] /\ Download(p)
      /\ cursor' = [cursor EXCEPT ![p] = reply[p].cursor]
      /\ reply' = [reply EXCEPT ![p] = NoReply]
      /\ UNCHANGED <<episodeVars, clock, heard, queue, outbox, late, crossed, gap, rest,
                     drops>>
  BY DEF FinishRead, Advance
<1>3. NoReply \in Reply /\ NoReply.page = {} /\ reply[p].cursor \in Nat
  BY <1>1 DEF NoReply, Reply
<1>4. /\ phase' \in [Phones -> SyncPhases]
      /\ reply' \in [Phones -> Reply] /\ cursor' \in [Phones -> Nat]
      /\ phase'[p] = "idle" /\ cursor'[p] = reply[p].cursor
      /\ \A q \in Phones \ {p} : /\ phase'[q] = phase[q] /\ reply'[q] = reply[q]
                                 /\ cursor'[q] = cursor[q]
  BY <1>1, <1>2, <1>3
<1>5. /\ importing' \in [Phones -> BOOLEAN]
      /\ held' \in [Phones -> [Groups -> Contents \cup {Nothing}]]
      /\ delivered' \in [Phones -> SUBSET Nat]
      /\ IsFiniteSet({g \in Groups : held'[p][g] # Nothing})
      /\ \A q \in Phones \ {p} : /\ importing'[q] = importing[q]
                                 /\ held'[q] = held[q] /\ delivered'[q] = delivered[q]
  BY <1>2, DownloadFacts
<1>6. Shapes'
  <2>1. \A q \in Phones : reply'[q].page \subseteq records'
    BY <1>1, <1>2, <1>3, <1>4, QuietLog DEF Shapes, PhonesTypeOK
  <2>. QED BY <1>1, <1>2, <1>4, <1>5, <2>1, QuietLog DEF Shapes, PhonesTypeOK
<1>7. WorldMoves /\ Others(p)
  BY <1>1, <1>2, <1>4, <1>5, QuietWorld DEF Others, PhoneStays
<1>8. OwnerInv(p)' /\ \A g \in Groups : held'[p][g] # Nothing =>
        held'[p][g] = held[p][g] \/ heard'[g][held'[p][g]] > 0
  BY <1>2, <1>6, DownloadOwns
<1>9. HearingInv'
  BY <1>1, <1>5, <1>6, <1>7, <1>8, HearingKeeps DEF WorldMoves
<1>10. PhoneInv(p)'
  <2>1. QueueInv(p)'
    BY <1>1, <1>2, <1>5 DEF PhoneInv, QueueInv
  <2>2. Passed(p, cursor[p])'
    BY <1>2, <1>4, DownloadPasses DEF Passed
  <2>3. cursor'[p] <= lastId'
    BY <1>1, <1>2, <1>4, QuietLog DEF PhoneInv, ArriveInv
  <2>. QED BY <1>4, <1>8, <2>1, <2>2, <2>3
           DEF PhoneInv, UploadInv, FlagInv, ReadInv, ArriveInv
<1>. QED BY <1>2, <1>6, <1>7, <1>9, <1>10 DEF StepKeeps

LEMMA StartUploadKeeps ==
  ASSUME SyncInv, NEW p \in Phones, StartUpload(p)
  PROVE  StepKeeps(p)
<1>1. /\ Shapes /\ HearingInv /\ PhoneInv(p)
      /\ phase \in [Phones -> SyncPhases]
      /\ outbox \in [Phones -> SUBSET QueueEntry] /\ queue \in [Phones -> SUBSET QueueEntry]
      /\ heard \in [Groups -> [Contents -> Nat]]
  BY TypesHere DEF SyncInv
<1>2. /\ phase[p] = "reading" /\ phase' = [phase EXCEPT ![p] = "uploading"] /\ Download(p)
      /\ outbox' = [outbox EXCEPT ![p] = queue[p] \cup Dump(p)]
      /\ UNCHANGED <<episodeVars, clock, heard, queue, cursor, reply, late,
                     crossed, gap, rest, drops>>
  BY DEF StartUpload, Advance
<1>3. /\ importing' \in [Phones -> BOOLEAN]
      /\ importing'[p] = IF reply[p].saves THEN reply[p].flag ELSE importing[p]
      /\ held' \in [Phones -> [Groups -> Contents \cup {Nothing}]]
      /\ delivered' \in [Phones -> SUBSET Nat]
      /\ IsFiniteSet({g \in Groups : held'[p][g] # Nothing})
      /\ \A g \in Groups :
           held'[p][g] = held[p][g] \/ \E r \in Applied(p, g) : held'[p][g] = r.content
      /\ \A q \in Phones \ {p} : /\ importing'[q] = importing[q]
                                 /\ held'[q] = held[q] /\ delivered'[q] = delivered[q]
  BY <1>2, DownloadFacts
<1>4. \A g \in Groups : held'[p][g] # Nothing => heard[g][held'[p][g]] > 0
  <2>1. \A g \in Groups : \A r \in Applied(p, g) : r \in records /\ r.group = g
    BY <1>1 DEF Applied, Shapes, PhonesTypeOK
  <2>2. SUFFICES ASSUME NEW g \in Groups, held'[p][g] # Nothing
                 PROVE  heard[g][held'[p][g]] > 0
    OBVIOUS
  <2>3. CASE held'[p][g] = held[p][g]
    BY <1>1, <2>2, <2>3 DEF HearingInv
  <2>4. ASSUME NEW r \in Applied(p, g), held'[p][g] = r.content
        PROVE  heard[g][held'[p][g]] > 0
    BY <1>1, <2>1, <2>4 DEF HearingInv
  <2>. QED BY <1>3, <2>3, <2>4
<1>5. /\ Dump(p) \subseteq QueueEntry /\ IsFiniteSet(Dump(p))
      /\ \A e \in Dump(p) : e.device = p /\ heard[e.group][e.content] > 0
      /\ cursor[p] # 0 => Dump(p) = {}
  BY <1>2, <1>4, DumpFacts
<1>6. /\ phase' \in [Phones -> SyncPhases]
      /\ outbox' \in [Phones -> SUBSET QueueEntry]
      /\ phase'[p] = "uploading" /\ outbox'[p] = queue[p] \cup Dump(p)
      /\ \A q \in Phones \ {p} : phase'[q] = phase[q] /\ outbox'[q] = outbox[q]
  BY <1>1, <1>2, <1>5
<1>7. Shapes'
  BY <1>1, <1>2, <1>3, <1>6, QuietLog DEF Shapes, PhonesTypeOK
<1>8. WorldMoves /\ Others(p)
  BY <1>1, <1>2, <1>3, <1>6, QuietWorld DEF Others, PhoneStays
<1>9. OwnerInv(p)'
  BY <1>2, <1>7, DownloadOwns
<1>10. HearingInv'
  <2>1. \A g \in Groups : held'[p][g] # Nothing => heard'[g][held'[p][g]] > 0
    BY <1>2, <1>4
  <2>. QED BY <1>1, <1>3, <1>7, <1>8, <2>1, HearingKeeps DEF WorldMoves
<1>11. PhoneInv(p)'
  <2>1. QueueInv(p)'
    <3>1. IsFiniteSet(queue[p] \cup Dump(p))
      BY <1>1, <1>5, FS_Union DEF PhoneInv, QueueInv
    <3>2. \A e \in queue[p] : e.device = p /\ e.at > 0 /\ e.at = heard[e.group][e.content]
      BY <1>1 DEF PhoneInv, QueueInv
    <3>3. \A e \in outbox'[p] : e.device = p /\ heard[e.group][e.content] > 0
      BY <1>5, <1>6, <3>2
    <3>. QED BY <1>1, <1>2, <1>3, <1>6, <3>1, <3>2, <3>3 DEF PhoneInv, QueueInv
  <2>2. UploadInv(p)'
    BY <1>2, <1>5, <1>6 DEF UploadInv
  <2>3. FlagInv(p)'
    BY <1>1, <1>2, <1>3, <1>6 DEF PhoneInv, FlagInv
  <2>4. Passed(p, cursor[p])' /\ Passed(p, reply[p].cursor)'
    BY <1>2, DownloadPasses DEF Passed
  <2>5. ArriveInv(p)'
    BY <1>1, <1>2, <1>6, <2>4, QuietLog DEF PhoneInv, ArriveInv
  <2>. QED BY <1>6, <1>9, <2>1, <2>2, <2>3, <2>5 DEF PhoneInv, ReadInv
<1>. QED BY <1>2, <1>7, <1>8, <1>10, <1>11 DEF StepKeeps

(* The cursor an upload answers with is an id handed out, or 0.                  *)
AnswerHandedOut == CursorFor(Account, 0) \in Nat /\ CursorFor(Account, 0) <= lastId

LEMMA AnswerBounds == LogInv => AnswerHandedOut
<1> SUFFICES ASSUME LogInv PROVE AnswerHandedOut
  OBVIOUS
<1>1. Newest(Account) \in Nat /\ Newest(Account) <= lastId /\ lastId \in Nat
  BY NewestBounds DEF LogInv, TypeOK
<1>. QED BY <1>1, CursorForBounds DEF AnswerHandedOut

LEMMA PostBatchKeeps ==
  ASSUME SyncInv, NEW p \in Phones, NEW batch \in NextBatches(p), PostBatch(p, batch)
  PROVE  StepKeeps(p)
<1> DEFINE left == outbox[p] \ {batch[i] : i \in DOMAIN batch}
           r == reply[p]
<1>1. /\ Shapes /\ HearingInv /\ PhoneInv(p) /\ lastId \in Nat /\ records \subseteq Row
      /\ phase \in [Phones -> SyncPhases]
      /\ outbox \in [Phones -> SUBSET QueueEntry] /\ queue \in [Phones -> SUBSET QueueEntry]
      /\ heard \in [Groups -> [Contents -> Nat]] /\ cursor \in [Phones -> Nat]
      /\ reply \in [Phones -> Reply] /\ importing[p] \in BOOLEAN
      /\ gap \in [Phones -> SUBSET Nat] /\ rest \in [Phones -> SUBSET Nat]
  BY TypesHere DEF SyncInv, Shapes
<1>2. /\ phase[p] = "uploading" /\ Upload(Account, batch, importing[p], clock)
      /\ outbox' = [outbox EXCEPT ![p] = left]
      /\ \/ /\ left # {}
            /\ UNCHANGED <<queue, cursor, phase, reply, gap, rest>>
         \/ /\ left = {}
            /\ queue' = [queue EXCEPT ![p] = {}]
            /\ cursor' = [cursor EXCEPT ![p] = CursorFor(Account, 0)']
            /\ phase' = [phase EXCEPT ![p] = "idle"]
            /\ reply' = [reply EXCEPT ![p] = NoReply]
            /\ rest' = [rest EXCEPT ![p] = rest[p] \cup Hidden(p, r.cursor, r.upTo)]
            /\ gap' = [gap EXCEPT ![p] = gap[p] \cup Hidden(p, r.upTo, lastId)]
      /\ UNCHANGED <<clock, heard, held, importing, late, crossed, delivered, drops>>
  BY DEF PostBatch
<1>3. /\ batch \in PhoneBatches
      /\ \A i \in DOMAIN batch : batch[i] \in outbox[p] /\ batch[i].device = p
      /\ Sendable(batch, importing[p])
  <2>1. ~crossed /\ ~importing[p] => cursor[p] # 0
    BY <1>1, <1>2 DEF PhoneInv, FlagInv
  <2>. QED BY <1>2, <2>1, NextBatchFacts DEF Sendable
<1>4. /\ LogGrows
      /\ \A q \in records' \ records : q.device = p
      /\ \A i \in DOMAIN batch : Known(batch[i].group, batch[i].content)'
  BY <1>1, <1>2, <1>3, UploadGrows
<1>5. /\ records \subseteq records' /\ lastId <= lastId' /\ LogInv' /\ lastId' \in Nat
      /\ records' \subseteq Row
  BY <1>4 DEF LogGrows, LogInv, TypeOK
<1>6. /\ CursorFor(Account, 0)' \in Nat /\ CursorFor(Account, 0)' <= lastId'
      /\ NoReply \in Reply /\ NoReply.page = {}
  <2>1. LogInv' => AnswerHandedOut'
    BY AnswerBounds, PTL
  <2>. QED BY <1>5, <2>1 DEF AnswerHandedOut, NoReply, Reply
<1>7. \A lo, hi : Hidden(p, lo, hi) \subseteq Nat
  BY <1>1 DEF Hidden, RowsOf, Row
<1>8. /\ outbox' \in [Phones -> SUBSET QueueEntry] /\ outbox'[p] = left
      /\ \A q \in Phones \ {p} : outbox'[q] = outbox[q]
  BY <1>1, <1>2
<1>9. /\ queue' \in [Phones -> SUBSET QueueEntry] /\ cursor' \in [Phones -> Nat]
      /\ phase' \in [Phones -> SyncPhases]
      /\ reply' \in [Phones -> Reply]
      /\ gap' \in [Phones -> SUBSET Nat] /\ rest' \in [Phones -> SUBSET Nat]
      /\ \A q \in Phones \ {p} :
           /\ queue'[q] = queue[q] /\ cursor'[q] = cursor[q] /\ phase'[q] = phase[q]
           /\ reply'[q] = reply[q] /\ gap'[q] = gap[q] /\ rest'[q] = rest[q]
  <2>1. /\ queue' = queue \/ queue' = [queue EXCEPT ![p] = {}]
        /\ cursor' = cursor \/ cursor' = [cursor EXCEPT ![p] = CursorFor(Account, 0)']
        /\ phase' = phase \/ phase' = [phase EXCEPT ![p] = "idle"]
        /\ reply' = reply \/ reply' = [reply EXCEPT ![p] = NoReply]
    BY <1>2
  <2>2. /\ rest' = rest \/ rest' = [rest EXCEPT ![p] = rest[p] \cup Hidden(p, r.cursor, r.upTo)]
        /\ gap' = gap \/ gap' = [gap EXCEPT ![p] = gap[p] \cup Hidden(p, r.upTo, lastId)]
    BY <1>2
  <2>3. /\ queue' \in [Phones -> SUBSET QueueEntry]
        /\ \A q \in Phones \ {p} : queue'[q] = queue[q]
    BY <1>1, <2>1
  <2>4. /\ cursor' \in [Phones -> Nat]
        /\ \A q \in Phones \ {p} : cursor'[q] = cursor[q]
    BY <1>1, <1>6, <2>1
  <2>5. /\ phase' \in [Phones -> SyncPhases]
        /\ \A q \in Phones \ {p} : phase'[q] = phase[q]
    BY <1>1, <2>1
  <2>6. /\ reply' \in [Phones -> Reply]
        /\ \A q \in Phones \ {p} : reply'[q] = reply[q]
    BY <1>1, <1>6, <2>1
  <2>7. /\ gap' \in [Phones -> SUBSET Nat] /\ rest' \in [Phones -> SUBSET Nat]
        /\ \A q \in Phones \ {p} : gap'[q] = gap[q] /\ rest'[q] = rest[q]
    BY <1>1, <1>7, <2>2
  <2>. QED BY <2>3, <2>4, <2>5, <2>6, <2>7
<1>10. Shapes'
  <2>1. \A q \in Phones : reply'[q].page \subseteq records'
    <3>1. \A q \in Phones : reply[q].page \subseteq records
      BY <1>1 DEF Shapes, PhonesTypeOK
    <3>2. \A q \in Phones : reply'[q] \in {reply[q], NoReply}
      BY <1>1, <1>2
    <3>. QED BY <1>5, <1>6, <3>1, <3>2
  <2>. QED BY <1>1, <1>2, <1>5, <1>8, <1>9, <2>1 DEF Shapes, PhonesTypeOK
<1>11. \A e \in queue[p] : e \in left \/ Known(e.group, e.content)'
  <2>1. SUFFICES ASSUME NEW e \in queue[p] PROVE e \in left \/ Known(e.group, e.content)'
    OBVIOUS
  <2>2. CASE e \in outbox[p]
    BY <1>4, <2>2
  <2>3. CASE Known(e.group, e.content)
    BY <1>5, <2>3, KnownStays
  <2>. QED BY <1>1, <1>2, <2>2, <2>3 DEF PhoneInv, UploadInv
<1>. HIDE DEF left
<1>12. WorldMoves /\ Others(p)
  <2>1. HearingGrows
    BY <1>1, <1>2, TypesHere DEF HearingGrows
  <2>2. QueuesMove
    <3>1. queue' = queue \/ (queue'[p] = {} /\ left = {})
      BY <1>1, <1>2
    <3>. QED BY <1>9, <1>11, <3>1 DEF QueuesMove
  <2>. QED BY <1>2, <1>4, <1>8, <1>9, <2>1, <2>2 DEF WorldMoves, Others, PhoneStays
<1>13. HearingInv'
  BY <1>1, <1>2, <1>10, <1>12, HearingKeeps DEF WorldMoves
<1>14. OwnerInv(p)'
  BY <1>1, <1>2, <1>12, OwnerKeeps DEF PhoneInv
<1>15. QueueInv(p)'
  <2>1. left \in SUBSET outbox[p]
    BY DEF left
  <2>2. IsFiniteSet(left)
    BY <1>1, <2>1, FS_Subset DEF PhoneInv, QueueInv
  <2>3. queue'[p] \in {queue[p], {}}
    BY <1>1, <1>2
  <2>. QED BY <1>1, <1>2, <1>8, <2>1, <2>2, <2>3, FS_EmptySet DEF PhoneInv, QueueInv
<1>16. \A w \in Winners(Account, 0)' :
         \/ w \in Winners(Account, 0) /\ w.id \in Nat /\ w.id <= lastId
         \/ w.device = p /\ w.id \in Nat /\ lastId < w.id
  <2>1. \A w \in Winners(Account, 0) : w.id \in Nat /\ w.id <= lastId
    BY <1>1, TypesHere DEF Winners, RowsOf, Row, LogInv
  <2>2. \A w \in records' \ records : w.device = p /\ w.id \in Nat /\ lastId < w.id
    BY <1>4, <1>5 DEF LogGrows, Row
  <2>. QED BY <1>4, <2>1, <2>2, OldWinners
<1>17. /\ cursor[p] \in Nat /\ cursor[p] <= lastId /\ Passed(p, cursor[p])
       /\ r.cursor \in Nat /\ r.cursor <= lastId /\ Passed(p, r.cursor) /\ r.upTo \in Nat
  BY <1>1, <1>2 DEF PhoneInv, ArriveInv, Reply
<1>18. ASSUME left # {} PROVE PhoneInv(p)'
  <2>1. UNCHANGED <<queue, cursor, phase, reply, gap, rest>>
    BY <1>2, <1>18
  <2>2. UploadInv(p)'
    BY <1>1, <1>2, <1>8, <1>11, <2>1 DEF PhoneInv, UploadInv, left
  <2>3. FlagInv(p)'
    BY <1>1, <1>2, <2>1 DEF PhoneInv, FlagInv
  <2>4. Passed(p, cursor[p])' /\ Passed(p, reply[p].cursor)'
    BY <1>2, <1>16, <1>17, <2>1 DEF Passed
  <2>5. ArriveInv(p)'
    <3>1. cursor'[p] = cursor[p] /\ reply'[p] = reply[p] /\ phase'[p] = "uploading"
      BY <1>2, <2>1
    <3>2. cursor[p] <= lastId' /\ reply[p].cursor <= lastId'
      BY <1>1, <1>5, <1>17
    <3>. QED BY <2>4, <3>1, <3>2 DEF ArriveInv
  <2>. QED BY <1>2, <1>14, <1>15, <2>1, <2>2, <2>3, <2>5 DEF PhoneInv, ReadInv
<1>19. ASSUME left = {} PROVE PhoneInv(p)'
  <2>1. /\ phase'[p] = "idle" /\ cursor'[p] = CursorFor(Account, 0)'
        /\ rest'[p] = rest[p] \cup Hidden(p, r.cursor, r.upTo)
        /\ gap'[p] = gap[p] \cup Hidden(p, r.upTo, lastId)
    BY <1>1, <1>2, <1>19
  <2>2. ASSUME NEW w \in Winners(Account, 0), w.id \in Nat, w.id <= lastId, w.device # p
        PROVE  w.id \in delivered'[p] \cup gap'[p] \cup rest'[p]
    <3>1. w \in RowsOf(Account)
      BY DEF Winners
    <3>2. CASE w.id <= r.cursor
      BY <1>2, <1>17, <2>1, <2>2, <3>2 DEF Passed
    <3>3. CASE r.cursor < w.id /\ w.id <= r.upTo
      BY <2>1, <2>2, <3>1, <3>3 DEF Hidden
    <3>4. CASE r.upTo < w.id
      BY <2>1, <2>2, <3>1, <3>4 DEF Hidden
    <3>. QED BY <1>17, <2>2, <3>2, <3>3, <3>4
  <2>3. Passed(p, cursor[p])'
    BY <1>16, <2>2 DEF Passed
  <2>4. ArriveInv(p)'
    BY <1>6, <2>1, <2>3 DEF ArriveInv
  <2>. QED BY <1>14, <1>15, <2>1, <2>4 DEF PhoneInv, UploadInv, FlagInv, ReadInv
<1>20. PhoneInv(p)'
  BY <1>18, <1>19
<1>. QED BY <1>2, <1>10, <1>12, <1>13, <1>20 DEF StepKeeps

(* A request that was abandoned disturbs no phone's invariant: where two syncs of  *)
(* one phone meet, crossed remembers it.                                         *)
AbandonedKeeps ==
  /\ Shapes' /\ HearingInv' /\ WorldMoves
  /\ \A r \in late' : r \in late \/ LateHolds(r)'
  /\ \A p \in Phones :
       PhoneStays(p) /\ (importing'[p] = importing[p] \/ crossed' \/ ~Relies(p))

(* What holds of a step that changes the account's sessions and requests alone.  *)
LEMMA SessionsOnly ==
  ASSUME SyncInv, importing' \in [Phones -> BOOLEAN], late' \subseteq Requests,
         crossed => crossed',
         UNCHANGED <<episodeVars, clock, heard, held, queue, cursor, phase, reply, outbox,
                     delivered, gap, rest, drops>>
  PROVE  /\ Shapes' /\ HearingInv' /\ WorldMoves
         /\ \A p \in Phones : PhoneStays(p)
<1>1. Shapes /\ HearingInv
  BY DEF SyncInv
<1>2. Shapes'
  BY <1>1, QuietLog DEF Shapes, PhonesTypeOK
<1>3. WorldMoves
  BY <1>1, QuietWorld
<1>4. HearingInv'
  BY <1>1, <1>2, <1>3, HearingKeeps DEF WorldMoves
<1>. QED BY <1>2, <1>3, <1>4 DEF PhoneStays

LEMMA BeginSessionKeeps ==
  ASSUME SyncInv, NEW r \in late, BeginSession(r)
  PROVE  AbandonedKeeps
<1>1. /\ importing \in [Phones -> BOOLEAN] /\ late \subseteq Requests /\ r \in Requests
  BY TypesHere DEF SyncInv, Shapes
<1>2. /\ \A q \in late' : \/ q \in late
                          \/ q = [r EXCEPT !.kind = "session", !.flag = importing[r.phone]]
                          \/ q = [r EXCEPT !.kind = "session"]
      /\ importing' = importing /\ crossed' = crossed
      /\ UNCHANGED <<episodeVars, clock, heard, held, queue, cursor, phase, reply, outbox,
                     delivered, gap, rest, drops>>
  BY DEF BeginSession, phoneVars, pathVars, histVars
<1>3. \A q \in late' : q \in late \/ (q \in Requests /\ q.kind = "session")
  BY <1>1, <1>2 DEF Requests
<1>4. late' \subseteq Requests /\ \A q \in late' : q \in late \/ LateHolds(q)'
  BY <1>1, <1>3 DEF LateHolds
<1>. QED BY <1>1, <1>2, <1>4, SessionsOnly DEF AbandonedKeeps

LEMMA BeginUploadKeeps ==
  ASSUME SyncInv, NEW r \in late, BeginUpload(r)
  PROVE  AbandonedKeeps
<1>1. PICK begun : begun = [r EXCEPT !.kind = "upload", !.flag = importing[r.phone]]
  OBVIOUS
<1>2. /\ importing \in [Phones -> BOOLEAN] /\ late \subseteq Requests /\ r \in Requests
      /\ Shapes /\ LateHolds(r)
  BY TypesHere DEF SyncInv, Shapes, LateInv
<1>3. /\ r.kind = "post" /\ late' = (late \ {r}) \cup {begun}
      /\ crossed' = (crossed \/ importing[r.phone] # r.flag)
      /\ importing' = importing
      /\ UNCHANGED <<episodeVars, clock, heard, held, queue, cursor, phase, reply, outbox,
                     delivered, gap, rest, drops>>
  BY <1>1 DEF BeginUpload, phoneVars, pathVars
<1>4. /\ begun \in Requests /\ begun.kind = "upload" /\ begun.batch = r.batch
      /\ begun.flag = importing[r.phone]
  BY <1>1, <1>2 DEF Requests
<1>5. /\ Shapes' /\ HearingInv' /\ WorldMoves /\ \A p \in Phones : PhoneStays(p)
  BY <1>2, <1>3, <1>4, SessionsOnly
<1>6. LateHolds(r)'
  BY <1>2, <1>5, LateKeeps
<1>7. ~crossed' => begun.flag = r.flag
  BY <1>3, <1>4
<1>8. LateHolds(begun)'
  BY <1>3, <1>4, <1>6, <1>7 DEF LateHolds
<1>. QED BY <1>3, <1>5, <1>8 DEF AbandonedKeeps

LEMMA StoreSessionKeeps ==
  ASSUME SyncInv, NEW r \in late, StoreSession(r)
  PROVE  AbandonedKeeps
<1>1. /\ importing \in [Phones -> BOOLEAN] /\ late \subseteq Requests
      /\ r.phone \in Phones /\ r.flag \in BOOLEAN
  BY TypesHere DEF SyncInv, Shapes, Requests
<1>2. /\ late' = late \ {r}
      /\ importing' = [importing EXCEPT ![r.phone] = r.flag]
      /\ crossed' = (crossed \/ (Relies(r.phone) /\ importing[r.phone] # r.flag))
      /\ UNCHANGED <<episodeVars, clock, heard, held, queue, cursor, phase, reply, outbox,
                     delivered, gap, rest, drops>>
  BY DEF StoreSession, phoneVars
<1>3. importing' \in [Phones -> BOOLEAN] /\ late' \subseteq Requests
  BY <1>1, <1>2
<1>4. \A p \in Phones : importing'[p] = importing[p] \/ crossed' \/ ~Relies(p)
  BY <1>1, <1>2
<1>. QED BY <1>2, <1>3, <1>4, SessionsOnly DEF AbandonedKeeps

LEMMA StoreUploadKeeps ==
  ASSUME SyncInv, NEW r \in late, StoreUpload(r)
  PROVE  AbandonedKeeps
<1>1. /\ Shapes /\ HearingInv /\ r \in Requests /\ LateInv
  BY DEF SyncInv, Shapes
<1>2. /\ r.kind = "upload" /\ late' = late \ {r}
      /\ Upload(Account, r.batch, r.flag, clock)
      /\ UNCHANGED <<clock, heard, held, queue, cursor, phase, reply, outbox, importing,
                     crossed, delivered, gap, rest, drops>>
  BY DEF StoreUpload, phoneVars, pathVars, histVars
<1>3. r.batch \in PhoneBatches /\ r.flag \in BOOLEAN
  BY <1>1 DEF Requests
<1>4. Sendable(r.batch, r.flag)
  <2>1. \A i \in DOMAIN r.batch : r.batch[i].device \in Phones
    BY <1>3 DEF PhoneBatches, QueueEntry
  <2>. QED BY <1>1, <1>2, <2>1 DEF LateInv, LateHolds, Sendable
<1>5. LogGrows
  BY <1>1, <1>2, <1>3, <1>4, UploadGrows
<1>6. Shapes'
  BY <1>1, <1>2, <1>5 DEF Shapes, PhonesTypeOK, LogGrows
<1>7. WorldMoves
  BY <1>1, <1>2, <1>5, TypesHere DEF WorldMoves, HearingGrows, QueuesMove
<1>8. HearingInv'
  BY <1>1, <1>2, <1>6, <1>7, HearingKeeps DEF WorldMoves
<1>9. \A p \in Phones : PhoneStays(p) /\ importing'[p] = importing[p]
  BY <1>2 DEF PhoneStays
<1>. QED BY <1>2, <1>6, <1>7, <1>8, <1>9 DEF AbandonedKeeps

--------------------------------------------------------------------------------
(* The invariant holds.                                                          *)

LEMMA SyncInvInit == SyncInit => SyncInv
<1> SUFFICES ASSUME SyncInit PROVE SyncInv
  OBVIOUS
<1>1. /\ records = {} /\ lastId = 0 /\ devices = {} /\ clock = 0 /\ late = {} /\ drops = 0
      /\ heard = [g \in Groups |-> [c \in Contents |-> 0]]
      /\ held = [p \in Phones |-> [g \in Groups |-> Nothing]]
      /\ queue = [p \in Phones |-> {}] /\ outbox = [p \in Phones |-> {}]
      /\ cursor = [p \in Phones |-> 0] /\ phase = [p \in Phones |-> "idle"]
      /\ reply = [p \in Phones |-> NoReply] /\ importing = [p \in Phones |-> FALSE]
      /\ delivered = [p \in Phones |-> {}] /\ gap = [p \in Phones |-> {}]
      /\ rest = [p \in Phones |-> {}]
  BY DEF SyncInit, Init
<1>2. MaxClock \in Nat /\ 0 \in 0..MaxClock
  BY SyncAssumption
<1>3. LogInv
  BY <1>1 DEF LogInv, TypeOK
<1>4. NoReply \in Reply /\ NoReply.page = {}
  BY DEF NoReply, Reply
<1>5. Shapes
  BY <1>1, <1>2, <1>3, <1>4 DEF Shapes, PhonesTypeOK
<1>6. HearingInv /\ LateInv /\ NothingFabricated
  BY <1>1, <1>2 DEF HearingInv, LateInv, NothingFabricated
<1>7. ASSUME NEW p \in Phones PROVE PhoneInv(p)
  <2>1. {g \in Groups : held[p][g] # Nothing} = {} /\ queue[p] = {} /\ outbox[p] = {}
    BY <1>1
  <2>2. QueueInv(p)
    BY <2>1, FS_EmptySet DEF QueueInv
  <2>3. UploadInv(p) /\ FlagInv(p) /\ OwnerInv(p) /\ ReadInv(p)
    BY <1>1 DEF UploadInv, FlagInv, OwnerInv, ReadInv
  <2>4. ArriveInv(p)
    BY <1>1 DEF ArriveInv, Passed, Winners, RowsOf
  <2>. QED BY <2>2, <2>3, <2>4 DEF PhoneInv
<1>. QED BY <1>5, <1>6, <1>7 DEF SyncInv

LEMMA StepKeepsSyncInv ==
  ASSUME SyncInv, NEW p \in Phones, StepKeeps(p)
  PROVE  SyncInv'
<1>1. Shapes /\ HearingInv /\ LateInv /\ NothingFabricated /\ \A q \in Phones : PhoneInv(q)
  BY DEF SyncInv
<1>2. Shapes' /\ HearingInv' /\ WorldMoves /\ PhoneInv(p)'
  BY DEF StepKeeps
<1>3. NothingFabricated'
  BY <1>1, <1>2, GenuineStays DEF WorldMoves
<1>4. LateInv'
  BY <1>1, <1>2, LateNext DEF StepKeeps
<1>5. ASSUME NEW q \in Phones, q # p PROVE PhoneInv(q)'
  <2>1. PhoneStays(q) /\ importing'[q] = importing[q]
    BY <1>5 DEF StepKeeps, Others
  <2>. QED BY <1>1, <1>2, <2>1, BystanderKeeps
<1>. QED BY <1>2, <1>3, <1>4, <1>5 DEF SyncInv

LEMMA AbandonedKeepsSyncInv ==
  ASSUME SyncInv, AbandonedKeeps
  PROVE  SyncInv'
<1>1. Shapes /\ HearingInv /\ LateInv /\ NothingFabricated /\ \A q \in Phones : PhoneInv(q)
  BY DEF SyncInv
<1>2. Shapes' /\ HearingInv' /\ WorldMoves
  BY DEF AbandonedKeeps
<1>3. NothingFabricated'
  BY <1>1, <1>2, GenuineStays DEF WorldMoves
<1>4. LateInv'
  BY <1>1, <1>2, LateNext DEF AbandonedKeeps
<1>5. ASSUME NEW q \in Phones PROVE PhoneInv(q)'
  BY <1>1, <1>2, BystanderKeeps DEF AbandonedKeeps
<1>. QED BY <1>2, <1>3, <1>4, <1>5 DEF SyncInv

(* Every step of a phone is one of these.                                        *)
LEMMA PhoneStepKeeps ==
  ASSUME SyncInv, NEW p \in Phones,
         \/ SyncStep(p) \/ Drop(p) \/ ForceFullSync(p)
         \/ \E g \in Groups, c \in Contents : Listen(p, g, c)
  PROVE  StepKeeps(p)
BY LoginKeeps, LoggedInKeeps, GetKeeps, FinishReadKeeps, StartUploadKeeps, PostBatchKeeps, DropKeeps,
   ForceFullSyncKeeps, ListenKeeps DEF SyncStep

(* And every step of an abandoned request.                                       *)
LEMMA AbandonedStepKeeps ==
  ASSUME SyncInv, NEW r \in late,
         BeginSession(r) \/ BeginUpload(r) \/ StoreSession(r) \/ StoreUpload(r)
  PROVE  AbandonedKeeps
BY BeginSessionKeeps, BeginUploadKeeps, StoreSessionKeeps, StoreUploadKeeps

LEMMA SyncInvNext == SyncInv /\ [SyncNext]_syncVars => SyncInv'
<1> SUFFICES ASSUME SyncInv, [SyncNext]_syncVars PROVE SyncInv'
  OBVIOUS
<1>1. ASSUME NEW p \in Phones,
             \/ SyncStep(p) \/ Drop(p) \/ ForceFullSync(p)
             \/ \E g \in Groups, c \in Contents : Listen(p, g, c)
      PROVE  SyncInv'
  BY <1>1, PhoneStepKeeps, StepKeepsSyncInv
<1>2. ASSUME NEW r \in late,
             BeginSession(r) \/ BeginUpload(r) \/ StoreSession(r) \/ StoreUpload(r)
      PROVE  SyncInv'
  BY <1>2, AbandonedStepKeeps, AbandonedKeepsSyncInv
<1>3. ASSUME UNCHANGED syncVars PROVE SyncInv'
  <2>1. /\ UNCHANGED <<episodeVars, clock, heard, held, queue, cursor, phase, reply, outbox,
                       importing, late, crossed, delivered, gap, rest, drops>>
        /\ Shapes /\ HearingInv
    BY <1>3 DEF syncVars, phoneVars, pathVars, histVars, SyncInv
  <2>2. Shapes'
    BY <2>1, QuietLog DEF Shapes, PhonesTypeOK
  <2>3. WorldMoves
    BY <2>1, QuietWorld
  <2>4. HearingInv'
    BY <2>1, <2>2, <2>3, HearingKeeps DEF WorldMoves
  <2>5. AbandonedKeeps
    BY <2>1, <2>2, <2>3, <2>4 DEF AbandonedKeeps, PhoneStays
  <2>. QED BY <2>5, AbandonedKeepsSyncInv
<1>. QED BY <1>1, <1>2, <1>3 DEF SyncNext

LEMMA SyncInvariant == SyncSpec => []SyncInv
BY SyncInvInit, SyncInvNext, PTL DEF SyncSpec

(* Shapes of the phones' side and the log's invariant, under every interleaving  *)
(* of phones, abandoned requests and resets.                                     *)
THEOREM SyncTypes == SyncSpec => []PhonesTypeOK
<1>1. SyncInv => PhonesTypeOK
  BY DEF SyncInv, Shapes
<1>. QED BY <1>1, SyncInvariant, PTL

(* An upload is an import exactly when its sync read from 0, unless an abandoned *)
(* read stored the session under it.                                             *)
THEOREM FlagIsTheReads == SyncSpec => []FlagFollowsRead
<1>1. SyncInv => FlagFollowsRead
  BY DEF SyncInv, PhoneInv, FlagInv, FlagFollowsRead
<1>. QED BY <1>1, SyncInvariant, PTL

(* Every row says when somebody really listened, or makes no claim.              *)
THEOREM MomentsAreGenuine == SyncSpec => []NothingFabricated
<1>1. SyncInv => NothingFabricated
  BY DEF SyncInv
<1>. QED BY <1>1, SyncInvariant, PTL

(* A phone misses a winner only below the cursor of an upload: written after its *)
(* read, or left over when its page was full.                                    *)
THEOREM WinnersReachPhones == SyncSpec => []WinnersArrive
<1>1. SyncInv => WinnersArrive
  BY DEF SyncInv, PhoneInv, ArriveInv, Passed, WinnersArrive, Missed
<1>. QED BY <1>1, SyncInvariant, PTL

--------------------------------------------------------------------------------
(* No download rewinds what was reported.                                        *)

(* A row a phone applies was listened to no earlier than what it replaces.       *)
LEMMA AppliedIsNoEarlier ==
  ASSUME SyncInv, ~crossed, NEW p \in Phones, phase[p] = "reading", NEW g \in Groups,
         Reported(p, g), NEW r \in Applied(p, g)
  PROVE  heard[g][r.content] >= Moment(p, g)
<1>1. /\ Shapes /\ PhoneInv(p) /\ NothingFabricated /\ records \subseteq Row
      /\ heard \in [Groups -> [Contents -> Nat]]
      /\ held[p][g] \in Contents \cup {Nothing} /\ queue[p] \subseteq QueueEntry
      /\ ImportSentinel = 0 /\ Times \subseteq Nat
  BY TypesHere, SyncAssumption, TimesAssumption DEF SyncInv
<1>2. /\ r \in reply[p].page /\ r \in records /\ r.group = g
      /\ \A q \in queue[p] : q.group = g => q.at < r.at
      /\ r.at \in Nat /\ r.content \in Contents
  BY <1>1 DEF Applied, Shapes, PhonesTypeOK, Row
<1>3. r.at # 0 => r.at = heard[g][r.content]
  BY <1>1, <1>2 DEF NothingFabricated, Genuine
<1>4. CASE held[p][g] = Nothing
  BY <1>1, <1>2, <1>4 DEF Moment
<1> DEFINE c == held[p][g]
<1>5. CASE held[p][g] # Nothing
  <2>1. c \in Contents /\ Moment(p, g) = heard[g][c] /\ heard[g][c] \in Nat
    BY <1>1, <1>5 DEF Moment
  <2>2. ASSUME Waiting(p, g, c) PROVE heard[g][r.content] >= heard[g][c]
    <3>1. PICK q \in queue[p] : q.group = g /\ q.content = c
      BY <2>2 DEF Waiting
    <3>2. q.at > 0 /\ q.at = heard[g][c] /\ q.at < r.at
      BY <1>1, <1>2, <3>1 DEF PhoneInv, QueueInv
    <3>. QED BY <1>2, <1>3, <2>1, <3>2
  <2>3. ASSUME NEW s \in records, s.group = g, s.content = c, s.at # ImportSentinel
        PROVE  heard[g][r.content] >= heard[g][c]
    <3>1. s.at = heard[g][c] /\ s.at # 0
      BY <1>1, <2>3 DEF NothingFabricated, Genuine
    <3>2. s.at <= r.at \/ Waiting(p, g, c)
      BY <1>1, <1>2, <2>3 DEF PhoneInv, ReadInv
    <3>3. CASE s.at <= r.at
      BY <1>2, <1>3, <2>1, <3>1, <3>3
    <3>. QED BY <2>2, <3>2, <3>3
  <2>. QED BY <2>1, <2>2, <2>3 DEF Reported, Waiting
<1>. QED BY <1>4, <1>5

(* No download, dump, retry or late report of another phone takes a phone back    *)
(* behind listening that was reported, for any number of phones and failures.     *)
THEOREM NothingRewinds == SyncSpec => NoRewind
<1> DEFINE Ahead(p, g) == Moment(p, g)' >= Moment(p, g)
<1>1. SyncInv /\ SyncInv' /\ [SyncNext]_syncVars
        => [~crossed' => \A p \in Phones, g \in Groups : Reported(p, g) => Ahead(p, g)]_syncVars
  <2> SUFFICES ASSUME SyncInv, SyncInv', SyncNext, ~crossed', NEW p \in Phones,
                      NEW g \in Groups, Reported(p, g)
               PROVE  Ahead(p, g)
    OBVIOUS
  <2>1. /\ Shapes /\ Shapes' /\ held[p][g] \in Contents \cup {Nothing} /\ clock \in Nat
        /\ heard \in [Groups -> [Contents -> Nat]] /\ heard' \in [Groups -> [Contents -> Nat]]
        /\ Nothing \notin Contents
    <3>1. MaxClock \in Nat /\ heard' \in [Groups -> [Contents -> 0..MaxClock]]
      BY SyncAssumption DEF SyncInv, Shapes, PhonesTypeOK
    <3>. QED BY <3>1, TypesHere, SyncAssumption DEF SyncInv
  <2>2. WorldMoves
    <3>1. ASSUME NEW q \in Phones,
                 \/ SyncStep(q) \/ Drop(q) \/ ForceFullSync(q)
                 \/ \E h \in Groups, c \in Contents : Listen(q, h, c)
          PROVE  WorldMoves
      BY <3>1, PhoneStepKeeps DEF StepKeeps
    <3>2. ASSUME NEW r \in late,
                 BeginSession(r) \/ BeginUpload(r) \/ StoreSession(r) \/ StoreUpload(r)
          PROVE  WorldMoves
      BY <3>2, AbandonedStepKeeps DEF AbandonedKeeps
    <3>. QED BY <3>1, <3>2 DEF SyncNext
  <2>3. ~crossed
    BY <2>2 DEF WorldMoves
  <2>4. ASSUME held'[p][g] = held[p][g] PROVE Ahead(p, g)
    <3>1. CASE held[p][g] = Nothing
      BY <2>4, <3>1 DEF Moment
    <3>2. CASE held[p][g] # Nothing
      <4>1. held[p][g] \in Contents
        BY <2>1, <3>2
      <4>2. heard'[g][held[p][g]] >= heard[g][held[p][g]]
        BY <2>1, <2>2, <4>1 DEF WorldMoves, HearingGrows
      <4>. QED BY <2>4, <3>2, <4>2 DEF Moment
    <3>. QED BY <3>1, <3>2
  <2>5. ASSUME phase[p] = "reading", Download(p), UNCHANGED heard PROVE Ahead(p, g)
    <3>1. \/ held'[p][g] = held[p][g]
          \/ \E r \in Applied(p, g) : held'[p][g] = r.content
      BY <2>5, DownloadFacts
    <3>2. ASSUME NEW r \in Applied(p, g), held'[p][g] = r.content PROVE Ahead(p, g)
      <4>1. heard[g][r.content] >= Moment(p, g)
        BY <2>3, <2>5, AppliedIsNoEarlier
      <4>2. r.content \in Contents
        BY <2>1, TypesHere DEF Applied, Shapes, PhonesTypeOK, Row
      <4>3. Moment(p, g)' = heard[g][r.content]
        BY <2>1, <2>5, <3>2, <4>2 DEF Moment
      <4>. QED BY <4>1, <4>3
    <3>. QED BY <2>4, <3>1, <3>2
  <2>6. ASSUME NEW c \in Contents, Listen(p, g, c) PROVE Ahead(p, g)
    <3>1. /\ heard'[g][c] = clock + 1 /\ held'[p][g] = c
      BY <2>1, <2>6, TypesHere DEF Listen
    <3>2. Moment(p, g)' = clock + 1
      BY <2>1, <3>1 DEF Moment
    <3>3. Moment(p, g) \in Nat /\ Moment(p, g) <= clock
      BY <2>1 DEF Moment, SyncInv, HearingInv
    <3>. QED BY <2>1, <3>2, <3>3
  <2>7. CASE \E r \in late :
               BeginSession(r) \/ BeginUpload(r) \/ StoreSession(r) \/ StoreUpload(r)
    <3>1. held' = held
      BY <2>7 DEF BeginSession, BeginUpload, StoreSession, StoreUpload, phoneVars
    <3>. QED BY <2>4, <3>1
  <2>8. CASE \E q \in Phones : SyncStep(q) \/ Drop(q) \/ ForceFullSync(q)
               \/ \E h \in Groups, c \in Contents : Listen(q, h, c)
    <3>1. PICK q \in Phones : SyncStep(q) \/ Drop(q) \/ ForceFullSync(q)
               \/ \E h \in Groups, c \in Contents : Listen(q, h, c)
      BY <2>8
    <3>2. CASE q # p
      <4>1. StepKeeps(q)
        BY <3>1, PhoneStepKeeps
      <4>2. held'[p] = held[p]
        BY <3>2, <4>1 DEF StepKeeps, Others, PhoneStays
      <4>. QED BY <2>4, <4>2
    <3>3. CASE q = p
      <4>1. CASE Login(p) \/ LoggedIn(p) \/ Get(p) \/ Drop(p) \/ ForceFullSync(p)
                   \/ \E batch \in NextBatches(p) : PostBatch(p, batch)
        <5>1. held' = held
          BY <4>1 DEF Login, LoggedIn, Get, Drop, ForceFullSync, PostBatch, phoneVars
        <5>. QED BY <2>4, <5>1
      <4>2. CASE FinishRead(p) \/ StartUpload(p)
        BY <2>5, <4>2 DEF FinishRead, StartUpload, Advance
      <4>3. ASSUME NEW h \in Groups, NEW c \in Contents, Listen(p, h, c)
            PROVE  Ahead(p, g)
        <5>1. CASE h = g
          BY <2>6, <4>3, <5>1
        <5>2. CASE h # g
          <6>1. held'[p][g] = held[p][g]
            BY <2>1, <4>3, <5>2, TypesHere DEF Listen
          <6>. QED BY <2>4, <6>1
        <5>. QED BY <5>1, <5>2
      <4>. QED BY <3>1, <3>3, <4>1, <4>2, <4>3 DEF SyncStep
    <3>. QED BY <3>2, <3>3
  <2>. QED BY <2>7, <2>8 DEF SyncNext
<1>. QED BY <1>1, SyncInvariant, PTL DEF SyncSpec, NoRewind

--------------------------------------------------------------------------------
(* Refinement.                                                                   *)

(* Whatever phones do, the server sees uploads to one log: all that is proved of  *)
(* EpisodeLog holds under every interleaving of syncs.                           *)
THEOREM SyncImplementsLog == SyncSpec => Spec
<1>1. SyncInit => Init
  BY DEF SyncInit
<1>2. SyncInv /\ [SyncNext]_syncVars => [Next]_episodeVars
  <2> SUFFICES ASSUME SyncInv, [SyncNext]_syncVars PROVE [Next]_episodeVars
    OBVIOUS
  <2>1. /\ Shapes /\ clock \in Times /\ Account \in Users
        /\ importing \in [Phones -> BOOLEAN]
    BY TypesHere, SyncAssumption DEF SyncInv
  <2>2. ASSUME NEW batch \in PhoneBatches, NEW imported \in BOOLEAN,
               Upload(Account, batch, imported, clock)
        PROVE  Next
    BY <2>1, <2>2 DEF Next, PhoneBatches
  <2>3. ASSUME NEW p \in Phones,
               \/ SyncStep(p) \/ Drop(p) \/ ForceFullSync(p)
               \/ \E g \in Groups, c \in Contents : Listen(p, g, c)
        PROVE  [Next]_episodeVars
    <3>1. CASE \E batch \in NextBatches(p) : PostBatch(p, batch)
      <4>1. PICK batch \in NextBatches(p) : PostBatch(p, batch)
        BY <3>1
      <4>2. Upload(Account, batch, importing[p], clock)
        BY <4>1 DEF PostBatch
      <4>3. batch \in PhoneBatches /\ importing[p] \in BOOLEAN
        BY <2>1, NextBatchFacts
      <4>. QED BY <2>2, <4>2, <4>3
    <3>. QED BY <2>3, <3>1 DEF SyncStep, Login, LoggedIn, Get, FinishRead, StartUpload,
                               Drop, ForceFullSync, Listen, episodeVars
  <2>4. ASSUME NEW r \in late,
               BeginSession(r) \/ BeginUpload(r) \/ StoreSession(r) \/ StoreUpload(r)
        PROVE  [Next]_episodeVars
    <3>1. CASE BeginSession(r) \/ BeginUpload(r) \/ StoreSession(r)
      BY <3>1 DEF BeginSession, BeginUpload, StoreSession, episodeVars
    <3>2. CASE StoreUpload(r)
      <4>1. r.batch \in PhoneBatches /\ r.flag \in BOOLEAN
        BY <2>1, <3>2 DEF StoreUpload, Shapes, Requests
      <4>. QED BY <2>2, <3>2, <4>1 DEF StoreUpload
    <3>. QED BY <2>4, <3>1, <3>2
  <2>. QED BY <2>3, <2>4 DEF SyncNext, syncVars
<1>. QED BY <1>1, <1>2, SyncInvariant, PTL DEF SyncSpec, Spec

(* So its phones share one resume point per group, which only a strictly later    *)
(* claim replaces, and reading on from any cursor skips no winner.               *)
THEOREM SyncImplementsPoints == SyncSpec => ImplementsResumePoints /\ []PagesSkipNothing
BY SyncImplementsLog, LogImplementsPoints, PagesInvariant, PTL
================================================================================

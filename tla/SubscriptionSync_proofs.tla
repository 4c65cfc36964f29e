------------------------- MODULE SubscriptionSync_proofs ------------------------
(* Theorems about SubscriptionSync, for every set of accounts, phones and URLs,   *)
(* every assignment of phones to accounts and every bound on edits and failures.  *)
EXTENDS SubscriptionSync, SubscriptionLog_proofs

--------------------------------------------------------------------------------
(* What a step makes of the log.                                                 *)

(* Every step but a loss of power only appends to the log, above lastId.         *)
Grown ==
  /\ LogInv'
  /\ changes \subseteq changes' /\ lastId <= lastId'
  /\ \A r \in changes' \ changes : lastId < r.id

(* A commit appends rows of its account, of feeds the upload names.              *)
LEMMA CommitGrows ==
  ASSUME LogInv, NEW u \in Users, NEW d \in DeviceIds,
         NEW add \in Batches, NEW remove \in Batches, Accepted(add, remove),
         Mention(u, d), Commit(u, d, Sanitised(add), Sanitised(remove))
  PROVE  /\ Grown
         /\ \A r \in changes' \ changes :
              r.user = u /\ r.url \in Sanitised(add) \cup Sanitised(remove)
<1>1. /\ Sanitised(add) \subseteq Urls /\ IsFiniteSet(Sanitised(add))
      /\ Sanitised(remove) \subseteq Urls /\ IsFiniteSet(Sanitised(remove))
  BY SanitisedUrls
<1>2. LogInv'
  BY <1>1, CommitKeepsLogInv
<1>3. PICK A, B, middle :
        /\ changes' = changes \cup A \cup B
        /\ Block(A, u, d, "add", NewAdditions(u, Sanitised(add)), lastId, middle)
        /\ Block(B, u, d, "remove", NewRemovals(u, Sanitised(add), Sanitised(remove)),
                 middle, lastId')
  BY <1>1, CommitBlocks
<1>4. /\ lastId \in Nat /\ middle \in Nat /\ lastId' \in Nat
      /\ lastId <= middle /\ middle <= lastId'
  BY <1>3 DEF Block
<1>5. \A r \in A \cup B : /\ r.id \in Nat /\ lastId < r.id /\ r.user = u
                         /\ r.url \in Sanitised(add) \cup Sanitised(remove)
  BY <1>3, <1>4 DEF Block, Row, NewAdditions, NewRemovals
<1>. QED BY <1>2, <1>3, <1>4, <1>5 DEF Grown

(* A read appends nothing.                                                       *)
LEMMA ReadGrows ==
  ASSUME LogInv, NEW u \in Users, NEW d \in DeviceIds, Read(u, d)
  PROVE  Grown /\ changes' = changes
BY DEF Read, Mention, Grown, LogInv, TypeOK, IdsAreCursors, DevicesExist

(* Nor does a step that leaves the database alone.                               *)
LEMMA QuietGrows ==
  ASSUME LogInv, UNCHANGED logVars
  PROVE  Grown
BY DEF logVars, Grown, LogInv, TypeOK, IdsAreCursors, DevicesExist

(* The newest id of some rows, 0 if there are none.                              *)
LEMMA NewestOfRows ==
  ASSUME NEW rows \in SUBSET Row, NEW last \in Nat, \A r \in rows : r.id <= last
  PROVE  LET newest == Max({0} \cup {r.id : r \in rows})
         IN  /\ newest \in Nat /\ newest <= last
             /\ \A r \in rows : r.id \in Nat /\ r.id <= newest
             /\ newest = 0 \/ \E r \in rows : r.id = newest
<1> DEFINE ids == {0} \cup {r.id : r \in rows}
<1>1. ids \in SUBSET Nat /\ ids # {} /\ \A i \in ids : i <= last
  BY DEF Row
<1>2. Max(ids) \in ids /\ \A i \in ids : i <= Max(ids)
  <2>. HIDE DEF ids
  <2>. QED BY <1>1, MaxOfBounded
<1>. QED BY <1>1, <1>2

(* The newest id of an account bounds the ids of its rows, and is one of them     *)
(* unless there are none.                                                        *)
LEMMA NewestBounds ==
  ASSUME LogInv, NEW u \in Users
  PROVE  /\ Newest(u) \in Nat /\ Newest(u) <= lastId
         /\ \A r \in RowsOf(u) : r.id \in Nat /\ r.id <= Newest(u)
         /\ Newest(u) = 0 \/ \E r \in RowsOf(u) : r.id = Newest(u)
<1>1. RowsOf(u) \in SUBSET Row /\ lastId \in Nat /\ \A r \in RowsOf(u) : r.id <= lastId
  BY DEF LogInv, TypeOK, IdsAreCursors, RowsOf
<1>. QED BY <1>1, NewestOfRows DEF Newest

(* The same of the log a step leaves behind.                                     *)
LEMMA NewestBoundsNext ==
  ASSUME LogInv', NEW u \in Users
  PROVE  /\ Newest(u)' \in Nat /\ Newest(u)' <= lastId'
         /\ \A r \in RowsOf(u)' : r.id \in Nat /\ r.id <= Newest(u)'
         /\ Newest(u)' = 0 \/ \E r \in RowsOf(u)' : r.id = Newest(u)'
<1>1. RowsOf(u)' \in SUBSET Row /\ lastId' \in Nat /\ \A r \in RowsOf(u)' : r.id <= lastId'
  BY DEF LogInv, TypeOK, IdsAreCursors, RowsOf
<1>. QED BY <1>1, NewestOfRows DEF Newest

LEMMA MaxOfTwo ==
  ASSUME NEW a \in Nat, NEW b \in Nat
  PROVE  /\ Max({a, b}) \in Nat /\ a <= Max({a, b}) /\ b <= Max({a, b})
         /\ Max({a, b}) = a \/ Max({a, b}) = b
<1>1. {a, b} \in SUBSET Nat /\ {a, b} # {} /\ a + b \in Nat /\ \A i \in {a, b} : i <= a + b
  OBVIOUS
<1>2. Max({a, b}) \in {a, b} /\ \A i \in {a, b} : i <= Max({a, b})
  BY <1>1, MaxOfBounded
<1>. QED BY <1>2

(* The newest id never goes back while the log grows, and a new row is newer than *)
(* all that were there.                                                          *)
LEMMA NewestGrows ==
  ASSUME LogInv, Grown, NEW u \in Users
  PROVE  /\ Newest(u) <= Newest(u)' /\ Newest(u)' \in Nat
         /\ (\E r \in changes' \ changes : r.user = u) => Newest(u) < Newest(u)'
<1>1. LogInv'
  BY DEF Grown
<1>2. /\ Newest(u) \in Nat /\ Newest(u) <= lastId
      /\ Newest(u) = 0 \/ \E r \in RowsOf(u) : r.id = Newest(u)
  BY NewestBounds
<1>3. Newest(u)' \in Nat /\ \A r \in RowsOf(u)' : r.id \in Nat /\ r.id <= Newest(u)'
  BY <1>1, NewestBoundsNext
<1>4. Newest(u) <= Newest(u)'
  BY <1>2, <1>3 DEF Grown, RowsOf
<1>5. ASSUME NEW r \in changes' \ changes, r.user = u PROVE Newest(u) < Newest(u)'
  BY <1>2, <1>3, <1>5 DEF Grown, RowsOf, LogInv, TypeOK
<1>. QED BY <1>3, <1>4, <1>5

(* A feed without new or lost rows stays on the list or off it.                  *)
LEMMA QuietFeed ==
  ASSUME NEW u, NEW x, \A r : r.url = x /\ r.user = u => (r \in changes' <=> r \in changes)
  PROVE  /\ x \in CurrentUrls(u)' <=> x \in CurrentUrls(u)
<1>1. \A r : r.url = x => (r \in RowsOf(u)' <=> r \in RowsOf(u))
  BY DEF RowsOf
<1>. QED BY <1>1 DEF CurrentUrls, UrlsMarked, LatestPerUrl

--------------------------------------------------------------------------------
(* The invariant.                                                                *)

(* Some row of feed x in the account of p lies above the id n.                   *)
Above(p, x, n) == \E r \in RowsOf(Account[p]) : r.url = x /\ n < r.id

Lost(p) == lostByRead[p] \cup lostByUpload[p] \cup lostByPower[p]

(* Unless x is one of the feeds excepted or has news above the id n, the feeds    *)
(* given agree with the account about it.                                        *)
Follows(p, x, feeds, excepted, n) ==
  x \notin excepted /\ ~Above(p, x, n) => (x \in feeds <=> x \in CurrentUrls(Account[p]))

(* What is queued is finite, and the phone already shows it.                     *)
QueueInv(p) ==
  /\ IsFiniteSet(toAdd[p]) /\ IsFiniteSet(toRemove[p])
  /\ toAdd[p] \subseteq view[p] /\ toRemove[p] \cap view[p] = {}

(* Where the ids in a reply lie: at or below the log it was taken from, unless     *)
(* the power went, which leaves nothing shown.                                   *)
ReplyInv(p) ==
  /\ phase[p] = "scanned" => reply[p].upTo <= Newest(Account[p])
  /\ phase[p] = "answered" /\ reply[p].shown # {} => reply[p].cursor <= lastId
  /\ phase[p] = "stored" => reply[p].cursor <= Newest(Account[p])
  /\ phase[p] \in {"scanned", "answered"} =>
       /\ reply[p].shown \subseteq reply[p].added \cup reply[p].removed
       /\ \A x \in reply[p].added \cup reply[p].removed :
            Above(p, x, cursor[p]) \/ x \in lostByPower[p] \ reply[p].shown

(* The view follows the list of the account, in every phase of a sync up to the   *)
(* cursor the phone would store next.                                            *)
FollowsAtRest(p, x) ==
  x \notin Queued(p) => Follows(p, x, view[p], Lost(p), cursor[p])
FollowsScanned(p, x) ==
  x \notin Queued(p) /\ phase[p] = "scanned" =>
    Follows(p, x, Applied(p), Lost(p) \ reply[p].shown, reply[p].upTo)
FollowsAnswered(p, x) ==
  x \notin Queued(p) /\ phase[p] = "answered" =>
    Follows(p, x, Applied(p), (Lost(p) \ reply[p].shown) \cup reply[p].raced, reply[p].cursor)
FollowsStored(p, x) ==
  phase[p] = "stored" =>
    Follows(p, x, view[p], (Lost(p) \cup reply[p].raced \cup reply[p].skipped) \ Queued(p),
            reply[p].cursor)

FollowInv(p) == \A x \in RawUrls : /\ FollowsAtRest(p, x) /\ FollowsScanned(p, x)
                                   /\ FollowsAnswered(p, x) /\ FollowsStored(p, x)

(* Without a loss of power no cursor is ahead of the log, and an upload answers    *)
(* with one that is not behind the phone's.                                      *)
CursorInv(p) ==
  losses = 0 =>
    /\ cursor[p] <= Newest(Account[p]) /\ reply[p].cursor <= Newest(Account[p])
    /\ phase[p] = "stored" => cursor[p] <= reply[p].cursor

(* RetryRecordsNothing, of one phone.                                            *)
RetryInv(p) ==
  phase[p] = "stored" /\ Newest(Account[p]) = reply[p].cursor
    => /\ NewAdditions(Account[p], toAdd[p]) = {}
       /\ NewRemovals(Account[p], toAdd[p], toRemove[p]) = {}

PhoneInv(p) ==
  QueueInv(p) /\ ReplyInv(p) /\ FollowInv(p) /\ CursorInv(p) /\ RetryInv(p)

(* What an abandoned upload carries has passed the checks.                       *)
LateInv == \A r \in late : /\ r.add \in Batches /\ r.remove \in Batches
                           /\ Accepted(r.add, r.remove)

(* Losing power leaves a part of the log, complete in itself.                    *)
PastInv ==
  \A k \in past :
    /\ k.changes \subseteq changes /\ k.lastId \in Nat
    /\ k.devices \subseteq Users \X DeviceIds
    /\ \A r \in k.changes : r.id <= k.lastId /\ <<r.user, r.device>> \in k.devices

SyncInv == SyncTypeOK /\ LateInv /\ PastInv /\ \A p \in Phones : PhoneInv(p)

--------------------------------------------------------------------------------
(* A phone and what others do.                                                   *)

Reply == [added : SUBSET Urls, removed : SUBSET Urls, shown : SUBSET Urls,
          upTo : Nat, cursor : Nat, raced : SUBSET Urls, skipped : SUBSET Urls]

(* The shapes of what belongs to one phone.                                      *)
LEMMA PhoneTypes ==
  ASSUME SyncTypeOK, NEW p \in Phones
  PROVE  /\ LogInv /\ Account[p] \in Users /\ p \in DeviceIds
         /\ view[p] \subseteq RawUrls /\ toAdd[p] \subseteq RawUrls /\ toRemove[p] \subseteq RawUrls
         /\ cursor[p] \in Nat /\ phase[p] \in Phases /\ reply[p] \in Reply
         /\ lostByRead[p] \subseteq Urls /\ lostByUpload[p] \subseteq Urls
         /\ lostByPower[p] \subseteq Urls
BY AccountAssumption DEF SyncTypeOK, Phones, Reply

(* A step that does not concern p, except that it may put rows below its cursor.  *)
Bystander(p) ==
  /\ view'[p] = view[p] /\ toAdd'[p] = toAdd[p] /\ toRemove'[p] = toRemove[p]
  /\ cursor'[p] = cursor[p] /\ phase'[p] = phase[p] /\ reply'[p] = reply[p]
  /\ lostByRead'[p] = lostByRead[p] /\ lostByUpload'[p] = lostByUpload[p]
  /\ lostByPower'[p] = lostByPower[p] \cup Passed(p)
  /\ losses' = losses

(* A new row lies above every id a phone knows, or its feed is one of Passed.     *)
LEMMA NewRowsPass ==
  ASSUME SyncTypeOK, Grown, NEW p \in Phones,
         NEW r \in changes' \ changes, r.user = Account[p]
  PROVE  /\ lastId < r.id
         /\ (cursor[p] < r.id /\ reply[p].cursor < r.id) \/ r.url \in Passed(p)
<1>1. cursor[p] \in Nat /\ reply[p].cursor \in Nat /\ r.id \in Nat
  BY PhoneTypes DEF Reply, Grown, LogInv, TypeOK, Row
<1> DEFINE m == Max({cursor[p], reply[p].cursor})
<1>2. m \in Nat /\ cursor[p] <= m /\ reply[p].cursor <= m
  BY <1>1, MaxOfTwo
<1>3. r.id <= m => r.url \in Passed(p)
  BY DEF Passed
<1>4. lastId < r.id
  BY DEF Grown
<1>. HIDE DEF m
<1>. QED BY <1>1, <1>2, <1>3, <1>4

(* Nothing that others append makes a phone disagree with its account unnoticed.  *)
LEMMA BystanderFollows ==
  ASSUME SyncTypeOK, Grown, NEW p \in Phones, ReplyInv(p), FollowInv(p), Bystander(p)
  PROVE  FollowInv(p)'
<1> SUFFICES ASSUME NEW x \in RawUrls
             PROVE  /\ FollowsAtRest(p, x)' /\ FollowsScanned(p, x)'
                    /\ FollowsAnswered(p, x)' /\ FollowsStored(p, x)'
  BY DEF FollowInv
<1>1. /\ LogInv /\ lastId \in Nat /\ Account[p] \in Users
      /\ cursor[p] \in Nat /\ reply[p] \in Reply
  BY PhoneTypes DEF LogInv, TypeOK
<1>2. Newest(Account[p]) \in Nat /\ Newest(Account[p]) <= lastId
  BY <1>1, NewestBounds
<1>3. /\ Queued(p)' = Queued(p) /\ Applied(p)' = Applied(p)
      /\ Lost(p)' = Lost(p) \cup Passed(p)
  BY DEF Bystander, Queued, Applied, Lost
<1>4. CASE \E r \in changes' \ changes : r.user = Account[p] /\ r.url = x
  <2>1. PICK r \in changes' \ changes : r.user = Account[p] /\ r.url = x
    BY <1>4
  <2>2. /\ r \in RowsOf(Account[p])' /\ r.id \in Nat /\ lastId < r.id
        /\ (cursor[p] < r.id /\ reply[p].cursor < r.id) \/ x \in Passed(p)
    BY <2>1, NewRowsPass DEF RowsOf, Grown, LogInv, TypeOK, Row
  <2>3. \A n \in Nat : n < r.id => Above(p, x, n)'
    BY <2>1, <2>2 DEF Above
  <2>4. FollowsAtRest(p, x)'
    BY <1>1, <1>3, <2>2, <2>3 DEF FollowsAtRest, Follows, Above, Bystander
  <2>5. FollowsScanned(p, x)'
    <3>1. phase[p] = "scanned" => reply[p].upTo < r.id
      BY <1>1, <1>2, <2>2 DEF ReplyInv, Reply
    <3>. QED BY <1>1, <2>1, <2>2, <3>1 DEF FollowsScanned, Follows, Above, Bystander
  <2>6. FollowsAnswered(p, x)'
    <3>1. phase[p] = "answered" =>
            reply[p].cursor < r.id \/ (x \in Passed(p) /\ reply[p].shown = {})
      BY <1>1, <2>2 DEF ReplyInv, Reply
    <3>. QED BY <1>1, <1>3, <2>1, <2>2, <3>1 DEF FollowsAnswered, Follows, Above, Bystander
  <2>7. FollowsStored(p, x)'
    <3>1. phase[p] = "stored" => reply[p].cursor < r.id
      BY <1>1, <1>2, <2>2 DEF ReplyInv, Reply
    <3>. QED BY <1>1, <2>1, <2>2, <3>1 DEF FollowsStored, Follows, Above, Bystander
  <2>. QED BY <2>4, <2>5, <2>6, <2>7
<1>5. CASE ~ \E r \in changes' \ changes : r.user = Account[p] /\ r.url = x
  <2>1. \A r : r.url = x /\ r.user = Account[p] => (r \in changes' <=> r \in changes)
    BY <1>5 DEF Grown
  <2>2. x \in CurrentUrls(Account[p])' <=> x \in CurrentUrls(Account[p])
    BY <2>1, QuietFeed
  <2>3. \A n : Above(p, x, n)' <=> Above(p, x, n)
    BY <2>1 DEF Above, RowsOf
  <2>4. /\ FollowsAtRest(p, x) /\ FollowsScanned(p, x)
        /\ FollowsAnswered(p, x) /\ FollowsStored(p, x)
    BY DEF FollowInv
  <2>5. FollowsAtRest(p, x)'
    BY <1>3, <2>2, <2>3, <2>4 DEF FollowsAtRest, Follows, Above, Bystander
  <2>6. FollowsScanned(p, x)'
    BY <1>3, <2>2, <2>3, <2>4 DEF FollowsScanned, Follows, Above, Bystander
  <2>7. FollowsAnswered(p, x)'
    BY <1>3, <2>2, <2>3, <2>4 DEF FollowsAnswered, Follows, Above, Bystander
  <2>8. FollowsStored(p, x)'
    BY <1>3, <2>2, <2>3, <2>4 DEF FollowsStored, Follows, Above, Bystander
  <2>. QED BY <2>5, <2>6, <2>7, <2>8
<1>. QED BY <1>4, <1>5

(* The other parts of a phone's invariant survive what others append.            *)
LEMMA BystanderKeeps ==
  ASSUME SyncTypeOK, Grown, NEW p \in Phones, PhoneInv(p), Bystander(p)
  PROVE  PhoneInv(p)'
<1>1. /\ LogInv /\ lastId \in Nat /\ lastId' \in Nat /\ Account[p] \in Users
      /\ cursor[p] \in Nat /\ reply[p] \in Reply
  BY PhoneTypes DEF LogInv, TypeOK, Grown
<1>2. Newest(Account[p]) \in Nat /\ Newest(Account[p]) <= lastId
  BY <1>1, NewestBounds
<1>3. /\ Newest(Account[p]) <= Newest(Account[p])' /\ Newest(Account[p])' \in Nat
      /\ (\E r \in changes' \ changes : r.user = Account[p])
           => Newest(Account[p]) < Newest(Account[p])'
  BY <1>1, NewestGrows
<1>4. QueueInv(p)'
  BY DEF PhoneInv, QueueInv, Bystander
<1>5. ReplyInv(p)'
  <2>1. \A x, n : Above(p, x, n) => Above(p, x, n)'
    BY DEF Above, RowsOf, Grown
  <2>2. ASSUME phase[p] \in {"scanned", "answered"}, NEW x \in reply[p].added \cup reply[p].removed
        PROVE  Above(p, x, cursor[p])' \/ x \in lostByPower'[p] \ reply[p].shown
    <3>1. Above(p, x, cursor[p]) \/ x \in lostByPower[p] \ reply[p].shown
      BY <2>2 DEF PhoneInv, ReplyInv
    <3>2. Above(p, x, cursor[p]) => Above(p, x, cursor[p])'
      BY <2>1 DEF Above, Bystander
    <3>. QED BY <3>1, <3>2 DEF Bystander
  <2>3. /\ phase[p] = "scanned" => reply[p].upTo <= Newest(Account[p])'
        /\ phase[p] = "answered" /\ reply[p].shown # {} => reply[p].cursor <= lastId'
        /\ phase[p] = "stored" => reply[p].cursor <= Newest(Account[p])'
    BY <1>1, <1>2, <1>3 DEF PhoneInv, ReplyInv, Reply, Grown
  <2>4. phase[p] \in {"scanned", "answered"} =>
          reply[p].shown \subseteq reply[p].added \cup reply[p].removed
    BY DEF PhoneInv, ReplyInv
  <2>. QED BY <2>2, <2>3, <2>4 DEF ReplyInv, Bystander
<1>6. FollowInv(p)'
  BY BystanderFollows DEF PhoneInv
<1>7. CursorInv(p)'
  BY <1>1, <1>2, <1>3 DEF PhoneInv, CursorInv, Bystander, Reply
<1>8. RetryInv(p)'
  <2>1. SUFFICES ASSUME phase[p] = "stored", Newest(Account[p])' = reply[p].cursor
                 PROVE  /\ NewAdditions(Account[p], toAdd[p])' = {}
                        /\ NewRemovals(Account[p], toAdd[p], toRemove[p])' = {}
    BY DEF RetryInv, Bystander
  <2>2. reply[p].cursor <= Newest(Account[p])
    BY <2>1 DEF PhoneInv, ReplyInv
  <2>3. /\ Newest(Account[p]) = reply[p].cursor
        /\ ~ \E r \in changes' \ changes : r.user = Account[p]
    BY <1>1, <1>2, <1>3, <2>1, <2>2 DEF Reply
  <2>4. RowsOf(Account[p])' = RowsOf(Account[p])
    BY <2>3 DEF RowsOf, Grown
  <2>5. CurrentUrls(Account[p])' = CurrentUrls(Account[p])
    BY <2>4 DEF CurrentUrls
  <2>. QED BY <2>1, <2>3, <2>5 DEF PhoneInv, RetryInv, NewAdditions, NewRemovals, Bystander
<1>. QED BY <1>4, <1>5, <1>6, <1>7, <1>8 DEF PhoneInv

(* What a loss of power leaves is a well-formed log again, a part of the old one. *)
LEMMA FallingBack ==
  ASSUME LogInv, PastInv, FallenBack
  PROVE  LogInv' /\ changes' \subseteq changes
<1>1. PICK kept \in past :
        changes' = kept.changes /\ lastId' = kept.lastId /\ devices' = kept.devices
  BY DEF FallenBack
<1>. QED BY <1>1 DEF PastInv, LogInv, TypeOK, IdsAreCursors, DevicesExist

(* A phone after a loss of power: its sync is over, or it has its read in hand    *)
(* and the log it read from may have lost its end.                               *)
LEMMA PowerLossKeeps ==
  ASSUME SyncTypeOK, PastInv, NEW p \in Phones, PhoneInv(p), PowerLoss
  PROVE  PhoneInv(p)'
<1>1. /\ LogInv /\ losses \in Nat /\ Account[p] \in Users
      /\ cursor[p] \in Nat /\ reply[p] \in Reply
  BY PhoneTypes, BoundsAssumption DEF SyncTypeOK
<1>2. LogInv' /\ changes' \subseteq changes
  BY <1>1, FallingBack DEF PowerLoss
<1>3. /\ view' = view /\ toAdd' = toAdd /\ toRemove' = toRemove /\ cursor' = cursor
      /\ lostByRead' = lostByRead /\ lostByUpload' = lostByUpload
      /\ lostByPower'[p] = lostByPower[p] \cup
            {r.url : r \in {q \in changes \ changes' : q.user = Account[p]}}
      /\ losses' # 0
  BY <1>1 DEF PowerLoss, phoneVars
<1>4. \/ phase[p] = "answered" /\ phase'[p] = "answered" /\ reply'[p] = [reply[p] EXCEPT !.shown = {}]
      \/ phase'[p] = "idle" /\ reply'[p] = NoReply
  BY DEF PowerLoss
<1>5. \/ phase'[p] = "idle"
      \/ /\ phase[p] = "answered" /\ phase'[p] = "answered" /\ reply'[p].shown = {}
         /\ reply'[p].added = reply[p].added /\ reply'[p].removed = reply[p].removed
         /\ reply'[p].cursor = reply[p].cursor /\ reply'[p].raced = reply[p].raced
  BY <1>1, <1>4 DEF Reply
<1>6. QueueInv(p)'
  BY <1>3 DEF PhoneInv, QueueInv
<1>7. ReplyInv(p)'
  <2>1. SUFFICES ASSUME phase'[p] = "answered",
                        NEW x \in reply'[p].added \cup reply'[p].removed
                 PROVE  Above(p, x, cursor[p])' \/ x \in lostByPower'[p]
    BY <1>5 DEF ReplyInv
  <2>2. Above(p, x, cursor[p]) \/ x \in lostByPower[p]
    BY <1>5, <2>1 DEF PhoneInv, ReplyInv
  <2>3. CASE Above(p, x, cursor[p])
    BY <1>3, <2>3 DEF Above, RowsOf
  <2>. QED BY <1>3, <2>2, <2>3
<1>8. FollowInv(p)'
  <2> SUFFICES ASSUME NEW x \in RawUrls
               PROVE  /\ FollowsAtRest(p, x)' /\ FollowsScanned(p, x)'
                      /\ FollowsAnswered(p, x)' /\ FollowsStored(p, x)'
    BY DEF FollowInv
  <2>1. FollowsScanned(p, x)' /\ FollowsStored(p, x)'
    BY <1>5 DEF FollowsScanned, FollowsStored
  <2>2. CASE \E r \in changes \ changes' : r.user = Account[p] /\ r.url = x
    <3>1. x \in lostByPower'[p]
      BY <1>3, <2>2
    <3>. QED BY <1>5, <2>1, <3>1 DEF FollowsAtRest, FollowsAnswered, Follows, Lost
  <2>3. CASE ~ \E r \in changes \ changes' : r.user = Account[p] /\ r.url = x
    <3>1. \A r : r.url = x /\ r.user = Account[p] => (r \in changes' <=> r \in changes)
      BY <1>2, <2>3
    <3>2. x \in CurrentUrls(Account[p])' <=> x \in CurrentUrls(Account[p])
      BY <3>1, QuietFeed
    <3>3. \A n : Above(p, x, n)' <=> Above(p, x, n)
      BY <3>1 DEF Above, RowsOf
    <3>4. Queued(p)' = Queued(p) /\ Lost(p) \subseteq Lost(p)'
      BY <1>3 DEF Queued, Lost
    <3>5. FollowsAtRest(p, x)'
      BY <1>3, <3>2, <3>3, <3>4 DEF PhoneInv, FollowInv, FollowsAtRest, Follows, Above
    <3>6. FollowsAnswered(p, x)'
      <4>1. SUFFICES ASSUME phase'[p] = "answered"
                     PROVE  FollowsAnswered(p, x)'
        BY DEF FollowsAnswered
      <4>2. Applied(p)' = Applied(p)
        BY <1>3, <1>5, <4>1 DEF Applied
      <4>. QED BY <1>5, <3>2, <3>3, <3>4, <4>1, <4>2
               DEF PhoneInv, FollowInv, FollowsAnswered, Follows, Above
    <3>. QED BY <2>1, <3>5, <3>6
  <2>. QED BY <2>2, <2>3
<1>9. CursorInv(p)' /\ RetryInv(p)'
  BY <1>3, <1>5 DEF CursorInv, RetryInv
<1>. QED BY <1>6, <1>7, <1>8, <1>9 DEF PhoneInv

--------------------------------------------------------------------------------
(* A phone and what it does itself.                                              *)

(* A step that leaves the rows alone leaves everything read from them alone.     *)
LEMMA SameLog ==
  ASSUME changes' = changes
  PROVE  /\ \A u : /\ RowsOf(u)' = RowsOf(u) /\ Newest(u)' = Newest(u)
                   /\ CurrentUrls(u)' = CurrentUrls(u)
         /\ \A p, x, n : Above(p, x, n)' <=> Above(p, x, n)
BY DEF RowsOf, Newest, CurrentUrls, Above

(* The read names a feed when it has rows above the cursor, and its verdict is    *)
(* that of the list.                                                             *)
LEMMA ScanAnswers ==
  ASSUME LogInv, NEW u \in Users, NEW since \in Nat, NEW x
  PROVE  /\ x \in AddedSince(u, since) \cup RemovedSince(u, since)
              <=> \E r \in RowsOf(u) : r.url = x /\ since < r.id
         /\ x \in AddedSince(u, since) => x \in CurrentUrls(u)
         /\ x \in RemovedSince(u, since) => x \notin CurrentUrls(u)
<1> DEFINE rows  == RowsOf(u)
           after == Window(u, since)
<1>1. /\ \A r \in rows : r.id \in Nat /\ r.action \in {"add", "remove"}
      /\ \A r, q \in rows : r.id = q.id => r = q
      /\ after \in SUBSET changes
      /\ \A r : r \in after <=> r \in rows /\ since < r.id
  BY DEF LogInv, TypeOK, IdsAreCursors, Row, RowsOf, Window
<1>2. /\ x \in AddedSince(u, since) <=> x \in UrlsMarked("add", after)
      /\ x \in RemovedSince(u, since) <=> x \in UrlsMarked("remove", after)
      /\ x \in CurrentUrls(u) <=> x \in UrlsMarked("add", rows)
  BY DEF AddedSince, RemovedSince, CurrentUrls
<1>. HIDE DEF after, rows
<1>3. ASSUME NEW action, NEW n \in after, n.url = x, n.action = action,
             \A q \in after : q.url = x => q.id <= n.id
      PROVE  x \in CurrentUrls(u) <=> action = "add"
  <2>1. n \in rows /\ \A q \in rows : q.url = x => q.id <= n.id
    BY <1>1, <1>3
  <2>2. ASSUME NEW r \in rows, r.url = x, \A q \in rows : q.url = x => q.id <= r.id
        PROVE  r = n
    BY <1>1, <1>3, <2>1, <2>2
  <2>. QED BY <1>2, <1>3, <2>1, <2>2, MarkedMeansNewest
<1>4. ASSUME NEW r \in after, r.url = x
      PROVE  x \in UrlsMarked("add", after) \/ x \in UrlsMarked("remove", after)
  <2>1. PICK n \in after : n.url = x /\ \A q \in after : q.url = x => q.id <= n.id
    BY <1>1, <1>4, NewestRowExists
  <2>2. n.action \in {"add", "remove"}
    BY <1>1, <2>1
  <2>. QED BY <2>1, <2>2, MarkedMeansNewest
<1>5. \A action : x \in UrlsMarked(action, after) => \E r \in after : r.url = x
  BY MarkedMeansNewest
<1>6. /\ x \in UrlsMarked("add", after) => x \in CurrentUrls(u)
      /\ x \in UrlsMarked("remove", after) => x \notin CurrentUrls(u)
  BY <1>3, MarkedMeansNewest
<1>. QED BY <1>1, <1>2, <1>4, <1>5, <1>6 DEF rows

(* Applying an answer does not touch what is queued.                             *)
LEMMA QueueSurvives ==
  ASSUME NEW p \in Phones, QueueInv(p)
  PROVE  toAdd[p] \subseteq Applied(p) /\ toRemove[p] \cap Applied(p) = {}
BY DEF QueueInv, Applied

(* A phone that applies its answer and keeps its cursor agrees with the account   *)
(* as far as that cursor goes.                                                   *)
LEMMA AppliedAtRest ==
  ASSUME NEW p \in Phones, PhoneInv(p), phase[p] \in {"scanned", "answered"},
         NEW x \in RawUrls \ Queued(p)
  PROVE  Follows(p, x, Applied(p), Lost(p) \ reply[p].shown, cursor[p])
<1> SUFFICES ASSUME x \notin Lost(p) \ reply[p].shown, ~Above(p, x, cursor[p])
             PROVE  x \in Applied(p) <=> x \in CurrentUrls(Account[p])
  BY DEF Follows
<1>1. x \notin reply[p].added \cup reply[p].removed
  BY DEF PhoneInv, ReplyInv, Lost
<1>2. x \notin Lost(p)
  BY <1>1 DEF PhoneInv, ReplyInv
<1>3. x \in view[p] <=> x \in CurrentUrls(Account[p])
  BY <1>2 DEF PhoneInv, FollowInv, FollowsAtRest, Follows
<1>. QED BY <1>1, <1>3 DEF Applied

(* What there is to show of a phone whose sync is over.                          *)
LEMMA IdleKeeps ==
  ASSUME NEW p \in Phones, phase'[p] = "idle", QueueInv(p)', CursorInv(p)',
         \A x \in RawUrls : FollowsAtRest(p, x)'
  PROVE  PhoneInv(p)'
BY DEF PhoneInv, ReplyInv, FollowInv, FollowsScanned, FollowsAnswered, FollowsStored, RetryInv

(* The user changes something.                                                   *)
LEMMA SubscribeKeeps ==
  ASSUME SyncTypeOK, NEW p \in Phones, PhoneInv(p), NEW x \in RawUrls, Subscribe(p, x)
  PROVE  PhoneInv(p)'
<1>1. /\ phase'[p] = "idle" /\ cursor' = cursor /\ reply' = reply /\ losses' = losses
      /\ changes' = changes /\ UNCHANGED histVars
      /\ view'[p] = view[p] \cup {x} /\ toAdd'[p] = toAdd[p] \cup {x}
      /\ toRemove'[p] = toRemove[p] \ {x}
  BY DEF Subscribe, Edit, SyncTypeOK, dbVars, logVars, faults
<1>2. QueueInv(p)'
  <2>1. IsFiniteSet(toAdd[p]) /\ IsFiniteSet(toRemove[p])
    BY DEF PhoneInv, QueueInv
  <2>2. IsFiniteSet(toAdd[p] \cup {x}) /\ IsFiniteSet(toRemove[p] \ {x})
    BY <2>1, FS_AddElement, FS_RemoveElement
  <2>. QED BY <1>1, <2>2 DEF PhoneInv, QueueInv
<1>3. CursorInv(p)'
  BY <1>1, SameLog DEF PhoneInv, CursorInv, Subscribe, Edit
<1>4. ASSUME NEW y \in RawUrls PROVE FollowsAtRest(p, y)'
  BY <1>1, SameLog DEF PhoneInv, FollowInv, FollowsAtRest, Follows, Queued, Lost, histVars, Above
<1>. QED BY <1>1, <1>2, <1>3, <1>4, IdleKeeps

LEMMA UnsubscribeKeeps ==
  ASSUME SyncTypeOK, NEW p \in Phones, PhoneInv(p), NEW x \in RawUrls, Unsubscribe(p, x)
  PROVE  PhoneInv(p)'
<1>1. /\ phase'[p] = "idle" /\ cursor' = cursor /\ reply' = reply /\ losses' = losses
      /\ changes' = changes /\ UNCHANGED histVars
      /\ view'[p] = view[p] \ {x} /\ toAdd'[p] = toAdd[p] \ {x}
      /\ toRemove'[p] = toRemove[p] \cup {x}
  BY DEF Unsubscribe, Edit, SyncTypeOK, dbVars, logVars, faults
<1>2. QueueInv(p)'
  <2>1. IsFiniteSet(toAdd[p]) /\ IsFiniteSet(toRemove[p])
    BY DEF PhoneInv, QueueInv
  <2>2. IsFiniteSet(toAdd[p] \ {x}) /\ IsFiniteSet(toRemove[p] \cup {x})
    BY <2>1, FS_AddElement, FS_RemoveElement
  <2>. QED BY <1>1, <2>2 DEF PhoneInv, QueueInv
<1>3. CursorInv(p)'
  BY <1>1, SameLog DEF PhoneInv, CursorInv, Unsubscribe, Edit
<1>4. ASSUME NEW y \in RawUrls PROVE FollowsAtRest(p, y)'
  BY <1>1, SameLog DEF PhoneInv, FollowInv, FollowsAtRest, Follows, Queued, Lost, histVars, Above
<1>. QED BY <1>1, <1>2, <1>3, <1>4, IdleKeeps

(* The read: what it shows lies above the cursor, and adding it to the view gives  *)
(* the list as far as the log reaches.                                           *)
LEMMA ScanRowsKeeps ==
  ASSUME SyncTypeOK, NEW p \in Phones, PhoneInv(p), ScanRows(p)
  PROVE  PhoneInv(p)'
<1> DEFINE u == Account[p]
           added == AddedSince(u, cursor[p])
           removed == RemovedSince(u, cursor[p])
<1>1. /\ LogInv /\ u \in Users /\ cursor[p] \in Nat
      /\ Newest(u) \in Nat /\ \A r \in RowsOf(u) : r.id \in Nat /\ r.id <= Newest(u)
  BY PhoneTypes, NewestBounds
<1>2. /\ phase[p] = "idle" /\ phase'[p] = "scanned" /\ changes' = changes /\ losses' = losses
      /\ view' = view /\ toAdd' = toAdd /\ toRemove' = toRemove /\ cursor' = cursor
      /\ UNCHANGED histVars
  BY DEF ScanRows, Advance, SyncTypeOK, Read, phoneVars, faults
<1>3. /\ reply'[p].added = added /\ reply'[p].removed = removed
      /\ reply'[p].shown = added \cup removed /\ reply'[p].upTo = Newest(u)
      /\ reply'[p].cursor = 0
  BY DEF ScanRows, SyncTypeOK, NoReply
<1>4. \A x : /\ x \in added \cup removed <=> Above(p, x, cursor[p])
             /\ x \in added => x \in CurrentUrls(u)
             /\ x \in removed => x \notin CurrentUrls(u)
  BY <1>1, ScanAnswers DEF Above
<1>. HIDE DEF u, added, removed
<1>5. Newest(u)' = Newest(u) /\ CurrentUrls(u)' = CurrentUrls(u)
  BY <1>2, SameLog DEF u
<1>6. \A x, n : Above(p, x, n)' <=> Above(p, x, n)
  BY <1>2, SameLog
<1>7. QueueInv(p)'
  BY <1>2 DEF PhoneInv, QueueInv
<1>8. ReplyInv(p)'
  BY <1>1, <1>2, <1>3, <1>4, <1>5, <1>6 DEF ReplyInv, Above, u
<1>9. FollowInv(p)'
  <2> SUFFICES ASSUME NEW x \in RawUrls
               PROVE  /\ FollowsAtRest(p, x)' /\ FollowsScanned(p, x)'
                      /\ FollowsAnswered(p, x)' /\ FollowsStored(p, x)'
    BY DEF FollowInv
  <2>1. FollowsAnswered(p, x)' /\ FollowsStored(p, x)'
    BY <1>2 DEF FollowsAnswered, FollowsStored
  <2>2. FollowsAtRest(p, x)
    BY DEF PhoneInv, FollowInv
  <2>3. Queued(p)' = Queued(p) /\ Lost(p)' = Lost(p)
    BY <1>2 DEF Queued, Lost, histVars
  <2>4. FollowsAtRest(p, x)'
    BY <1>2, <1>5, <1>6, <2>2, <2>3 DEF FollowsAtRest, Follows, Above, u
  <2>5. FollowsScanned(p, x)'
    <3>1. SUFFICES ASSUME x \notin Queued(p), x \notin Lost(p) \ (added \cup removed)
                   PROVE  x \in Applied(p)' <=> x \in CurrentUrls(u)
      BY <1>2, <1>3, <1>5, <2>3 DEF FollowsScanned, Follows, u
    <3>2. x \in Applied(p)' <=> (x \in view[p] \/ x \in added) /\ x \notin removed
      BY <1>2, <1>3, <3>1 DEF Applied, Queued
    <3>3. CASE x \in added \cup removed
      BY <1>4, <3>2, <3>3
    <3>4. CASE x \notin added \cup removed
      BY <1>4, <2>2, <3>1, <3>2, <3>4 DEF FollowsAtRest, Follows, u
    <3>. QED BY <3>3, <3>4
  <2>. QED BY <2>1, <2>4, <2>5
<1>10. CursorInv(p)'
  BY <1>1, <1>2, <1>3, <1>5 DEF PhoneInv, CursorInv, u
<1>11. RetryInv(p)'
  BY <1>2 DEF RetryInv
<1>. QED BY <1>7, <1>8, <1>9, <1>10, <1>11 DEF PhoneInv

(* The cursor of a read is the newest id, or the one the phone has.              *)
LEMMA ReadCursor ==
  ASSUME SyncTypeOK, NEW p \in Phones
  PROVE  /\ CursorOf(p) \in Nat /\ Newest(Account[p]) <= CursorOf(p) /\ cursor[p] <= CursorOf(p)
         /\ CursorOf(p) = Newest(Account[p]) \/ CursorOf(p) = cursor[p]
         /\ \A x, n : Above(p, x, n) /\ x \notin ChangedBetween(Account[p], n, CursorOf(p))
                        => Above(p, x, CursorOf(p))
<1>1. /\ LogInv /\ Account[p] \in Users /\ cursor[p] \in Nat /\ Newest(Account[p]) \in Nat
      /\ \A r \in RowsOf(Account[p]) : r.id \in Nat
  BY PhoneTypes, NewestBounds
<1>2. /\ CursorOf(p) \in Nat /\ Newest(Account[p]) <= CursorOf(p) /\ cursor[p] <= CursorOf(p)
      /\ CursorOf(p) = Newest(Account[p]) \/ CursorOf(p) = cursor[p]
  BY <1>1, MaxOfTwo DEF CursorOf, CursorFor
<1>3. ASSUME NEW x, NEW n, Above(p, x, n), x \notin ChangedBetween(Account[p], n, CursorOf(p))
      PROVE  Above(p, x, CursorOf(p))
  BY <1>1, <1>2, <1>3 DEF Above, ChangedBetween
<1>. QED BY <1>2, <1>3

(* A read without an upload: the phone goes on from the cursor it was given.      *)
LEMMA FinishKeeps ==
  ASSUME SyncTypeOK, NEW p \in Phones, PhoneInv(p), Finish(p)
  PROVE  PhoneInv(p)'
<1>1. /\ phase[p] = "scanned" /\ phase'[p] = "idle" /\ changes' = changes /\ losses' = losses
      /\ Queued(p) = {} /\ view'[p] = Applied(p) /\ toAdd' = toAdd /\ toRemove' = toRemove
      /\ cursor'[p] = CursorOf(p) /\ reply'[p].cursor = 0
      /\ lostByRead'[p] = (lostByRead[p] \ reply[p].shown) \cup Raced(p)
      /\ lostByUpload'[p] = lostByUpload[p] \ reply[p].shown
      /\ lostByPower'[p] = lostByPower[p] \ reply[p].shown
  BY DEF Finish, Advance, SyncTypeOK, dbVars, logVars, faults, Told, NoReply
<1>2. Newest(Account[p])' = Newest(Account[p]) /\ CurrentUrls(Account[p])' = CurrentUrls(Account[p])
  BY <1>1, SameLog
<1>3. \A x, n : Above(p, x, n)' <=> Above(p, x, n)
  BY <1>1, SameLog
<1>4. QueueInv(p)'
  BY <1>1, QueueSurvives DEF PhoneInv, QueueInv
<1>5. CursorInv(p)'
  <2>1. LogInv /\ Account[p] \in Users /\ Newest(Account[p]) \in Nat /\ cursor[p] \in Nat
    BY PhoneTypes, NewestBounds
  <2>. QED BY <1>1, <1>2, <2>1, ReadCursor DEF PhoneInv, CursorInv
<1>6. ASSUME NEW x \in RawUrls PROVE FollowsAtRest(p, x)'
  <2>1. SUFFICES ASSUME x \notin Lost(p)', ~Above(p, x, CursorOf(p))
                 PROVE  x \in Applied(p) <=> x \in CurrentUrls(Account[p])
    BY <1>1, <1>2, <1>3 DEF FollowsAtRest, Follows, Above
  <2>2. x \notin Lost(p) \ reply[p].shown /\ x \notin Raced(p)
    BY <1>1, <2>1 DEF Lost
  <2>3. ~Above(p, x, reply[p].upTo)
    BY <2>1, <2>2, ReadCursor DEF Raced
  <2>. QED BY <1>1, <2>2, <2>3 DEF PhoneInv, FollowInv, FollowsScanned, Follows
<1>. QED BY <1>1, <1>4, <1>5, <1>6, IdleKeeps

(* A read with an upload to follow: the cursor it was given only waits.          *)
LEMMA TakeCursorKeeps ==
  ASSUME SyncTypeOK, NEW p \in Phones, PhoneInv(p), TakeCursor(p)
  PROVE  PhoneInv(p)'
<1>1. /\ phase[p] = "scanned" /\ phase'[p] = "answered" /\ changes' = changes
      /\ lastId' = lastId /\ losses' = losses
      /\ view' = view /\ toAdd' = toAdd /\ toRemove' = toRemove /\ cursor' = cursor
      /\ UNCHANGED histVars
  BY DEF TakeCursor, Advance, SyncTypeOK, dbVars, logVars, phoneVars, faults
<1>2. /\ reply'[p].added = reply[p].added /\ reply'[p].removed = reply[p].removed
      /\ reply'[p].shown = reply[p].shown /\ reply'[p].cursor = CursorOf(p)
      /\ reply'[p].raced = Raced(p)
  BY PhoneTypes DEF TakeCursor, SyncTypeOK, Reply
<1>3. /\ LogInv /\ Account[p] \in Users /\ cursor[p] \in Nat /\ lastId \in Nat
      /\ Newest(Account[p]) \in Nat /\ Newest(Account[p]) <= lastId
      /\ \A r \in RowsOf(Account[p]) : r.id \in Nat /\ r.id <= Newest(Account[p])
  BY PhoneTypes, NewestBounds DEF LogInv, TypeOK
<1>4. Newest(Account[p])' = Newest(Account[p]) /\ CurrentUrls(Account[p])' = CurrentUrls(Account[p])
  BY <1>1, SameLog
<1>5. \A x, n : Above(p, x, n)' <=> Above(p, x, n)
  BY <1>1, SameLog
<1>6. QueueInv(p)'
  BY <1>1 DEF PhoneInv, QueueInv
<1>7. ReplyInv(p)'
  <2>1. reply[p].shown # {} => CursorOf(p) <= lastId
    <3>1. SUFFICES ASSUME NEW x \in reply[p].shown PROVE CursorOf(p) <= lastId
      OBVIOUS
    <3>2. Above(p, x, cursor[p])
      BY <1>1, <3>1 DEF PhoneInv, ReplyInv
    <3>3. cursor[p] < Newest(Account[p])
      BY <1>3, <3>2 DEF Above
    <3>. QED BY <1>3, <3>3, ReadCursor
  <2>2. /\ reply[p].shown \subseteq reply[p].added \cup reply[p].removed
        /\ \A x \in reply[p].added \cup reply[p].removed :
             Above(p, x, cursor[p]) \/ x \in lostByPower[p] \ reply[p].shown
    BY <1>1 DEF PhoneInv, ReplyInv
  <2>. QED BY <1>1, <1>2, <1>5, <2>1, <2>2 DEF ReplyInv, histVars, Above
<1>8. FollowInv(p)'
  <2> SUFFICES ASSUME NEW x \in RawUrls
               PROVE  /\ FollowsAtRest(p, x)' /\ FollowsScanned(p, x)'
                      /\ FollowsAnswered(p, x)' /\ FollowsStored(p, x)'
    BY DEF FollowInv
  <2>1. FollowsScanned(p, x)' /\ FollowsStored(p, x)'
    BY <1>1 DEF FollowsScanned, FollowsStored
  <2>2. FollowsAtRest(p, x) /\ FollowsScanned(p, x)
    BY DEF PhoneInv, FollowInv
  <2>3. Queued(p)' = Queued(p) /\ Lost(p)' = Lost(p) /\ Applied(p)' = Applied(p)
    BY <1>1, <1>2 DEF Queued, Lost, Applied, histVars
  <2>4. FollowsAtRest(p, x)'
    BY <1>1, <1>4, <1>5, <2>2, <2>3 DEF FollowsAtRest, Follows, Above
  <2>5. FollowsAnswered(p, x)'
    <3>1. SUFFICES ASSUME x \notin Queued(p), x \notin Lost(p) \ reply[p].shown,
                          x \notin Raced(p), ~Above(p, x, CursorOf(p))
                   PROVE  x \in Applied(p) <=> x \in CurrentUrls(Account[p])
      BY <1>2, <1>4, <1>5, <2>3 DEF FollowsAnswered, Follows, Above
    <3>2. ~Above(p, x, reply[p].upTo)
      BY <3>1, ReadCursor DEF Raced
    <3>. QED BY <1>1, <2>2, <3>1, <3>2 DEF FollowsScanned, Follows
  <2>. QED BY <2>1, <2>4, <2>5
<1>9. CursorInv(p)'
  BY <1>1, <1>2, <1>3, <1>4, ReadCursor DEF PhoneInv, CursorInv
<1>10. RetryInv(p)'
  BY <1>1 DEF RetryInv
<1>. QED BY <1>6, <1>7, <1>8, <1>9, <1>10 DEF PhoneInv

(* A sync that fails after its answer was applied: the cursor stays.             *)
LEMMA ApplyOnlyKeeps ==
  ASSUME SyncTypeOK, NEW p \in Phones, PhoneInv(p), phase[p] \in {"scanned", "answered"},
         changes' = changes, losses' = losses, phase'[p] = "idle", reply'[p] = NoReply,
         toAdd' = toAdd, toRemove' = toRemove, cursor' = cursor, ApplyOnly(p)
  PROVE  PhoneInv(p)'
<1>1. view'[p] = Applied(p) /\ Lost(p)' = Lost(p) \ reply[p].shown
  BY DEF ApplyOnly, SyncTypeOK, Told, Lost
<1>2. QueueInv(p)'
  BY <1>1, QueueSurvives DEF PhoneInv, QueueInv
<1>3. CursorInv(p)'
  <2>1. LogInv /\ Account[p] \in Users /\ Newest(Account[p]) \in Nat
    BY PhoneTypes, NewestBounds
  <2>2. Newest(Account[p])' = Newest(Account[p])
    BY SameLog
  <2>. QED BY <2>1, <2>2 DEF PhoneInv, CursorInv, NoReply
<1>4. ASSUME NEW x \in RawUrls PROVE FollowsAtRest(p, x)'
  <2>1. SUFFICES ASSUME x \notin Queued(p)
                 PROVE  Follows(p, x, view[p], Lost(p), cursor[p])'
    BY DEF FollowsAtRest, Queued
  <2>2. Follows(p, x, Applied(p), Lost(p) \ reply[p].shown, cursor[p])
    BY <2>1, AppliedAtRest
  <2>. QED BY <1>1, <2>2, SameLog DEF Follows, Above
<1>. QED BY <1>2, <1>3, <1>4, IdleKeeps

LEMMA RefuseKeeps ==
  ASSUME SyncTypeOK, NEW p \in Phones, PhoneInv(p), Refuse(p)
  PROVE  PhoneInv(p)'
<1>1. /\ phase[p] = "answered" /\ phase'[p] = "idle" /\ reply'[p] = NoReply
      /\ changes' = changes /\ losses' = losses
      /\ toAdd' = toAdd /\ toRemove' = toRemove /\ cursor' = cursor /\ ApplyOnly(p)
  BY DEF Refuse, Advance, SyncTypeOK, Read, faults
<1>. QED BY <1>1, ApplyOnlyKeeps

(* A sync that fails, before its answer was applied or after.                    *)
LEMMA AbandonKeeps ==
  ASSUME SyncTypeOK, NEW p \in Phones, PhoneInv(p), Abandon(p)
  PROVE  PhoneInv(p)'
<1>1. /\ phase'[p] = "idle" /\ reply'[p] = NoReply
      /\ changes' = changes /\ losses' = losses
      /\ toAdd' = toAdd /\ toRemove' = toRemove /\ cursor' = cursor
  BY DEF Abandon, SyncTypeOK, dbVars, logVars
<1>2. CASE UNCHANGED <<view, late, histVars>>
  <2>1. Newest(Account[p])' = Newest(Account[p]) /\ CurrentUrls(Account[p])' = CurrentUrls(Account[p])
    BY <1>1, SameLog
  <2>2. LogInv /\ Account[p] \in Users /\ Newest(Account[p]) \in Nat
    BY PhoneTypes, NewestBounds
  <2>3. QueueInv(p)' /\ CursorInv(p)'
    BY <1>1, <1>2, <2>1, <2>2 DEF PhoneInv, QueueInv, CursorInv, NoReply
  <2>4. ASSUME NEW x \in RawUrls PROVE FollowsAtRest(p, x)'
    BY <1>1, <1>2, SameLog
       DEF PhoneInv, FollowInv, FollowsAtRest, Follows, Queued, Lost, histVars, Above
  <2>. QED BY <1>1, <2>3, <2>4, IdleKeeps
<1>3. CASE phase[p] \in {"scanned", "answered"} /\ ApplyOnly(p)
  BY <1>1, <1>3, ApplyOnlyKeeps
<1>. QED BY <1>2, <1>3 DEF Abandon

(* Of an upload that is accepted sanitising changes nothing.                     *)
LEMMA CleanUpload ==
  ASSUME NEW add \in SUBSET RawUrls, NEW remove \in SUBSET RawUrls, Accepted(add, remove)
  PROVE  Sanitised(add) = add /\ Sanitised(remove) = remove
BY SpellingAssumption DEF Accepted, Sanitised

(* The upload: the account now agrees with what was queued, and about everything  *)
(* else it says what it said.                                                    *)
LEMMA StoreKeeps ==
  ASSUME SyncTypeOK, NEW p \in Phones, PhoneInv(p), Store(p)
  PROVE  PhoneInv(p)'
<1> DEFINE u == Account[p]
<1>1. /\ LogInv /\ u \in Users /\ p \in DeviceIds /\ cursor[p] \in Nat /\ reply[p] \in Reply
      /\ toAdd[p] \in Batches /\ toRemove[p] \in Batches
      /\ toAdd[p] \subseteq RawUrls /\ toRemove[p] \subseteq RawUrls
  BY PhoneTypes DEF PhoneInv, QueueInv, Batches
<1>2. /\ Accepted(toAdd[p], toRemove[p]) /\ Mention(u, p)
      /\ Commit(u, p, Sanitised(toAdd[p]), Sanitised(toRemove[p]))
  BY DEF Store
<1>3. /\ phase[p] = "answered" /\ phase'[p] = "stored" /\ losses' = losses
      /\ toAdd' = toAdd /\ toRemove' = toRemove /\ cursor' = cursor
      /\ view'[p] = Applied(p)
      /\ lostByRead'[p] = lostByRead[p] \ reply[p].shown
      /\ lostByUpload'[p] = lostByUpload[p] \ reply[p].shown
      /\ lostByPower'[p] = (lostByPower[p] \ reply[p].shown) \cup Passed(p)
  BY DEF Store, Advance, SyncTypeOK, faults, Told
<1>4. /\ reply'[p].cursor = CursorFor(u, 0)' /\ reply'[p].raced = reply[p].raced
      /\ reply'[p].skipped = ChangedBetween(u, reply[p].cursor, lastId) \ Queued(p)
  BY DEF Store, SyncTypeOK, NoReply
<1>5. Sanitised(toAdd[p]) = toAdd[p] /\ Sanitised(toRemove[p]) = toRemove[p]
  BY <1>1, <1>2, CleanUpload
<1>6. /\ Grown
      /\ \A r \in changes' \ changes : r.user = u /\ r.url \in Queued(p)
  <2>. HIDE DEF u
  <2>. QED BY <1>1, <1>2, <1>5, CommitGrows DEF Queued
<1>7. CurrentUrls(u)' = (CurrentUrls(u) \cup toAdd[p]) \ toRemove[p]
  <2>1. /\ Sanitised(toAdd[p]) \subseteq Urls /\ IsFiniteSet(Sanitised(toAdd[p]))
        /\ Sanitised(toRemove[p]) \subseteq Urls /\ IsFiniteSet(Sanitised(toRemove[p]))
    BY <1>1, <1>2, SanitisedUrls
  <2>. HIDE DEF u
  <2>. QED BY <1>1, <1>2, <1>5, <2>1, CommitAppliesBatch
<1>8. /\ Newest(u) \in Nat /\ Newest(u)' \in Nat /\ Newest(u) <= Newest(u)'
      /\ \A r \in RowsOf(u)' : r.id <= Newest(u)'
  <2>1. LogInv'
    BY <1>6 DEF Grown
  <2>. QED BY <1>1, <1>6, <2>1, NewestBounds, NewestBoundsNext, NewestGrows
<1>9. CursorFor(u, 0)' = Newest(u)'
  <2>1. \A n \in Nat : Max({n, 0}) = n
    <3>1. SUFFICES ASSUME NEW n \in Nat PROVE Max({n, 0}) = n
      OBVIOUS
    <3>2. Max({n, 0}) \in Nat /\ n <= Max({n, 0}) /\ (Max({n, 0}) = n \/ Max({n, 0}) = 0)
      BY MaxOfTwo
    <3>. QED BY <3>2
  <2>. QED BY <1>8, <2>1 DEF CursorFor
<1>10. toAdd[p] \cap toRemove[p] = {} /\ Queued(p)' = Queued(p) /\ Queued(p) = toAdd[p] \cup toRemove[p]
  BY <1>3 DEF PhoneInv, QueueInv, Queued
<1>11. /\ toAdd[p] \subseteq Applied(p) /\ toRemove[p] \cap Applied(p) = {}
  BY QueueSurvives DEF PhoneInv
<1>12. QueueInv(p)'
  BY <1>3, <1>11 DEF PhoneInv, QueueInv
<1>13. ReplyInv(p)'
  BY <1>3, <1>4, <1>8, <1>9 DEF ReplyInv
<1>14. ASSUME NEW x \in RawUrls \ Queued(p)
       PROVE  /\ x \in CurrentUrls(u)' <=> x \in CurrentUrls(u)
              /\ \A n : Above(p, x, n)' <=> Above(p, x, n)
  <2>1. \A r : r.url = x => (r \in changes' <=> r \in changes)
    BY <1>6 DEF Grown
  <2>. QED BY <1>7, <1>10, <2>1 DEF Above, RowsOf
<1>15. FollowInv(p)'
  <2> SUFFICES ASSUME NEW x \in RawUrls
               PROVE  /\ FollowsAtRest(p, x)' /\ FollowsScanned(p, x)'
                      /\ FollowsAnswered(p, x)' /\ FollowsStored(p, x)'
    BY DEF FollowInv
  <2>1. FollowsScanned(p, x)' /\ FollowsAnswered(p, x)'
    BY <1>3 DEF FollowsScanned, FollowsAnswered
  <2>2. Lost(p)' = (Lost(p) \ reply[p].shown) \cup Passed(p)
    BY <1>3 DEF Lost
  <2>3. FollowsAtRest(p, x)'
    <3>1. SUFFICES ASSUME x \notin Queued(p)
                   PROVE  Follows(p, x, view[p], Lost(p), cursor[p])'
      BY <1>10 DEF FollowsAtRest
    <3>2. Follows(p, x, Applied(p), Lost(p) \ reply[p].shown, cursor[p])
      BY <1>3, <3>1, AppliedAtRest
    <3>. QED BY <1>3, <1>14, <2>2, <3>1, <3>2 DEF Follows, Above
  <2>4. FollowsStored(p, x)'
    <3>1. CASE x \in Queued(p)
      BY <1>3, <1>7, <1>10, <1>11, <3>1 DEF FollowsStored, Follows
    <3>2. CASE x \notin Queued(p)
      <4>1. SUFFICES ASSUME x \notin Lost(p) \ reply[p].shown, x \notin reply[p].raced,
                            x \notin ChangedBetween(u, reply[p].cursor, lastId)
                     PROVE  x \in Applied(p) <=> x \in CurrentUrls(u)
        BY <1>3, <1>4, <1>10, <1>14, <2>2, <3>2 DEF FollowsStored, Follows
      <4>2. ~Above(p, x, reply[p].cursor)
        BY <1>1, <4>1 DEF Above, ChangedBetween, LogInv, IdsAreCursors, RowsOf
      <4>3. FollowsAnswered(p, x)
        BY DEF PhoneInv, FollowInv
      <4>. QED BY <1>3, <3>2, <4>1, <4>2, <4>3 DEF FollowsAnswered, Follows
    <3>. QED BY <3>1, <3>2
  <2>. QED BY <2>1, <2>3, <2>4
<1>16. CursorInv(p)'
  BY <1>1, <1>3, <1>4, <1>8, <1>9 DEF PhoneInv, CursorInv
<1>17. RetryInv(p)'
  BY <1>3, <1>7, <1>10 DEF RetryInv, NewAdditions, NewRemovals
<1>. QED BY <1>12, <1>13, <1>15, <1>16, <1>17 DEF PhoneInv

(* The acknowledgement: the phone goes on from the cursor of its upload.          *)
LEMMA AcknowledgeKeeps ==
  ASSUME SyncTypeOK, NEW p \in Phones, PhoneInv(p), Acknowledge(p)
  PROVE  PhoneInv(p)'
<1>1. /\ phase[p] = "stored" /\ phase'[p] = "idle" /\ changes' = changes /\ losses' = losses
      /\ view' = view /\ toAdd'[p] = {} /\ toRemove'[p] = {}
      /\ cursor'[p] = reply[p].cursor /\ reply'[p].cursor = 0
      /\ lostByRead'[p] = (lostByRead[p] \cup reply[p].raced) \ Queued(p)
      /\ lostByUpload'[p] = (lostByUpload[p] \cup reply[p].skipped) \ Queued(p)
      /\ lostByPower'[p] = lostByPower[p] \ Queued(p)
  BY DEF Acknowledge, Advance, SyncTypeOK, dbVars, logVars, faults, NoReply
<1>2. Newest(Account[p])' = Newest(Account[p]) /\ CurrentUrls(Account[p])' = CurrentUrls(Account[p])
  BY <1>1, SameLog
<1>3. \A x, n : Above(p, x, n)' <=> Above(p, x, n)
  BY <1>1, SameLog
<1>4. QueueInv(p)'
  BY <1>1, FS_EmptySet DEF QueueInv
<1>5. CursorInv(p)'
  <2>1. LogInv /\ Account[p] \in Users /\ Newest(Account[p]) \in Nat
    BY PhoneTypes, NewestBounds
  <2>. QED BY <1>1, <1>2, <2>1 DEF PhoneInv, CursorInv
<1>6. ASSUME NEW x \in RawUrls PROVE FollowsAtRest(p, x)'
  <2>1. Lost(p)' = (Lost(p) \cup reply[p].raced \cup reply[p].skipped) \ Queued(p)
    BY <1>1 DEF Lost
  <2>2. FollowsStored(p, x)
    BY DEF PhoneInv, FollowInv
  <2>. QED BY <1>1, <1>2, <1>3, <2>1, <2>2 DEF FollowsAtRest, FollowsStored, Follows, Above
<1>. QED BY <1>1, <1>4, <1>5, <1>6, IdleKeeps

--------------------------------------------------------------------------------
(* The database, the queue of late uploads and the other phones, step by step.    *)

PhoneActs(p) ==
  SyncStep(p) \/ Abandon(p) \/ \E x \in RawUrls : Subscribe(p, x) \/ Unsubscribe(p, x)

(* The states a loss of power may fall back to stay parts of the log.            *)
LEMMA RememberKeeps ==
  ASSUME PastInv, Grown, Remember
  PROVE  PastInv'
<1>1. ASSUME NEW k \in past'
      PROVE  /\ k.changes \subseteq changes' /\ k.lastId \in Nat
             /\ k.devices \subseteq Users \X DeviceIds
             /\ \A r \in k.changes : r.id <= k.lastId /\ <<r.user, r.device>> \in k.devices
  <2>1. k \in past \/ k = [changes |-> changes', lastId |-> lastId', devices |-> devices']
    BY DEF Remember, Database
  <2>2. CASE k \in past
    BY <2>2 DEF PastInv, Grown
  <2>3. CASE k = [changes |-> changes', lastId |-> lastId', devices |-> devices']
    BY <2>3 DEF Grown, LogInv, TypeOK, IdsAreCursors, DevicesExist
  <2>. QED BY <2>1, <2>2, <2>3
<1>. QED BY <1>1 DEF PastInv

LEMMA ScanRowsElsewhere ==
  ASSUME SyncInv, NEW p \in Phones, ScanRows(p)
  PROVE  Grown /\ PastInv' /\ changes' = changes
<1>1. /\ LogInv /\ Account[p] \in Users /\ p \in DeviceIds /\ Read(Account[p], p) /\ Remember
  BY PhoneTypes DEF SyncInv, ScanRows
<1>. QED BY <1>1, ReadGrows, RememberKeeps DEF SyncInv

LEMMA RefuseElsewhere ==
  ASSUME SyncInv, NEW p \in Phones, Refuse(p)
  PROVE  Grown /\ PastInv' /\ changes' = changes
<1>1. /\ LogInv /\ Account[p] \in Users /\ p \in DeviceIds /\ Read(Account[p], p) /\ Remember
  BY PhoneTypes DEF SyncInv, Refuse
<1>. QED BY <1>1, ReadGrows, RememberKeeps DEF SyncInv

LEMMA StoreElsewhere ==
  ASSUME SyncInv, NEW p \in Phones, Store(p)
  PROVE  Grown /\ PastInv'
<1>1. /\ LogInv /\ Account[p] \in Users /\ p \in DeviceIds
      /\ toAdd[p] \in Batches /\ toRemove[p] \in Batches
  BY PhoneTypes DEF SyncInv, PhoneInv, QueueInv, Batches
<1>2. Grown
  BY <1>1, CommitGrows DEF Store
<1>. QED BY <1>2, RememberKeeps DEF Store, SyncInv

LEMMA StoreLateElsewhere ==
  ASSUME SyncInv, NEW r \in late, StoreLate(r)
  PROVE  Grown /\ PastInv'
<1>1. /\ LogInv /\ Account[r.phone] \in Users /\ r.phone \in DeviceIds
      /\ r.add \in Batches /\ r.remove \in Batches /\ Accepted(r.add, r.remove)
  BY PhoneTypes DEF SyncInv, LateInv, SyncTypeOK, Phones
<1>2. Grown
  BY <1>1, CommitGrows DEF StoreLate
<1>. QED BY <1>2, RememberKeeps DEF StoreLate, SyncInv

LEMMA QuietElsewhere ==
  ASSUME SyncInv, UNCHANGED dbVars
  PROVE  Grown /\ PastInv' /\ changes' = changes
<1>1. LogInv /\ UNCHANGED logVars /\ past' = past
  BY DEF SyncInv, SyncTypeOK, dbVars
<1>2. PastInv'
  BY <1>1 DEF SyncInv, PastInv, logVars
<1>. QED BY <1>1, <1>2, QuietGrows DEF logVars

(* Whatever a phone does appends to the log and leaves the other phones alone.    *)
LEMMA OthersStandBy ==
  ASSUME SyncInv, NEW p \in Phones, PhoneActs(p)
  PROVE  Grown /\ PastInv' /\ \A q \in Phones \ {p} : Bystander(q)
<1>. USE DEF SyncInv
<1>1. ASSUME changes' = changes PROVE \A q : Passed(q) = {}
  BY <1>1 DEF Passed
<1>2. ASSUME NEW x \in RawUrls, Subscribe(p, x) \/ Unsubscribe(p, x)
      PROVE  Grown /\ PastInv' /\ \A q \in Phones \ {p} : Bystander(q)
  <2>1. Grown /\ PastInv' /\ changes' = changes
    BY <1>2, QuietElsewhere DEF Subscribe, Unsubscribe, Edit
  <2>. QED BY <1>1, <1>2, <2>1
           DEF Subscribe, Unsubscribe, Edit, Bystander, SyncTypeOK, histVars, faults
<1>3. CASE ScanRows(p)
  <2>1. Grown /\ PastInv' /\ changes' = changes
    BY <1>3, ScanRowsElsewhere
  <2>. QED BY <1>1, <1>3, <2>1
           DEF ScanRows, Advance, Bystander, SyncTypeOK, phoneVars, histVars, faults
<1>4. CASE TakeCursor(p)
  <2>1. Grown /\ PastInv' /\ changes' = changes
    BY <1>4, QuietElsewhere DEF TakeCursor
  <2>. QED BY <1>1, <1>4, <2>1
           DEF TakeCursor, Advance, Bystander, SyncTypeOK, phoneVars, histVars, faults
<1>5. CASE Finish(p)
  <2>1. Grown /\ PastInv' /\ changes' = changes
    BY <1>5, QuietElsewhere DEF Finish
  <2>. QED BY <1>1, <1>5, <2>1 DEF Finish, Advance, Told, Bystander, SyncTypeOK, faults
<1>6. CASE Store(p)
  <2>1. Grown /\ PastInv'
    BY <1>6, StoreElsewhere
  <2>. QED BY <1>6, <2>1 DEF Store, Advance, Told, Bystander, SyncTypeOK, faults
<1>7. CASE Refuse(p)
  <2>1. Grown /\ PastInv' /\ changes' = changes
    BY <1>7, RefuseElsewhere
  <2>. QED BY <1>1, <1>7, <2>1
           DEF Refuse, ApplyOnly, Advance, Told, Bystander, SyncTypeOK, faults
<1>8. CASE Acknowledge(p)
  <2>1. Grown /\ PastInv' /\ changes' = changes
    BY <1>8, QuietElsewhere DEF Acknowledge
  <2>. QED BY <1>1, <1>8, <2>1 DEF Acknowledge, Advance, Bystander, SyncTypeOK, faults
<1>9. CASE Abandon(p)
  <2>1. Grown /\ PastInv' /\ changes' = changes
    BY <1>9, QuietElsewhere DEF Abandon
  <2>. QED BY <1>1, <1>9, <2>1
           DEF Abandon, ApplyOnly, Told, Bystander, SyncTypeOK, histVars
<1>. QED BY <1>2, <1>3, <1>4, <1>5, <1>6, <1>7, <1>8, <1>9 DEF PhoneActs, SyncStep

(* An upload whose phone gave up leaves all phones alone.                        *)
LEMMA AllStandBy ==
  ASSUME SyncInv, NEW r \in late, StoreLate(r)
  PROVE  Grown /\ PastInv' /\ \A q \in Phones : Bystander(q)
BY StoreLateElsewhere DEF SyncInv, StoreLate, Bystander, SyncTypeOK, phoneVars, faults

(* Only accepted, finite uploads are left behind.                                *)
LEMMA LateKeeps ==
  ASSUME SyncInv, SyncNext
  PROVE  LateInv'
<1>1. ASSUME NEW r \in late' \ late
      PROVE  r.add \in Batches /\ r.remove \in Batches /\ Accepted(r.add, r.remove)
  <2>1. PICK p \in Phones : Abandon(p) /\ Accepted(toAdd[p], toRemove[p])
                            /\ r = [phone |-> p, add |-> toAdd[p], remove |-> toRemove[p]]
    BY <1>1 DEF SyncNext, SyncStep, Subscribe, Unsubscribe, Edit, ScanRows, TakeCursor, Finish,
                Store, Refuse, Acknowledge, Abandon, StoreLate, PowerLoss
  <2>2. toAdd[p] \in Batches /\ toRemove[p] \in Batches
    BY PhoneTypes DEF SyncInv, PhoneInv, QueueInv, Batches
  <2>. QED BY <2>1, <2>2
<1>. QED BY <1>1 DEF SyncInv, LateInv

--------------------------------------------------------------------------------
(* Shapes.                                                                       *)

(* What is read from the log are URLs the server stores.                         *)
LEMMA FeedsOfRows ==
  ASSUME LogInv, NEW u, NEW lo, NEW hi
  PROVE  /\ AddedSince(u, lo) \subseteq Urls /\ RemovedSince(u, lo) \subseteq Urls
         /\ ChangedBetween(u, lo, hi) \subseteq Urls
BY DEF LogInv, TypeOK, Row, AddedSince, RemovedSince, Window, RowsOf, UrlsMarked, LatestPerUrl,
       ChangedBetween

LEMMA PassedFeeds ==
  ASSUME LogInv', NEW p
  PROVE  Passed(p) \subseteq Urls
BY DEF LogInv, TypeOK, Row, Passed

LEMMA AppliedFeeds ==
  ASSUME SyncTypeOK, NEW p \in Phones
  PROVE  Applied(p) \subseteq RawUrls
BY PhoneTypes, SpellingAssumption DEF Applied, Reply

(* The shapes of what a phone holds, which a step that only touches p has to show  *)
(* of p alone.                                                                   *)
LEMMA ReplyShape ==
  ASSUME NEW added \in SUBSET Urls, NEW removed \in SUBSET Urls, NEW shown \in SUBSET Urls,
         NEW upTo \in Nat, NEW answer \in Nat, NEW raced \in SUBSET Urls, NEW skipped \in SUBSET Urls
  PROVE  [added |-> added, removed |-> removed, shown |-> shown, upTo |-> upTo,
          cursor |-> answer, raced |-> raced, skipped |-> skipped] \in Reply
BY DEF Reply

LEMMA SubscribeShapes ==
  ASSUME SyncTypeOK, LogInv', NEW p \in Phones, NEW x \in RawUrls,
         Subscribe(p, x) \/ Unsubscribe(p, x)
  PROVE  SyncTypeOK'
<1>1. /\ view' \in [Phones -> SUBSET RawUrls] /\ toAdd' \in [Phones -> SUBSET RawUrls]
      /\ toRemove' \in [Phones -> SUBSET RawUrls]
  <2>1. CASE Subscribe(p, x)
    BY <2>1 DEF Subscribe, SyncTypeOK
  <2>2. CASE Unsubscribe(p, x)
    BY <2>2 DEF Unsubscribe, SyncTypeOK
  <2>. QED BY <2>1, <2>2
<1>2. /\ cursor' = cursor /\ phase' = phase /\ reply' = reply /\ late' = late
      /\ lostByRead' = lostByRead /\ lostByUpload' = lostByUpload /\ lostByPower' = lostByPower
      /\ drops' = drops /\ losses' = losses
  BY DEF Subscribe, Unsubscribe, Edit, histVars, faults
<1>3. edits' \in 0..MaxEdits
  BY BoundsAssumption DEF Subscribe, Unsubscribe, Edit, SyncTypeOK
<1>. QED BY <1>1, <1>2, <1>3 DEF SyncTypeOK

LEMMA ScanRowsShapes ==
  ASSUME SyncTypeOK, LogInv', NEW p \in Phones, ScanRows(p)
  PROVE  SyncTypeOK'
<1> DEFINE u == Account[p]
<1>1. /\ Newest(u) \in Nat /\ AddedSince(u, cursor[p]) \subseteq Urls
      /\ RemovedSince(u, cursor[p]) \subseteq Urls
  BY PhoneTypes, NewestBounds, FeedsOfRows
<1>2. phase' \in [Phones -> Phases]
  BY DEF ScanRows, Advance, SyncTypeOK, Phases
<1>3. reply' \in [Phones -> Reply]
  BY <1>1 DEF ScanRows, NoReply, SyncTypeOK, Reply
<1>4. UNCHANGED <<phoneVars, late, histVars, edits, faults>>
  BY DEF ScanRows
<1>. QED BY <1>2, <1>3, <1>4 DEF SyncTypeOK, Reply, phoneVars, histVars, faults

LEMMA TakeCursorShapes ==
  ASSUME SyncTypeOK, LogInv', NEW p \in Phones, TakeCursor(p)
  PROVE  SyncTypeOK'
<1>1. CursorOf(p) \in Nat /\ Raced(p) \subseteq Urls
  BY PhoneTypes, ReadCursor, FeedsOfRows DEF Raced
<1>2. phase' \in [Phones -> Phases]
  BY DEF TakeCursor, Advance, SyncTypeOK, Phases
<1>3. reply' \in [Phones -> Reply]
  <2>1. [reply[p] EXCEPT !.upTo = 0, !.cursor = CursorOf(p), !.raced = Raced(p)] \in Reply
    BY <1>1, PhoneTypes DEF Reply
  <2>2. reply \in [Phones -> Reply]
    BY DEF SyncTypeOK, Reply
  <2>3. reply' = [reply EXCEPT ![p] =
          [reply[p] EXCEPT !.upTo = 0, !.cursor = CursorOf(p), !.raced = Raced(p)]]
    BY <2>2 DEF TakeCursor
  <2>. QED BY <2>1, <2>2, <2>3
<1>4. UNCHANGED <<phoneVars, late, histVars, edits, faults>>
  BY DEF TakeCursor
<1>. QED BY <1>2, <1>3, <1>4 DEF SyncTypeOK, Reply, phoneVars, histVars, faults

LEMMA NoReplyShape == NoReply \in Reply
BY DEF NoReply, Reply

LEMMA FinishShapes ==
  ASSUME SyncTypeOK, LogInv', NEW p \in Phones, Finish(p)
  PROVE  SyncTypeOK'
<1>1. CursorOf(p) \in Nat /\ Raced(p) \subseteq Urls /\ Applied(p) \subseteq RawUrls
  BY PhoneTypes, ReadCursor, FeedsOfRows, AppliedFeeds DEF Raced
<1>2. /\ phase' \in [Phones -> Phases] /\ view' \in [Phones -> SUBSET RawUrls]
      /\ cursor' \in [Phones -> Nat]
  BY <1>1 DEF Finish, Advance, SyncTypeOK, Phases
<1>3. reply' \in [Phones -> Reply]
  BY NoReplyShape DEF Finish, SyncTypeOK, Reply
<1>4. /\ lostByRead' \in [Phones -> SUBSET Urls] /\ lostByUpload' \in [Phones -> SUBSET Urls]
      /\ lostByPower' \in [Phones -> SUBSET Urls]
  BY <1>1 DEF Finish, Told, SyncTypeOK
<1>5. toAdd' = toAdd /\ toRemove' = toRemove /\ late' = late /\ edits' = edits /\ UNCHANGED faults
  BY DEF Finish
<1>. QED BY <1>2, <1>3, <1>4, <1>5 DEF SyncTypeOK, Reply, faults

LEMMA StoreShapes ==
  ASSUME SyncTypeOK, LogInv', NEW p \in Phones, Store(p)
  PROVE  SyncTypeOK'
<1>1. Applied(p) \subseteq RawUrls /\ \A q \in Phones : Passed(q) \subseteq Urls
  BY AppliedFeeds, PassedFeeds
<1>2. CursorFor(Account[p], 0)' \in Nat
  BY PhoneTypes, NewestBoundsNext, MaxOfTwo DEF CursorFor
<1>3. ChangedBetween(Account[p], reply[p].cursor, lastId) \ Queued(p) \in SUBSET Urls
  BY FeedsOfRows DEF SyncTypeOK
<1>4. /\ phase' \in [Phones -> Phases] /\ view' \in [Phones -> SUBSET RawUrls]
  BY <1>1 DEF Store, Advance, SyncTypeOK, Phases
<1>5. reply' \in [Phones -> Reply]
  BY <1>2, <1>3 DEF Store, NoReply, SyncTypeOK, Reply
<1>6. /\ lostByRead' \in [Phones -> SUBSET Urls] /\ lostByUpload' \in [Phones -> SUBSET Urls]
      /\ lostByPower' \in [Phones -> SUBSET Urls]
  BY <1>1 DEF Store, Told, SyncTypeOK
<1>7. /\ toAdd' = toAdd /\ toRemove' = toRemove /\ cursor' = cursor /\ late' = late
      /\ edits' = edits /\ UNCHANGED faults
  BY DEF Store
<1>. QED BY <1>4, <1>5, <1>6, <1>7 DEF SyncTypeOK, Reply, faults

LEMMA ApplyOnlyShapes ==
  ASSUME SyncTypeOK, NEW p \in Phones, ApplyOnly(p)
  PROVE  /\ view' \in [Phones -> SUBSET RawUrls] /\ lostByRead' \in [Phones -> SUBSET Urls]
         /\ lostByUpload' \in [Phones -> SUBSET Urls] /\ lostByPower' \in [Phones -> SUBSET Urls]
BY AppliedFeeds DEF ApplyOnly, Told, SyncTypeOK

LEMMA RefuseShapes ==
  ASSUME SyncTypeOK, LogInv', NEW p \in Phones, Refuse(p)
  PROVE  SyncTypeOK'
<1>1. phase' \in [Phones -> Phases] /\ reply' \in [Phones -> Reply]
  BY NoReplyShape DEF Refuse, Advance, SyncTypeOK, Phases, Reply
<1>2. /\ ApplyOnly(p) /\ toAdd' = toAdd /\ toRemove' = toRemove /\ cursor' = cursor
      /\ late' = late /\ edits' = edits /\ UNCHANGED faults
  BY DEF Refuse
<1>. QED BY <1>1, <1>2, ApplyOnlyShapes DEF SyncTypeOK, Reply, faults

LEMMA AcknowledgeShapes ==
  ASSUME SyncTypeOK, LogInv', NEW p \in Phones, Acknowledge(p)
  PROVE  SyncTypeOK'
<1>1. reply[p] \in Reply
  BY PhoneTypes
<1>2. /\ phase' \in [Phones -> Phases] /\ cursor' \in [Phones -> Nat]
      /\ toAdd' \in [Phones -> SUBSET RawUrls] /\ toRemove' \in [Phones -> SUBSET RawUrls]
  BY <1>1 DEF Acknowledge, Advance, SyncTypeOK, Phases, Reply
<1>3. reply' \in [Phones -> Reply]
  BY NoReplyShape DEF Acknowledge, SyncTypeOK, Reply
<1>4. /\ lostByRead' \in [Phones -> SUBSET Urls] /\ lostByUpload' \in [Phones -> SUBSET Urls]
      /\ lostByPower' \in [Phones -> SUBSET Urls]
  BY <1>1 DEF Acknowledge, SyncTypeOK, Reply
<1>5. view' = view /\ late' = late /\ edits' = edits /\ UNCHANGED faults
  BY DEF Acknowledge
<1>. QED BY <1>2, <1>3, <1>4, <1>5 DEF SyncTypeOK, Reply, faults

LEMMA AbandonShapes ==
  ASSUME SyncTypeOK, LogInv', NEW p \in Phones, Abandon(p)
  PROVE  SyncTypeOK'
<1>1. phase' \in [Phones -> Phases] /\ reply' \in [Phones -> Reply]
  BY NoReplyShape DEF Abandon, SyncTypeOK, Phases, Reply
<1>2. /\ view' \in [Phones -> SUBSET RawUrls] /\ lostByRead' \in [Phones -> SUBSET Urls]
      /\ lostByUpload' \in [Phones -> SUBSET Urls] /\ lostByPower' \in [Phones -> SUBSET Urls]
  BY ApplyOnlyShapes DEF Abandon, SyncTypeOK, histVars
<1>3. late' \subseteq [phone : Phones, add : SUBSET RawUrls, remove : SUBSET RawUrls]
  BY DEF Abandon, SyncTypeOK
<1>4. drops' \in 0..MaxDrops
  BY BoundsAssumption DEF Abandon, SyncTypeOK
<1>5. /\ toAdd' = toAdd /\ toRemove' = toRemove /\ cursor' = cursor
      /\ edits' = edits /\ losses' = losses
  BY DEF Abandon
<1>. QED BY <1>1, <1>2, <1>3, <1>4, <1>5 DEF SyncTypeOK, Reply

LEMMA StoreLateShapes ==
  ASSUME SyncTypeOK, LogInv', NEW r \in late, StoreLate(r)
  PROVE  SyncTypeOK'
<1>1. \A q \in Phones : Passed(q) \subseteq Urls
  BY PassedFeeds
<1>2. /\ lostByPower' \in [Phones -> SUBSET Urls]
      /\ late' \subseteq [phone : Phones, add : SUBSET RawUrls, remove : SUBSET RawUrls]
  BY <1>1 DEF StoreLate, SyncTypeOK
<1>3. /\ UNCHANGED <<phoneVars, phase, reply, lostByRead, lostByUpload, edits, faults>>
  BY DEF StoreLate
<1>. QED BY <1>2, <1>3 DEF SyncTypeOK, phoneVars, faults

LEMMA PowerLossShapes ==
  ASSUME SyncTypeOK, LogInv', PowerLoss
  PROVE  SyncTypeOK'
<1>1. losses' \in 0..MaxLosses
  BY BoundsAssumption DEF PowerLoss, SyncTypeOK
<1>2. phase' \in [Phones -> Phases]
  BY DEF PowerLoss, SyncTypeOK, Phases
<1>3. reply' \in [Phones -> Reply]
  <2>1. PICK on \in SUBSET Phones :
          reply' = [p \in Phones |-> IF p \in on THEN [reply[p] EXCEPT !.shown = {}] ELSE NoReply]
    BY DEF PowerLoss
  <2>2. \A p \in Phones : [reply[p] EXCEPT !.shown = {}] \in Reply
    BY PhoneTypes DEF Reply
  <2>. QED BY <2>1, <2>2, NoReplyShape
<1>4. lostByPower' \in [Phones -> SUBSET Urls]
  BY DEF PowerLoss, SyncTypeOK, LogInv, TypeOK, Row
<1>5. late' = {} /\ UNCHANGED <<phoneVars, lostByRead, lostByUpload, edits, drops>>
  BY DEF PowerLoss
<1>. QED BY <1>1, <1>2, <1>3, <1>4, <1>5 DEF SyncTypeOK, Reply, phoneVars

--------------------------------------------------------------------------------
(* The theorems.                                                                 *)

(* Initially nothing has been said, synced or lost.                              *)
LEMMA SyncInvInit == SyncInit => SyncInv
<1> SUFFICES ASSUME SyncInit PROVE SyncInv
  OBVIOUS
<1>. USE DEF SyncInit, Init
<1>1. LogInv
  BY DEF LogInv, TypeOK, IdsAreCursors, DevicesExist
<1>2. SyncTypeOK
  BY <1>1, NoReplyShape, BoundsAssumption DEF SyncTypeOK, Phases, Reply
<1>3. LateInv /\ PastInv
  BY DEF LateInv, PastInv, Database
<1>4. ASSUME NEW p \in Phones PROVE PhoneInv(p)
  <2>1. CurrentUrls(Account[p]) = {} /\ Newest(Account[p]) \in Nat
    BY <1>1, <1>2, PhoneTypes, NewestBounds DEF CurrentUrls, UrlsMarked, LatestPerUrl, RowsOf
  <2>2. QueueInv(p)
    BY FS_EmptySet DEF QueueInv
  <2>. QED BY <2>1, <2>2
           DEF PhoneInv, ReplyInv, FollowInv, FollowsAtRest, FollowsScanned, FollowsAnswered,
               FollowsStored, Follows, CursorInv, RetryInv, NoReply
<1>. QED BY <1>2, <1>3, <1>4 DEF SyncInv

(* The phone that acts keeps its part of the invariant.                          *)
LEMMA ActorKeeps ==
  ASSUME SyncInv, NEW p \in Phones, PhoneActs(p)
  PROVE  PhoneInv(p)'
BY SubscribeKeeps, UnsubscribeKeeps, ScanRowsKeeps, TakeCursorKeeps, FinishKeeps, StoreKeeps,
   RefuseKeeps, AcknowledgeKeeps, AbandonKeeps
   DEF SyncInv, PhoneActs, SyncStep

LEMMA ActorShapes ==
  ASSUME SyncInv, NEW p \in Phones, PhoneActs(p)
  PROVE  SyncTypeOK'
<1>1. SyncTypeOK /\ LogInv'
  BY OthersStandBy DEF SyncInv, Grown
<1>. QED BY <1>1, SubscribeShapes, ScanRowsShapes, TakeCursorShapes, FinishShapes, StoreShapes,
            RefuseShapes, AcknowledgeShapes, AbandonShapes
         DEF PhoneActs, SyncStep

(* The invariant is inductive.                                                   *)
LEMMA SyncInvNext == SyncInv /\ [SyncNext]_syncVars => SyncInv'
<1> SUFFICES ASSUME SyncInv, [SyncNext]_syncVars PROVE SyncInv'
  OBVIOUS
<1>1. SyncTypeOK /\ LogInv /\ PastInv
  BY DEF SyncInv, SyncTypeOK
<1>2. ASSUME NEW p \in Phones, PhoneActs(p), SyncNext
      PROVE  SyncInv'
  <2>1. Grown /\ PastInv' /\ \A q \in Phones \ {p} : Bystander(q)
    BY <1>2, OthersStandBy
  <2>2. SyncTypeOK' /\ LateInv'
    BY <1>2, ActorShapes, LateKeeps
  <2>3. PhoneInv(p)'
    BY <1>2, ActorKeeps
  <2>4. ASSUME NEW q \in Phones \ {p} PROVE PhoneInv(q)'
    BY <1>1, <2>1, BystanderKeeps DEF SyncInv
  <2>5. \A q \in Phones : PhoneInv(q)'
    BY <2>3, <2>4
  <2>. QED BY <2>1, <2>2, <2>5 DEF SyncInv
<1>3. ASSUME NEW r \in late, StoreLate(r), SyncNext
      PROVE  SyncInv'
  <2>1. Grown /\ PastInv' /\ \A q \in Phones : Bystander(q)
    BY <1>3, AllStandBy
  <2>2. SyncTypeOK' /\ LateInv'
    BY <1>1, <1>3, <2>1, StoreLateShapes, LateKeeps DEF Grown
  <2>3. \A q \in Phones : PhoneInv(q)'
    BY <1>1, <2>1, BystanderKeeps DEF SyncInv
  <2>. QED BY <2>1, <2>2, <2>3 DEF SyncInv
<1>4. CASE PowerLoss
  <2>1. LogInv' /\ changes' \subseteq changes
    BY <1>1, <1>4, FallingBack DEF PowerLoss
  <2>2. SyncTypeOK' /\ LateInv'
    BY <1>1, <1>4, <2>1, PowerLossShapes DEF LateInv, PowerLoss
  <2>3. PastInv'
    BY <1>4, <2>1 DEF PowerLoss, PastInv, Database, LogInv, TypeOK, IdsAreCursors, DevicesExist
  <2>4. \A q \in Phones : PhoneInv(q)'
    BY <1>1, <1>4, PowerLossKeeps DEF SyncInv
  <2>. QED BY <2>2, <2>3, <2>4 DEF SyncInv
<1>5. CASE UNCHANGED syncVars
  <2>1. /\ UNCHANGED dbVars /\ UNCHANGED phoneVars /\ UNCHANGED histVars /\ UNCHANGED faults
        /\ phase' = phase /\ reply' = reply /\ late' = late /\ edits' = edits
    BY <1>5 DEF syncVars
  <2>2. Grown /\ PastInv' /\ changes' = changes
    BY <2>1, QuietElsewhere
  <2>3. \A q \in Phones : Bystander(q)
    BY <2>1, <2>2 DEF Bystander, phoneVars, histVars, faults, Passed
  <2>4. \A q \in Phones : PhoneInv(q)'
    BY <1>1, <2>2, <2>3, BystanderKeeps DEF SyncInv
  <2>5. SyncTypeOK'
    BY <1>1, <2>1, <2>2 DEF SyncTypeOK, Grown, phoneVars, histVars, faults
  <2>6. LateInv'
    BY <2>1 DEF SyncInv, LateInv
  <2>. QED BY <2>2, <2>4, <2>5, <2>6 DEF SyncInv
<1>. QED BY <1>2, <1>3, <1>4, <1>5 DEF SyncNext, PhoneActs

LEMMA SyncInvariant == SyncSpec => []SyncInv
BY SyncInvInit, SyncInvNext, PTL DEF SyncSpec

(* Shapes of phones and log, whatever is lost, retried or executed late.          *)
THEOREM SyncTypes == SyncSpec => []SyncTypeOK
<1>1. SyncInv => SyncTypeOK
  BY DEF SyncInv
<1>. QED BY <1>1, SyncInvariant, PTL

(* A phone is out of step with its account in the three named ways only, for any   *)
(* number of phones, accounts, feeds, edits, failures and losses of power.        *)
THEOREM ViewsFollowList == SyncSpec => []ViewFollowsList
<1>1. SyncInv => ViewFollowsList
  <2>1. SUFFICES ASSUME SyncInv, NEW p \in Phones, NEW x \in RawUrls, Diverged(p, x)
                 PROVE  x \in Lost(p)
    BY DEF ViewFollowsList, Lost
  <2>2. \A r \in RowsOf(Account[p]) : r.id \in Nat
    BY <2>1, PhoneTypes, NewestBounds DEF SyncInv
  <2>3. cursor[p] \in Nat /\ FollowsAtRest(p, x)
    BY <2>1, PhoneTypes DEF SyncInv, PhoneInv, FollowInv
  <2>. QED BY <2>1, <2>2, <2>3 DEF Diverged, FollowsAtRest, Follows, Above
<1>. QED BY <1>1, SyncInvariant, PTL

(* Until power is lost no cursor is ahead of the log, so nothing is ever committed *)
(* below one.                                                                    *)
THEOREM CursorsAreWithinLog == SyncSpec => []CursorsWithinLog
<1>1. SyncInv => CursorsWithinLog
  BY DEF SyncInv, PhoneInv, CursorInv, CursorsWithinLog
<1>. QED BY <1>1, SyncInvariant, PTL

(* The retry of a batch that was stored records nothing.                         *)
THEOREM RetriesRecordNothing == SyncSpec => []RetryRecordsNothing
<1>1. SyncInv => RetryRecordsNothing
  BY DEF SyncInv, PhoneInv, RetryInv, RetryRecordsNothing
<1>. QED BY <1>1, SyncInvariant, PTL

(* Until power is lost no phone's stored cursor goes back, although the server     *)
(* answers an upload without looking at it.                                      *)
THEOREM CursorsNeverRewind == SyncSpec => CursorNeverRewinds
<1> DEFINE Kept == losses = 0 => \A p \in Phones : cursor'[p] >= cursor[p]
<1>1. SyncInv /\ [SyncNext]_syncVars => [Kept]_syncVars
  <2>1. SUFFICES ASSUME SyncInv, SyncNext, losses = 0, NEW p \in Phones
                 PROVE  cursor'[p] >= cursor[p]
    OBVIOUS
  <2>2. cursor[p] \in Nat /\ reply[p] \in Reply
    BY <2>1, PhoneTypes DEF SyncInv
  <2>3. \A q \in Phones : Finish(q) => cursor'[p] >= cursor[p]
    BY <2>1, <2>2, ReadCursor DEF SyncInv, SyncTypeOK, Finish
  <2>4. \A q \in Phones : Acknowledge(q) => cursor'[p] >= cursor[p]
    <3>1. ASSUME NEW q \in Phones \ {p}, Acknowledge(q) PROVE cursor'[p] = cursor[p]
      BY <2>1, <3>1 DEF SyncInv, SyncTypeOK, Acknowledge
    <3>2. ASSUME Acknowledge(p) PROVE cursor'[p] >= cursor[p]
      <4>1. cursor[p] <= reply[p].cursor
        BY <2>1, <3>2 DEF SyncInv, PhoneInv, CursorInv, Acknowledge, Advance
      <4>2. cursor'[p] = reply[p].cursor
        BY <2>1, <3>2 DEF SyncInv, SyncTypeOK, Acknowledge
      <4>. QED BY <2>2, <4>1, <4>2 DEF Reply
    <3>. QED BY <2>2, <3>1, <3>2
  <2>5. ASSUME cursor' = cursor PROVE cursor'[p] >= cursor[p]
    BY <2>2, <2>5
  <2>. QED BY <2>1, <2>3, <2>4, <2>5
           DEF SyncNext, SyncStep, Subscribe, Unsubscribe, Edit, ScanRows, TakeCursor, Store,
               Refuse, Abandon, StoreLate, PowerLoss, phoneVars
<1>. QED BY <1>1, SyncInvariant, PTL DEF SyncSpec, CursorNeverRewinds

--------------------------------------------------------------------------------
(* The log under interleaved requests.                                           *)

(* Without a loss of power, requests that interleave between their statements      *)
(* write the log as whole requests do: all that is proved of Spec holds here.     *)
THEOREM SyncImplementsLog ==
  ASSUME MaxLosses = 0
  PROVE  SyncSpec => Spec
<1>1. SyncInit => Init
  BY DEF SyncInit
<1>2. SyncInv /\ [SyncNext]_syncVars => [Next]_logVars
  <2>1. SUFFICES ASSUME SyncInv, [SyncNext]_syncVars, ~ UNCHANGED logVars
                 PROVE  Next
    OBVIOUS
  <2>2. SyncTypeOK
    BY <2>1 DEF SyncInv
  <2>3. ~ PowerLoss
    BY <2>2 DEF PowerLoss, SyncTypeOK
  <2>4. ASSUME NEW p \in Phones, Read(Account[p], p) PROVE Next
    BY <2>2, <2>4, PhoneTypes DEF Next
  <2>5. ASSUME NEW p \in Phones, Store(p) PROVE Next
    <3>1. /\ toAdd[p] \in Batches /\ toRemove[p] \in Batches
          /\ Account[p] \in Users /\ p \in DeviceIds
      BY <2>1, <2>2, PhoneTypes DEF SyncInv, PhoneInv, QueueInv, Batches
    <3>2. Upload(Account[p], p, toAdd[p], toRemove[p])
      BY <2>5 DEF Store, Upload
    <3>. QED BY <3>1, <3>2 DEF Next
  <2>6. ASSUME NEW r \in late, StoreLate(r) PROVE Next
    <3>1. /\ r.add \in Batches /\ r.remove \in Batches /\ Accepted(r.add, r.remove)
          /\ Account[r.phone] \in Users /\ r.phone \in DeviceIds
      BY <2>1, <2>2, PhoneTypes DEF SyncInv, LateInv, SyncTypeOK, Phones
    <3>2. Upload(Account[r.phone], r.phone, r.add, r.remove)
      BY <2>6, <3>1 DEF StoreLate, Upload
    <3>. QED BY <3>1, <3>2 DEF Next
  <2>7. dbVars' # dbVars
    BY <2>1 DEF dbVars
  <2>8. syncVars' # syncVars
    BY <2>7 DEF syncVars
  <2>9. \/ \E p \in Phones : ScanRows(p) \/ Refuse(p) \/ Store(p)
        \/ \E r \in late : StoreLate(r)
    BY <2>1, <2>3, <2>7, <2>8
       DEF SyncNext, SyncStep, Subscribe, Unsubscribe, Edit, TakeCursor, Finish, Acknowledge,
           Abandon
  <2>. QED BY <2>4, <2>5, <2>6, <2>9 DEF ScanRows, Refuse
<1>. QED BY <1>1, <1>2, SyncInvariant, PTL DEF SyncSpec, Spec

(* Every commit a loss of power may fall back to has alternating histories.       *)
HistoryInv ==
  /\ HistoryAlternates
  /\ \A k \in past : \A r \in k.changes : Alternates(k.changes, r)

(* The history of every feed alternates, losses of power or not.                 *)
THEOREM HistoryAcrossLosses == SyncSpec => []HistoryAlternates
<1>1. SyncInit => HistoryInv
  BY DEF SyncInit, Init, HistoryInv, HistoryAlternates, Database
<1>2. SyncInv /\ HistoryInv /\ [SyncNext]_syncVars => HistoryInv'
  <2>1. SUFFICES ASSUME SyncInv, HistoryInv, [SyncNext]_syncVars PROVE HistoryInv'
    OBVIOUS
  <2>2. SyncTypeOK /\ LogInv /\ HistoryAlternates
    BY <2>1 DEF SyncInv, SyncTypeOK, HistoryInv
  <2>3. HistoryAlternates' <=> \A r \in changes' : Alternates(changes', r)
    <3>1. ASSUME NEW r \in changes'
          PROVE  {q \in RowsOf(r.user)' : q.url = r.url /\ q.id < r.id}
                   = {q \in changes' : q.user = r.user /\ q.url = r.url /\ q.id < r.id}
      BY DEF RowsOf
    <3>2. LatestPerUrl({}) = {}
      BY DEF LatestPerUrl
    <3>. QED BY <3>1, <3>2 DEF HistoryAlternates, Alternates
  <2>4. ASSUME HistoryAlternates', past' \subseteq past \cup {Database'} PROVE HistoryInv'
    <3>1. ASSUME NEW k \in past' PROVE \A r \in k.changes : Alternates(k.changes, r)
      <4>1. k \in past \/ k.changes = changes'
        BY <2>4, <3>1 DEF Database
      <4>. QED BY <2>1, <2>3, <2>4, <4>1 DEF HistoryInv
    <3>. QED BY <2>4, <3>1 DEF HistoryInv
  <2>5. ASSUME changes' = changes PROVE HistoryAlternates'
    BY <2>2, <2>5 DEF HistoryAlternates, RowsOf, LatestPerUrl
  <2>6. ASSUME Remember PROVE past' \subseteq past \cup {Database'}
    BY <2>6 DEF Remember
  <2>7. ASSUME NEW u \in Users, NEW d \in DeviceIds,
               NEW add \in Batches, NEW remove \in Batches, Accepted(add, remove),
               Commit(u, d, Sanitised(add), Sanitised(remove)), Remember
        PROVE  HistoryInv'
    <3>1. /\ Sanitised(add) \subseteq Urls /\ IsFiniteSet(Sanitised(add))
          /\ Sanitised(remove) \subseteq Urls /\ IsFiniteSet(Sanitised(remove))
      BY <2>7, SanitisedUrls
    <3>2. HistoryAlternates'
      BY <2>2, <2>7, <3>1, CommitAlternates
    <3>. QED BY <2>4, <2>6, <2>7, <3>2
  <2>8. ASSUME NEW p \in Phones, PhoneActs(p) PROVE HistoryInv'
    <3>1. CASE Store(p)
      <4>1. /\ toAdd[p] \in Batches /\ toRemove[p] \in Batches
            /\ Account[p] \in Users /\ p \in DeviceIds
        BY <2>1, <2>2, PhoneTypes DEF SyncInv, PhoneInv, QueueInv, Batches
      <4>. QED BY <2>7, <3>1, <4>1 DEF Store
    <3>2. CASE ScanRows(p) \/ Refuse(p)
      BY <2>4, <2>5, <2>6, <3>2 DEF ScanRows, Refuse, Read
    <3>3. CASE UNCHANGED dbVars
      BY <2>4, <2>5, <3>3 DEF dbVars, logVars
    <3>. QED BY <2>8, <3>1, <3>2, <3>3
             DEF PhoneActs, SyncStep, Subscribe, Unsubscribe, Edit, TakeCursor, Finish,
                 Acknowledge, Abandon
  <2>9. ASSUME NEW r \in late, StoreLate(r) PROVE HistoryInv'
    <3>1. /\ r.add \in Batches /\ r.remove \in Batches /\ Accepted(r.add, r.remove)
          /\ Account[r.phone] \in Users /\ r.phone \in DeviceIds
      BY <2>1, <2>2, PhoneTypes DEF SyncInv, LateInv, SyncTypeOK, Phones
    <3>. QED BY <2>7, <2>9, <3>1 DEF StoreLate
  <2>10. CASE PowerLoss
    <3>1. \E k \in past : changes' = k.changes
      BY <2>10 DEF PowerLoss, FallenBack
    <3>2. HistoryAlternates'
      BY <2>1, <2>3, <3>1 DEF HistoryInv
    <3>3. past' \subseteq {Database'}
      BY <2>10 DEF PowerLoss
    <3>. QED BY <2>4, <3>2, <3>3
  <2>11. CASE UNCHANGED syncVars
    BY <2>4, <2>5, <2>11 DEF syncVars, dbVars, logVars
  <2>. QED BY <2>1, <2>8, <2>9, <2>10, <2>11 DEF SyncNext, PhoneActs
<1>3. HistoryInv => HistoryAlternates
  BY DEF HistoryInv
<1>. QED BY <1>1, <1>2, <1>3, SyncInvariant, PTL DEF SyncSpec

(* Whatever cursor a phone stopped at, the answer to its next read is the exact    *)
(* difference between the two lists, losses of power or not.                     *)
THEOREM DeltaAcrossLosses == SyncSpec => []DeltaRestoresList
<1>1. SyncTypeOK => DeltaRestoresList
  BY DeltaFromLog DEF SyncTypeOK
<1>. QED BY <1>1, SyncTypes, PTL
================================================================================

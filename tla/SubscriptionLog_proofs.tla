------------------------- MODULE SubscriptionLog_proofs -------------------------
(* Theorems about SubscriptionLog, for every set of accounts, devices and URLs.  *)
EXTENDS SubscriptionLog, WellFoundedInduction, FiniteSetTheorems, TLAPS

--------------------------------------------------------------------------------
(* A cursor is the greatest of a set of ids: they are bounded by the last id     *)
(* handed out, so the distances to it have a least one.                          *)
LEMMA MaxOfBounded ==
  ASSUME NEW S \in SUBSET Nat, S # {}, NEW n \in Nat, \A x \in S : x <= n
  PROVE  Max(S) \in S /\ \A x \in S : x <= Max(S)
<1> DEFINE T == {n - x : x \in S}
           Less == {p \in Nat \X Nat : p[1] < p[2]}
<1>1. T \subseteq Nat /\ T # {}
  <2>1. \A x \in S : n - x \in Nat
    OBVIOUS
  <2>. QED BY <2>1
<1>2. IsWellFoundedOn(Less, Nat)
  BY NatLessThanWellFounded DEF OpToRel
<1>3. PICK t \in T : \A y \in T : ~ (<<y, t>> \in Less)
  <2>. HIDE DEF T, Less
  <2>. QED BY <1>1, <1>2, WFMin
<1>4. \A y \in T : ~ (y < t)
  BY <1>1, <1>3
<1>5. PICK m \in S : t = n - m
  OBVIOUS
<1>6. \A x \in S : m >= x
  <2>1. SUFFICES ASSUME NEW x \in S PROVE m >= x
    OBVIOUS
  <2>2. ~ (n - x < n - m)
    BY <1>4, <1>5
  <2>3. n \in Nat /\ m \in Nat /\ x \in Nat
    OBVIOUS
  <2>. HIDE DEF T, Less
  <2>. QED BY <2>2, <2>3, SMT
<1>. QED BY <1>6 DEF Max

--------------------------------------------------------------------------------
(* Batches and the ids their rows receive.                                       *)

(* Sanitising a finite batch that is accepted gives a finite set of URLs.        *)
LEMMA SanitisedUrls ==
  ASSUME NEW add \in Batches, NEW remove \in Batches, Accepted(add, remove)
  PROVE  /\ Sanitised(add) \subseteq Urls /\ IsFiniteSet(Sanitised(add))
         /\ Sanitised(remove) \subseteq Urls /\ IsFiniteSet(Sanitised(remove))
<1>1. ASSUME NEW b \in Batches, b \subseteq add \cup remove
      PROVE  Sanitised(b) \subseteq Urls /\ IsFiniteSet(Sanitised(b))
  <2>1. Sanitised(b) \subseteq Urls
    BY <1>1, SanitiseAssumption DEF Batches, Accepted, Sanitised
  <2>2. IsFiniteSet(b)
    BY DEF Batches
  <2>3. [raw \in b |-> Sanitise[raw]] \in Surjection(b, Sanitised(b))
    BY DEF Surjection, Sanitised
  <2>4. IsFiniteSet(Sanitised(b))
    BY <2>2, <2>3, FS_Surjection
  <2>. QED BY <2>1, <2>4
<1>. QED BY <1>1

(* An order numbers the URLs of a finite set from 1, each with its own number.   *)
LEMMA OrderNumbers ==
  ASSUME NEW urls, IsFiniteSet(urls), NEW place \in Orders(urls)
  PROVE  /\ Cardinality(urls) \in Nat
         /\ \A x \in urls : place[x] \in 1..Cardinality(urls)
         /\ \A x, y \in urls : place[x] = place[y] => x = y
BY FS_CardinalityType DEF Orders, Bijection, Injection, IsInjective

(* The rows one loop of the handler appends: one per URL of urls, alike but for  *)
(* url and id, their ids distinct and in the interval above lo up to hi.         *)
Block(rows, u, d, action, urls, lo, hi) ==
  /\ lo \in Nat /\ hi \in Nat /\ lo <= hi
  /\ rows \subseteq Row
  /\ \A r \in rows : /\ r.user = u /\ r.device = d /\ r.action = action /\ r.url \in urls
                     /\ lo < r.id /\ r.id <= hi
  /\ \A x \in urls : \E r \in rows : r.url = x
  /\ \A r, q \in rows : r.id = q.id \/ r.url = q.url => r = q

(* The rows of a loop form such a block.                                         *)
LEMMA NumberedIsBlock ==
  ASSUME NEW u \in Users, NEW d \in DeviceIds, NEW action \in {"add", "remove"},
         NEW urls \in SUBSET Urls, IsFiniteSet(urls),
         NEW place \in Orders(urls), NEW base \in Nat
  PROVE  Block(Numbered(u, d, action, urls, place, base), u, d, action, urls,
               base, base + Cardinality(urls))
<1> DEFINE rows == Numbered(u, d, action, urls, place, base)
           row(x) == [id |-> base + place[x], user |-> u, device |-> d,
                      url |-> x, action |-> action]
<1>1. /\ Cardinality(urls) \in Nat
      /\ \A x \in urls : place[x] \in 1..Cardinality(urls)
      /\ \A x, y \in urls : place[x] = place[y] => x = y
  BY OrderNumbers
<1>2. rows = {row(x) : x \in urls}
  BY DEF Numbered
<1>3. \A x \in urls : /\ row(x) \in Row /\ base < row(x).id
                     /\ row(x).id <= base + Cardinality(urls)
  BY <1>1 DEF Row
<1>4. \A r \in rows : \E x \in urls : r = row(x)
  BY <1>2
<1>5. \A r, q \in rows : r.id = q.id \/ r.url = q.url => r = q
  <2>1. SUFFICES ASSUME NEW x \in urls, NEW y \in urls,
                        row(x).id = row(y).id \/ row(x).url = row(y).url
                 PROVE  x = y
    BY <1>4
  <2>2. CASE row(x).id = row(y).id
    <3>1. place[x] = place[y]
      BY <1>1, <2>2
    <3>. QED BY <1>1, <3>1
  <2>3. CASE row(x).url = row(y).url
    BY <2>3
  <2>. QED BY <2>1, <2>2, <2>3
<1>6. \A r \in rows : /\ r.user = u /\ r.device = d /\ r.action = action /\ r.url \in urls
                     /\ base < r.id /\ r.id <= base + Cardinality(urls) /\ r \in Row
  BY <1>3, <1>4
<1>7. \A x \in urls : \E r \in rows : r.url = x
  <2>1. \A x \in urls : row(x) \in rows /\ row(x).url = x
    BY <1>2
  <2>. QED BY <2>1
<1>8. base <= base + Cardinality(urls) /\ base + Cardinality(urls) \in Nat
  BY <1>1
<1>. HIDE DEF rows
<1>9. Block(rows, u, d, action, urls, base, base + Cardinality(urls))
  BY <1>5, <1>6, <1>7, <1>8 DEF Block
<1>. QED BY <1>9 DEF rows

(* What the transaction of an upload does to the log: two blocks of new rows,    *)
(* the additions below the removals.                                             *)
LEMMA CommitBlocks ==
  ASSUME LogInv, NEW u \in Users, NEW d \in DeviceIds,
         NEW add \in SUBSET Urls, IsFiniteSet(add),
         NEW remove \in SUBSET Urls, IsFiniteSet(remove),
         Commit(u, d, add, remove)
  PROVE  \E A, B, middle :
           /\ changes' = changes \cup A \cup B
           /\ Block(A, u, d, "add", NewAdditions(u, add), lastId, middle)
           /\ Block(B, u, d, "remove", NewRemovals(u, add, remove), middle, lastId')
<1> DEFINE subscribed   == NewAdditions(u, add)
           unsubscribed == NewRemovals(u, add, remove)
           middle       == lastId + Cardinality(subscribed)
<1>1. /\ subscribed \subseteq Urls /\ IsFiniteSet(subscribed)
      /\ unsubscribed \subseteq Urls /\ IsFiniteSet(unsubscribed)
  BY FS_Subset DEF NewAdditions, NewRemovals
<1>2. lastId \in Nat /\ Cardinality(subscribed) \in Nat /\ middle \in Nat
  BY <1>1, FS_CardinalityType DEF LogInv, TypeOK
<1>3. lastId' = middle + Cardinality(unsubscribed)
  BY DEF Commit
<1>4. PICK first \in Orders(subscribed), then \in Orders(unsubscribed) :
        changes' = changes \cup Numbered(u, d, "add", subscribed, first, lastId)
                           \cup Numbered(u, d, "remove", unsubscribed, then, middle)
  BY DEF Commit
<1>. HIDE DEF subscribed, unsubscribed, middle
<1>5. Block(Numbered(u, d, "add", subscribed, first, lastId),
            u, d, "add", subscribed, lastId, lastId + Cardinality(subscribed))
  BY <1>1, <1>2, NumberedIsBlock
<1>6. Block(Numbered(u, d, "remove", unsubscribed, then, middle),
            u, d, "remove", unsubscribed, middle, middle + Cardinality(unsubscribed))
  BY <1>1, <1>2, NumberedIsBlock
<1>. QED BY <1>3, <1>4, <1>5, <1>6 DEF subscribed, unsubscribed, middle

--------------------------------------------------------------------------------
(* The invariant of the log.                                                     *)

(* A commit keeps the log well formed, its ids unique and below lastId.          *)
LEMMA CommitKeepsLogInv ==
  ASSUME LogInv, NEW u \in Users, NEW d \in DeviceIds,
         NEW add \in SUBSET Urls, IsFiniteSet(add),
         NEW remove \in SUBSET Urls, IsFiniteSet(remove),
         Commit(u, d, add, remove), Mention(u, d)
  PROVE  LogInv'
<1>1. PICK A, B, middle :
        /\ changes' = changes \cup A \cup B
        /\ Block(A, u, d, "add", NewAdditions(u, add), lastId, middle)
        /\ Block(B, u, d, "remove", NewRemovals(u, add, remove), middle, lastId')
  BY CommitBlocks
<1>2. TypeOK'
  BY <1>1 DEF LogInv, TypeOK, Block, Mention
<1>3. IdsAreCursors'
  <2>. USE DEF Block
  <2>1. \A r \in changes : r \in Row /\ r.id \in Nat /\ r.id <= lastId
    BY DEF LogInv, TypeOK, IdsAreCursors, Row
  <2>2. \A r \in A \cup B : r.id \in Nat
    BY <1>1 DEF Row
  <2>3. \A r \in changes' : r.id <= lastId'
    BY <1>1, <2>1, <2>2
  <2>4. ASSUME NEW r \in changes', NEW q \in changes', r.id = q.id
        PROVE  r = q
    <3>1. CASE r \in changes /\ q \in changes
      BY <2>4, <3>1 DEF LogInv, IdsAreCursors
    <3>2. CASE r \in A /\ q \in A
      BY <1>1, <2>4, <3>2
    <3>3. CASE r \in B /\ q \in B
      BY <1>1, <2>4, <3>3
    <3>4. ~ (r \in changes /\ q \in A \cup B) /\ ~ (q \in changes /\ r \in A \cup B)
      BY <1>1, <2>1, <2>2, <2>4
    <3>5. ~ (r \in A /\ q \in B) /\ ~ (q \in A /\ r \in B)
      BY <1>1, <2>2, <2>4
    <3>. QED BY <1>1, <3>1, <3>2, <3>3, <3>4, <3>5
  <2>. QED BY <2>3, <2>4 DEF IdsAreCursors
<1>4. DevicesExist'
  BY <1>1 DEF LogInv, DevicesExist, Mention, Block
<1>. QED BY <1>2, <1>3, <1>4 DEF LogInv

(* Type correctness, ids usable as cursors, and the device foreign key, for any  *)
(* number of accounts, devices, URLs and requests.                               *)
THEOREM LogInvariant == Spec => []LogInv
<1>1. Init => LogInv
  BY DEF Init, LogInv, TypeOK, IdsAreCursors, DevicesExist
<1>2. LogInv /\ [Next]_logVars => LogInv'
  <2>1. SUFFICES ASSUME LogInv, [Next]_logVars PROVE LogInv'
    OBVIOUS
  <2>2. ASSUME NEW u \in Users, NEW d \in DeviceIds, Mention(u, d),
               UNCHANGED <<changes, lastId>>
        PROVE  LogInv'
    BY <2>1, <2>2 DEF Mention, LogInv, TypeOK, IdsAreCursors, DevicesExist
  <2>3. ASSUME NEW u \in Users, NEW d \in DeviceIds,
               NEW add \in Batches, NEW remove \in Batches, Upload(u, d, add, remove)
        PROVE  LogInv'
    <3>1. /\ Sanitised(add) \subseteq Urls /\ IsFiniteSet(Sanitised(add))
          /\ Sanitised(remove) \subseteq Urls /\ IsFiniteSet(Sanitised(remove))
      BY <2>3, SanitisedUrls DEF Upload
    <3>. QED BY <2>1, <2>3, <3>1, CommitKeepsLogInv DEF Upload
  <2>4. CASE UNCHANGED logVars
    BY <2>1, <2>4 DEF logVars, LogInv, TypeOK, IdsAreCursors, DevicesExist
  <2>. QED BY <2>1, <2>2, <2>3, <2>4 DEF Next, Read, RefusedUpload
<1>. QED BY <1>1, <1>2, PTL DEF Spec

--------------------------------------------------------------------------------
(* The list and the log.                                                         *)

(* A URL is on the list that rows describe when its newest row says "add".       *)
LEMMA MarkedMeansNewest ==
  ASSUME NEW rows, NEW action, NEW x
  PROVE  x \in UrlsMarked(action, rows)
           <=> \E r \in rows : /\ r.url = x /\ r.action = action
                              /\ \A q \in rows : q.url = x => q.id <= r.id
BY DEF UrlsMarked, LatestPerUrl

(* A commit turns the account's list into (list + add) - remove and leaves every *)
(* other account's list alone.                                                   *)
LEMMA CommitAppliesBatch ==
  ASSUME LogInv, NEW u \in Users, NEW d \in DeviceIds,
         NEW add \in SUBSET Urls, IsFiniteSet(add),
         NEW remove \in SUBSET Urls, IsFiniteSet(remove),
         Commit(u, d, add, remove)
  PROVE  /\ CurrentUrls(u)' = (CurrentUrls(u) \cup add) \ remove
         /\ \A v \in Users \ {u} : CurrentUrls(v)' = CurrentUrls(v)
<1>1. PICK A, B, middle :
        /\ changes' = changes \cup A \cup B
        /\ Block(A, u, d, "add", NewAdditions(u, add), lastId, middle)
        /\ Block(B, u, d, "remove", NewRemovals(u, add, remove), middle, lastId')
  BY CommitBlocks
<1> DEFINE old == RowsOf(u)
           new == old \cup A \cup B
<1>2. RowsOf(u)' = new
  BY <1>1 DEF RowsOf, Block
<1>3. \A r \in new : r.id \in Nat
  BY <1>1 DEF LogInv, TypeOK, Row, Block, RowsOf
<1>4. \A r \in old : r.id <= lastId
  BY DEF LogInv, IdsAreCursors, RowsOf
<1>. HIDE DEF old, new
<1>5. ASSUME NEW x
      PROVE  x \in UrlsMarked("add", new) <=> x \in (CurrentUrls(u) \cup add) \ remove
  <2>1. CASE x \in NewRemovals(u, add, remove)
    <3>1. PICK b \in B : b.url = x
      BY <1>1, <2>1 DEF Block
    <3>2. \A r \in new : r.action = "add" => r.id < b.id
      BY <1>1, <1>3, <1>4, <3>1 DEF Block, new
    <3>3. b \in new /\ x \in remove
      BY <2>1 DEF new, NewRemovals
    <3>4. x \notin UrlsMarked("add", new)
      <4>1. SUFFICES ASSUME NEW r \in new, r.action = "add",
                            \A q \in new : q.url = x => q.id <= r.id
                     PROVE  FALSE
        BY MarkedMeansNewest
      <4>2. b.id <= r.id /\ r.id < b.id /\ r.id \in Nat /\ b.id \in Nat
        BY <1>3, <3>1, <3>2, <3>3, <4>1
      <4>. QED BY <4>2
    <3>. QED BY <3>3, <3>4
  <2>2. CASE x \in NewAdditions(u, add) /\ x \notin NewRemovals(u, add, remove)
    <3>1. PICK a \in A : a.url = x
      BY <1>1, <2>2 DEF Block
    <3>2. \A q \in new : q.url = x => q.id <= a.id
      BY <1>1, <1>3, <1>4, <2>2, <3>1 DEF Block, new
    <3>3. a \in new /\ a.action = "add"
      BY <1>1 DEF new, Block
    <3>4. x \in UrlsMarked("add", new)
      BY <3>1, <3>2, <3>3, MarkedMeansNewest
    <3>. QED BY <2>2, <3>4 DEF NewAdditions, NewRemovals
  <2>3. CASE x \notin NewAdditions(u, add) /\ x \notin NewRemovals(u, add, remove)
    <3>1. \A r : r.url = x => (r \in new <=> r \in old)
      BY <1>1, <2>3 DEF Block, new
    <3>2. x \in UrlsMarked("add", new) <=> x \in UrlsMarked("add", old)
      BY <3>1, MarkedMeansNewest
    <3>. QED BY <2>3, <3>2 DEF NewAdditions, NewRemovals, CurrentUrls, old
  <2>. QED BY <2>1, <2>2, <2>3
<1>6. CurrentUrls(u)' = (CurrentUrls(u) \cup add) \ remove
  BY <1>2, <1>5 DEF CurrentUrls
<1>7. ASSUME NEW v \in Users \ {u} PROVE CurrentUrls(v)' = CurrentUrls(v)
  <2>1. RowsOf(v)' = RowsOf(v)
    BY <1>1 DEF RowsOf, Block
  <2>. QED BY <2>1 DEF CurrentUrls
<1>. QED BY <1>6, <1>7

(* The log implements one shared list per account: the initial log is the empty  *)
(* lists, an upload is one Apply, every other request leaves the lists alone.    *)
THEOREM LogImplementsList == Spec => ImplementsAccountList
<1>1. Init => Shared!Init
  BY DEF Init, Shared!Init, CurrentUrls, UrlsMarked, LatestPerUrl, RowsOf
<1>2. LogInv /\ [Next]_logVars => [Shared!Next]_([u \in Users |-> CurrentUrls(u)])
  <2>1. SUFFICES ASSUME LogInv, [Next]_logVars
                 PROVE  [Shared!Next]_([u \in Users |-> CurrentUrls(u)])
    OBVIOUS
  <2>2. ASSUME changes' = changes
        PROVE  [u \in Users |-> CurrentUrls(u)]' = [u \in Users |-> CurrentUrls(u)]
    BY <2>2 DEF CurrentUrls, UrlsMarked, LatestPerUrl, RowsOf
  <2>3. ASSUME NEW u \in Users, NEW d \in DeviceIds,
               NEW add \in Batches, NEW remove \in Batches, Upload(u, d, add, remove)
        PROVE  Shared!Apply(u, Sanitised(add), Sanitised(remove))
    <3>1. /\ Sanitised(add) \subseteq Urls /\ IsFiniteSet(Sanitised(add))
          /\ Sanitised(remove) \subseteq Urls /\ IsFiniteSet(Sanitised(remove))
      BY <2>3, SanitisedUrls DEF Upload
    <3>2. /\ CurrentUrls(u)' = (CurrentUrls(u) \cup Sanitised(add)) \ Sanitised(remove)
          /\ \A v \in Users \ {u} : CurrentUrls(v)' = CurrentUrls(v)
      BY <2>1, <2>3, <3>1, CommitAppliesBatch DEF Upload
    <3>. QED BY <3>2 DEF Shared!Apply
  <2>4. ASSUME NEW u \in Users, NEW d \in DeviceIds,
               NEW add \in Batches, NEW remove \in Batches, Upload(u, d, add, remove)
        PROVE  Shared!Next
    <3>1. Sanitised(add) \in SUBSET Urls /\ Sanitised(remove) \in SUBSET Urls
      BY <2>4, SanitisedUrls DEF Upload
    <3>. QED BY <2>3, <2>4, <3>1 DEF Shared!Next
  <2>. QED BY <2>1, <2>2, <2>4 DEF Next, Read, RefusedUpload, logVars
<1>. QED BY <1>1, <1>2, LogInvariant, PTL DEF Spec, ImplementsAccountList, Shared!Spec

(* An upload leaves the list its batch describes, whatever was there before.     *)
THEOREM BatchProperty == Spec => BatchDecidesList
<1> DEFINE Decides == \A u \in Users, d \in DeviceIds, add, remove \in Batches :
                        Upload(u, d, add, remove)
                          => CurrentUrls(u)' = (CurrentUrls(u) \cup Sanitised(add)) \ Sanitised(remove)
<1>1. LogInv => Decides
  <2>1. SUFFICES ASSUME LogInv, NEW u \in Users, NEW d \in DeviceIds,
                        NEW add \in Batches, NEW remove \in Batches, Upload(u, d, add, remove)
                 PROVE  CurrentUrls(u)' = (CurrentUrls(u) \cup Sanitised(add)) \ Sanitised(remove)
    OBVIOUS
  <2>2. /\ Sanitised(add) \subseteq Urls /\ IsFiniteSet(Sanitised(add))
        /\ Sanitised(remove) \subseteq Urls /\ IsFiniteSet(Sanitised(remove))
    BY <2>1, SanitisedUrls DEF Upload
  <2>. QED BY <2>1, <2>2, CommitAppliesBatch DEF Upload
<1>. QED BY <1>1, LogInvariant, PTL DEF BatchDecidesList

--------------------------------------------------------------------------------
(* What a cursor delivers.                                                       *)

(* In a well-formed log every URL that occurs in some rows has a newest row.     *)
LEMMA NewestRowExists ==
  ASSUME LogInv, NEW rows \in SUBSET changes, NEW r \in rows
  PROVE  \E q \in rows : /\ q.url = r.url
                         /\ \A p \in rows : p.url = r.url => p.id <= q.id
<1> DEFINE same == {q \in rows : q.url = r.url}
           ids  == {q.id : q \in same}
<1>1. \A q \in changes : q.id \in Nat /\ q.id <= lastId
  BY DEF LogInv, TypeOK, IdsAreCursors, Row
<1>2. ids \in SUBSET Nat /\ ids # {} /\ lastId \in Nat /\ \A x \in ids : x <= lastId
  BY <1>1 DEF LogInv, TypeOK
<1>3. \E m \in ids : \A x \in ids : x <= m
  <2>. HIDE DEF ids
  <2>. QED BY <1>2, MaxOfBounded
<1>4. PICK q \in same : \A p \in same : p.id <= q.id
  BY <1>3
<1>. QED BY <1>4

(* Any well-formed log delivers exactly the difference between two lists.        *)
LEMMA DeltaFromLog == LogInv => DeltaRestoresList
<1> SUFFICES ASSUME LogInv, NEW u \in Users, NEW since \in 0..lastId, NEW x
             PROVE  x \in (ListAt(u, since) \cup AddedSince(u, since)) \ RemovedSince(u, since)
                      <=> x \in CurrentUrls(u)
  BY DEF DeltaRestoresList
<1> DEFINE rows   == RowsOf(u)
           before == {r \in rows : r.id <= since}
           after  == Window(u, since)
<1>1. /\ \A r \in rows : r.id \in Nat /\ r.action \in {"add", "remove"}
      /\ \A r, q \in rows : r.id = q.id => r = q
      /\ since \in Nat /\ after \subseteq changes
  BY DEF LogInv, TypeOK, IdsAreCursors, Row, RowsOf, Window
<1>2. /\ x \in ListAt(u, since) <=> x \in UrlsMarked("add", before)
      /\ x \in AddedSince(u, since) <=> x \in UrlsMarked("add", after)
      /\ x \in RemovedSince(u, since) <=> x \in UrlsMarked("remove", after)
      /\ x \in CurrentUrls(u) <=> x \in UrlsMarked("add", rows)
  BY DEF ListAt, AddedSince, RemovedSince, CurrentUrls
<1>3. \A r : r \in after <=> r \in rows /\ r.id > since
  BY DEF Window
<1>. HIDE DEF after
<1>4. CASE \E r \in after : r.url = x
  <2>1. PICK n \in after : n.url = x /\ \A p \in after : p.url = x => p.id <= n.id
    <3>1. PICK r \in after : r.url = x
      BY <1>4
    <3>2. after \in SUBSET changes
      BY <1>1
    <3>3. \E q \in after : q.url = r.url /\ \A p \in after : p.url = r.url => p.id <= q.id
      BY <3>2, NewestRowExists
    <3>. QED BY <3>1, <3>3
  <2>2. n \in rows /\ \A p \in rows : p.url = x => p.id <= n.id
    BY <1>1, <1>3, <2>1
  <2>3. ASSUME NEW r \in rows, r.url = x, \A q \in rows : q.url = x => q.id <= r.id
        PROVE  r = n
    BY <1>1, <2>1, <2>2, <2>3
  <2>4. ASSUME NEW r \in after, r.url = x, \A q \in after : q.url = x => q.id <= r.id
        PROVE  r = n
    BY <1>1, <1>3, <2>1, <2>2, <2>4
  <2>5. x \in UrlsMarked("add", rows) <=> n.action = "add"
    BY <2>1, <2>2, <2>3, MarkedMeansNewest
  <2>6. \A action : x \in UrlsMarked(action, after) <=> n.action = action
    BY <2>1, <2>4, MarkedMeansNewest
  <2>. QED BY <1>1, <1>2, <2>2, <2>5, <2>6
<1>5. CASE ~ \E r \in after : r.url = x
  <2>1. \A action : x \notin UrlsMarked(action, after)
    BY <1>5, MarkedMeansNewest
  <2>2. \A r : r.url = x => (r \in rows <=> r \in before)
    BY <1>1, <1>3, <1>5
  <2>3. x \in UrlsMarked("add", rows) <=> x \in UrlsMarked("add", before)
    BY <2>2, MarkedMeansNewest
  <2>. QED BY <1>2, <2>1, <2>3
<1>. QED BY <1>4, <1>5

(* From any cursor at or below the newest id, adding and removing what           *)
(* changes_since reports turns the list of that moment into the list of now.     *)
THEOREM DeltaInvariant == Spec => []DeltaRestoresList
BY LogInvariant, DeltaFromLog, PTL

--------------------------------------------------------------------------------
(* The history of a feed.                                                        *)

(* HistoryAlternates at one row.                                                 *)
Alternates(rows, r) ==
  LET earlier == {q \in rows : q.user = r.user /\ q.url = r.url /\ q.id < r.id}
  IN  /\ earlier = {} => r.action = "add"
      /\ \A q \in LatestPerUrl(earlier) : q.action # r.action

(* HistoryAlternates is Alternates at every row.                                 *)
LEMMA AlternatesEverywhere ==
  HistoryAlternates <=> \A r \in changes : Alternates(changes, r)
<1>1. ASSUME NEW r \in changes
      PROVE  {q \in RowsOf(r.user) : q.url = r.url /\ q.id < r.id}
               = {q \in changes : q.user = r.user /\ q.url = r.url /\ q.id < r.id}
  BY DEF RowsOf
<1>2. LatestPerUrl({}) = {}
  BY DEF LatestPerUrl
<1>. QED BY <1>1, <1>2 DEF HistoryAlternates, Alternates

(* A commit keeps every feed's history alternating.                              *)
LEMMA CommitAlternates ==
  ASSUME LogInv, HistoryAlternates, NEW u \in Users, NEW d \in DeviceIds,
         NEW add \in SUBSET Urls, IsFiniteSet(add),
         NEW remove \in SUBSET Urls, IsFiniteSet(remove),
         Commit(u, d, add, remove)
  PROVE  HistoryAlternates'
<1>1. PICK A, B, middle :
        /\ changes' = changes \cup A \cup B
        /\ Block(A, u, d, "add", NewAdditions(u, add), lastId, middle)
        /\ Block(B, u, d, "remove", NewRemovals(u, add, remove), middle, lastId')
  BY CommitBlocks
<1> DEFINE Before(rows, r) == {q \in rows : q.user = r.user /\ q.url = r.url /\ q.id < r.id}
           old(x) == {q \in RowsOf(u) : q.url = x}
<1>2. /\ \A r \in changes : r.id \in Nat /\ r.id <= lastId /\ r.action \in {"add", "remove"}
      /\ \A r \in A : /\ r.id \in Nat /\ lastId < r.id /\ r.user = u /\ r.action = "add"
                      /\ r.id <= middle /\ r.url \in NewAdditions(u, add)
      /\ \A r \in B : /\ r.id \in Nat /\ lastId < r.id /\ r.user = u /\ r.action = "remove"
                      /\ middle < r.id /\ r.url \in NewRemovals(u, add, remove)
      /\ \A r, q \in A : r.url = q.url => r = q
      /\ \A r, q \in B : r.url = q.url => r = q
      /\ lastId \in Nat /\ middle \in Nat
  BY <1>1 DEF LogInv, TypeOK, IdsAreCursors, Row, Block
<1>3. ASSUME NEW r \in changes PROVE Alternates(changes', r)
  <2>1. Before(changes', r) = Before(changes, r)
    BY <1>1, <1>2
  <2>. QED BY <2>1, AlternatesEverywhere DEF Alternates
<1>4. ASSUME NEW r \in A PROVE Alternates(changes', r)
  <2>1. Before(changes', r) = old(r.url)
    BY <1>1, <1>2 DEF RowsOf
  <2>2. r.url \notin CurrentUrls(u)
    BY <1>2 DEF NewAdditions
  <2>3. ASSUME NEW q \in LatestPerUrl(old(r.url)) PROVE q.action # "add"
    BY <2>2, <2>3 DEF LatestPerUrl, CurrentUrls, UrlsMarked
  <2>. QED BY <1>2, <2>1, <2>3 DEF Alternates
<1>5. ASSUME NEW r \in B PROVE Alternates(changes', r)
  <2>1. CASE r.url \in NewAdditions(u, add)
    <3>1. PICK a \in A : a.url = r.url
      BY <1>1, <2>1 DEF Block
    <3>2. a \in Before(changes', r)
      BY <1>1, <1>2, <3>1
    <3>3. \A q \in Before(changes', r) : q = a \/ q.id < a.id
      BY <1>1, <1>2, <3>1
    <3>4. \A q \in LatestPerUrl(Before(changes', r)) : q = a
      <4>1. SUFFICES ASSUME NEW q \in LatestPerUrl(Before(changes', r)), q # a
                     PROVE  FALSE
        OBVIOUS
      <4>2. q \in Before(changes', r) /\ a.id <= q.id
        BY <3>1, <3>2 DEF LatestPerUrl
      <4>3. q.id < a.id /\ q.id \in Nat /\ a.id \in Nat
        BY <1>1, <1>2, <3>3, <4>1, <4>2
      <4>. QED BY <4>2, <4>3
    <3>. QED BY <1>2, <3>2, <3>4 DEF Alternates
  <2>2. CASE r.url \notin NewAdditions(u, add)
    <3>1. Before(changes', r) = old(r.url)
      BY <1>1, <1>2, <2>2 DEF RowsOf
    <3>2. r.url \in CurrentUrls(u)
      BY <1>2, <2>2 DEF NewAdditions, NewRemovals
    <3>3. PICK n \in RowsOf(u) : /\ n.url = r.url /\ n.action = "add"
                                /\ \A q \in RowsOf(u) : q.url = r.url => q.id <= n.id
      BY <3>2, MarkedMeansNewest DEF CurrentUrls
    <3>4. ASSUME NEW q \in LatestPerUrl(old(r.url)) PROVE q.action = "add"
      <4>1. n \in old(r.url) /\ q \in old(r.url) /\ n.id <= q.id /\ q.id <= n.id
        BY <3>3 DEF LatestPerUrl
      <4>2. q = n
        BY <1>2, <4>1 DEF RowsOf, LogInv, IdsAreCursors
      <4>. QED BY <3>3, <4>2
    <3>5. n \in old(r.url)
      BY <3>3
    <3>. QED BY <1>2, <3>1, <3>4, <3>5 DEF Alternates
  <2>. QED BY <2>1, <2>2
<1>6. \A r \in changes' : Alternates(changes', r)
  BY <1>1, <1>3, <1>4, <1>5
<1>7. HistoryAlternates' <=> \A r \in changes' : Alternates(changes', r)
  <2>1. ASSUME NEW r \in changes'
        PROVE  {q \in RowsOf(r.user)' : q.url = r.url /\ q.id < r.id} = Before(changes', r)
    BY DEF RowsOf
  <2>2. LatestPerUrl({}) = {}
    BY DEF LatestPerUrl
  <2>. QED BY <2>1, <2>2 DEF HistoryAlternates, Alternates
<1>. QED BY <1>6, <1>7

(* In every account the rows of one feed alternate between add and remove,       *)
(* whichever devices wrote them and however their uploads were ordered.          *)
THEOREM HistoryInvariant == Spec => []HistoryAlternates
<1>1. Init => HistoryAlternates
  BY DEF Init, HistoryAlternates
<1>2. LogInv /\ HistoryAlternates /\ [Next]_logVars => HistoryAlternates'
  <2>1. SUFFICES ASSUME LogInv, HistoryAlternates, [Next]_logVars PROVE HistoryAlternates'
    OBVIOUS
  <2>2. ASSUME changes' = changes PROVE HistoryAlternates'
    BY <2>1, <2>2 DEF HistoryAlternates, RowsOf, LatestPerUrl
  <2>3. ASSUME NEW u \in Users, NEW d \in DeviceIds,
               NEW add \in Batches, NEW remove \in Batches, Upload(u, d, add, remove)
        PROVE  HistoryAlternates'
    BY <2>1, <2>3, SanitisedUrls, CommitAlternates DEF Upload
  <2>. QED BY <2>1, <2>2, <2>3 DEF Next, Read, RefusedUpload, logVars
<1>. QED BY <1>1, <1>2, LogInvariant, PTL DEF Spec
================================================================================

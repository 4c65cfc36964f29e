---------------------------- MODULE EpisodeLog_proofs ----------------------------
(* Theorems about EpisodeLog, for every set of accounts, groups, contents and    *)
(* moments.                                                                      *)
EXTENDS EpisodeLog, WellFoundedInduction, FiniteSetTheorems, TLAPS

--------------------------------------------------------------------------------
(* Greatest and least elements of a set of naturals: the newest id, the first row. *)

(* A non-empty set of naturals with an upper bound has a greatest element.       *)
LEMMA BoundedMax ==
  ASSUME NEW S \in SUBSET Nat, S # {}, NEW n \in Nat, \A x \in S : x <= n
  PROVE  \E m \in S : \A x \in S : x <= m
<1> DEFINE T == {n - x : x \in S}
           Less == {p \in Nat \X Nat : p[1] < p[2]}
<1>1. T \subseteq Nat /\ T # {}
  <2>1. \A x \in S : n - x \in Nat
    OBVIOUS
  <2>. QED BY <2>1
<1>2. IsWellFoundedOn(Less, Nat)
  BY NatLessThanWellFounded DEF OpToRel
<1>3. PICK t \in T : \A y \in T : ~ (<<y, t>> \in Less)
  <2>. HIDE DEF T, Less
  <2>. QED BY <1>1, <1>2, WFMin
<1>4. \A y \in T : ~ (y < t)
  BY <1>1, <1>3
<1>5. PICK m \in S : t = n - m
  OBVIOUS
<1>6. \A x \in S : x <= m
  <2>1. SUFFICES ASSUME NEW x \in S PROVE x <= m
    OBVIOUS
  <2>2. ~ (n - x < n - m)
    BY <1>4, <1>5
  <2>3. n \in Nat /\ m \in Nat /\ x \in Nat
    OBVIOUS
  <2>. HIDE DEF T, Less
  <2>. QED BY <2>2, <2>3, SMT
<1>. QED BY <1>6

(* Max is that element.                                                          *)
LEMMA MaxOfBounded ==
  ASSUME NEW S \in SUBSET Nat, S # {}, NEW n \in Nat, \A x \in S : x <= n
  PROVE  Max(S) \in S /\ \A x \in S : x <= Max(S)
<1>1. \E m \in S : \A x \in S : m >= x
  BY BoundedMax
<1>. QED BY <1>1 DEF Max

(* A non-empty set of naturals has a least element.                              *)
LEMMA LeastNat ==
  ASSUME NEW S \in SUBSET Nat, S # {}
  PROVE  \E m \in S : \A x \in S : m <= x
<1> DEFINE Less == {p \in Nat \X Nat : p[1] < p[2]}
<1>1. IsWellFoundedOn(Less, Nat)
  BY NatLessThanWellFounded DEF OpToRel
<1>2. PICK m \in S : \A y \in S : ~ (<<y, m>> \in Less)
  <2>. HIDE DEF Less
  <2>. QED BY <1>1, WFMin
<1>3. \A y \in S : m <= y
  <2>1. SUFFICES ASSUME NEW y \in S, y < m PROVE FALSE
    OBVIOUS
  <2>2. <<y, m>> \in Less
    BY <2>1
  <2>. QED BY <1>2, <2>2
<1>. QED BY <1>3

--------------------------------------------------------------------------------
(* The invariant of the log.                                                     *)

(* What an accepted upload adds: rows above lastId, each id and content new.     *)
LEMMA StoredRows ==
  ASSUME LogInv, NEW u \in Users, NEW batch \in Batches, NEW importing \in BOOLEAN,
         NEW now \in Times, ~NamesBadDevice(batch)
  PROVE  /\ Stored(u, batch, importing, now) \subseteq Row
         /\ \A r \in Stored(u, batch, importing, now) :
              /\ r.user = u /\ lastId < r.id /\ r.id <= lastId + Len(batch)
              /\ \E i \in DOMAIN batch : r.device = batch[i].device
              /\ \A q \in records : ~SameContent(q, r)
              /\ importing => r.at = ImportSentinel
         /\ \A r, q \in Stored(u, batch, importing, now) :
              r.id = q.id \/ SameContent(r, q) => r = q
<1> DEFINE rec(i) == RecordOf(u, batch[i], lastId + i, importing, now)
           kept == {k \in DOMAIN batch :
                      /\ \A r \in records : ~SameContent(r, rec(k))
                      /\ \A j \in DOMAIN batch : j < k => ~SameContent(rec(j), rec(k))}
<1>1. Stored(u, batch, importing, now) = {rec(i) : i \in kept}
  BY DEF Stored
<1>2. /\ lastId \in Nat /\ Len(batch) \in Nat /\ DOMAIN batch = 1..Len(batch)
      /\ \A i \in DOMAIN batch : batch[i] \in Entry /\ batch[i].device # BadDevice
  BY LimitsAssumption DEF LogInv, TypeOK, Batches, NamesBadDevice
<1>3. ASSUME NEW i \in DOMAIN batch
      PROVE  /\ rec(i) \in Row /\ rec(i).user = u /\ rec(i).id = lastId + i
             /\ rec(i).device = batch[i].device
             /\ importing => rec(i).at = ImportSentinel
  <2>1. /\ batch[i].group \in Groups /\ batch[i].content \in Contents
        /\ batch[i].device \in DeviceIds \cup {NoDevice}
        /\ batch[i].at \in Times \cup {Unstamped}
    BY <1>2 DEF Entry
  <2>2. lastId + i \in Nat \ {0}
    BY <1>2
  <2>3. rec(i).at \in Times
    BY <2>1, TimesAssumption DEF RecordOf
  <2>. QED BY <2>1, <2>2, <2>3 DEF RecordOf, Row
<1>. HIDE DEF rec
<1>4. \A i, j \in kept : rec(i).id = rec(j).id \/ SameContent(rec(i), rec(j)) => i = j
  <2>1. SUFFICES ASSUME NEW i \in kept, NEW j \in kept, i < j
                 PROVE  rec(i).id # rec(j).id /\ ~SameContent(rec(i), rec(j))
                                              /\ ~SameContent(rec(j), rec(i))
    BY <1>2
  <2>. QED BY <1>2, <1>3, <2>1 DEF SameContent
<1>. QED BY <1>1, <1>2, <1>3, <1>4

(* An accepted upload keeps the log well formed.                                 *)
LEMMA UploadKeepsLogInv ==
  ASSUME LogInv, NEW u \in Users, NEW batch \in Batches, NEW importing \in BOOLEAN,
         NEW now \in Times, Upload(u, batch, importing, now)
  PROVE  LogInv'
<1> DEFINE new == Stored(u, batch, importing, now)
<1>1. /\ ~NamesBadDevice(batch) /\ MentionAll(u, batch)
      /\ records' = records \cup new /\ lastId' = lastId + Len(batch)
  BY DEF Upload
<1>2. /\ new \subseteq Row
      /\ \A r \in new : /\ r.user = u /\ lastId < r.id /\ r.id <= lastId + Len(batch)
                        /\ \E i \in DOMAIN batch : r.device = batch[i].device
                        /\ \A q \in records : ~SameContent(q, r)
      /\ \A r, q \in new : r.id = q.id \/ SameContent(r, q) => r = q
  BY <1>1, StoredRows
<1>3. /\ lastId \in Nat /\ Len(batch) \in Nat /\ DOMAIN batch = 1..Len(batch)
      /\ \A i \in DOMAIN batch : batch[i].device \in DeviceIds \cup {NoDevice}
  BY <1>1, LimitsAssumption DEF LogInv, TypeOK, Batches, Entry, NamesBadDevice
<1>. HIDE DEF new
<1>4. devices' = devices \cup {<<u, batch[i].device>> :
                                i \in {k \in DOMAIN batch : batch[k].device # NoDevice}}
  BY <1>1, <1>3 DEF MentionAll, NamesBadDevice
<1>5. TypeOK'
  BY <1>1, <1>2, <1>3, <1>4 DEF LogInv, TypeOK
<1>6. \A r \in records : r.id \in Nat /\ r.id <= lastId
  BY DEF LogInv, TypeOK, Row
<1>7. \A r \in records' : r.id <= lastId'
  BY <1>1, <1>2, <1>3, <1>6 DEF Row
<1>8. ASSUME NEW r \in records', NEW q \in records', r.id = q.id \/ SameContent(r, q)
      PROVE  r = q
  <2>1. CASE r \in records /\ q \in records
    BY <1>8, <2>1 DEF LogInv
  <2>2. CASE r \in new /\ q \in new
    BY <1>2, <1>8, <2>2
  <2>3. CASE r \in records /\ q \in new
    BY <1>2, <1>3, <1>6, <1>8, <2>3 DEF Row
  <2>4. CASE r \in new /\ q \in records
    BY <1>2, <1>3, <1>6, <1>8, <2>4 DEF Row, SameContent
  <2>. QED BY <1>1, <2>1, <2>2, <2>3, <2>4
<1>9. \A r \in records' : r.device # NoDevice => <<r.user, r.device>> \in devices'
  <2>1. SUFFICES ASSUME NEW r \in new, r.device # NoDevice
                 PROVE  <<r.user, r.device>> \in devices'
    BY <1>1, <1>4 DEF LogInv
  <2>2. PICK i \in DOMAIN batch : r.device = batch[i].device
    BY <1>2
  <2>. QED BY <1>2, <1>4, <2>1, <2>2
<1>. QED BY <1>5, <1>7, <1>8, <1>9 DEF LogInv

(* Type correctness, unique ids below lastId, one row per reported content, and  *)
(* the device foreign key, for any number of accounts, groups and uploads.       *)
THEOREM LogInvariant == Spec => []LogInv
<1>1. Init => LogInv
  BY DEF Init, LogInv, TypeOK
<1>2. LogInv /\ [Next]_episodeVars => LogInv'
  <2>1. SUFFICES ASSUME LogInv, [Next]_episodeVars PROVE LogInv'
    OBVIOUS
  <2>2. ASSUME NEW u \in Users, NEW batch \in Batches, RefusedUpload(u, batch)
        PROVE  LogInv'
    <3>1. {<<u, batch[i].device>> : i \in {k \in DOMAIN batch :
             batch[k].device # NoDevice /\ \A j \in 1..k : batch[j].device # BadDevice}}
            \subseteq Users \X DeviceIds
      <4>1. SUFFICES ASSUME NEW k \in DOMAIN batch, batch[k].device # NoDevice,
                            \A j \in 1..k : batch[j].device # BadDevice
                     PROVE  batch[k].device \in DeviceIds
        OBVIOUS
      <4>2. k \in 1..k /\ batch[k] \in Entry
        BY LimitsAssumption DEF Batches
      <4>. QED BY <4>1, <4>2 DEF Entry
    <3>. QED BY <2>1, <2>2, <3>1 DEF RefusedUpload, MentionAll, LogInv, TypeOK
  <2>3. CASE UNCHANGED episodeVars
    BY <2>1, <2>3 DEF episodeVars, LogInv, TypeOK
  <2>. QED BY <2>1, <2>2, <2>3, UploadKeepsLogInv DEF Next
<1>. QED BY <1>1, <1>2, PTL DEF Spec

--------------------------------------------------------------------------------
(* Winners.                                                                      *)

WinnersOf(u, g) == {r \in RowsOf(u) : r.group = g /\ ~Superseded(r)}

(* In a well-formed log a group with a row has a winner: of its rows with the    *)
(* latest moment, the one with the lowest id.                                    *)
LEMMA WinnerExists ==
  ASSUME LogInv, NEW r \in records
  PROVE  WinnersOf(r.user, r.group) # {}
<1> DEFINE rows   == {q \in records : q.user = r.user /\ q.group = r.group}
           ats    == {q.at : q \in rows}
<1>1. \A q \in records : q.id \in Nat /\ q.at \in Times /\ q.at \in Nat
  BY TimesAssumption DEF LogInv, TypeOK, Row
<1>2. PICK last \in Times : \A t \in Times : t <= last
  BY TimesAssumption
<1>3. ats \in SUBSET Nat /\ ats # {} /\ last \in Nat /\ \A t \in ats : t <= last
  BY <1>1, <1>2, TimesAssumption
<1>4. PICK m \in ats : \A t \in ats : t <= m
  <2>. HIDE DEF ats
  <2>. QED BY <1>3, BoundedMax
<1> DEFINE latest == {q \in rows : q.at = m}
           ids    == {q.id : q \in latest}
<1>5. ids \in SUBSET Nat /\ ids # {}
  BY <1>1
<1>6. PICK n \in ids : \A i \in ids : n <= i
  <2>. HIDE DEF ids
  <2>. QED BY <1>5, LeastNat
<1>7. PICK w \in latest : w.id = n
  OBVIOUS
<1>8. ~Superseded(w)
  <2>1. SUFFICES ASSUME NEW q \in records, Beats(q, w) PROVE FALSE
    BY DEF Superseded
  <2>2. q \in rows /\ q.at <= w.at /\ q.at \in Nat /\ w.at \in Nat
    BY <1>1, <1>4, <1>7, <2>1 DEF Beats
  <2>3. q.at = w.at /\ q.id < w.id
    BY <2>1, <2>2 DEF Beats
  <2>4. n <= q.id /\ q.id \in Nat /\ n \in Nat
    BY <1>1, <1>6, <1>7, <2>2, <2>3
  <2>. QED BY <1>7, <2>3, <2>4
<1>. QED BY <1>7, <1>8 DEF WinnersOf, RowsOf

(* And only one.                                                                 *)
LEMMA WinnerUnique ==
  ASSUME LogInv, NEW u, NEW g, NEW v \in WinnersOf(u, g), NEW w \in WinnersOf(u, g)
  PROVE  v = w
<1>1. /\ v \in records /\ w \in records /\ ~Beats(v, w) /\ ~Beats(w, v)
      /\ v.user = w.user /\ v.group = w.group
  BY DEF WinnersOf, RowsOf, Superseded
<1>2. \A q \in records : q.id \in Nat /\ q.at \in Nat
  BY TimesAssumption DEF LogInv, TypeOK, Row
<1>3. v.at = w.at /\ v.id = w.id
  BY <1>1, <1>2 DEF Beats
<1>. QED BY <1>1, <1>3 DEF LogInv

(* A download carries exactly one position of everything known about a group.    *)
THEOREM OneWinnerInvariant == Spec => []OneWinner
<1>1. LogInv => OneWinner
  <2>1. SUFFICES ASSUME LogInv, NEW r \in records
                 PROVE  \E w \in records :
                          /\ w.user = r.user /\ w.group = r.group /\ ~Superseded(w)
                          /\ \A v \in records : v.user = r.user /\ v.group = r.group
                                                  /\ ~Superseded(v) => v = w
    BY DEF OneWinner
  <2>2. PICK w \in WinnersOf(r.user, r.group) : TRUE
    BY <2>1, WinnerExists
  <2>3. \A v \in records : v.user = r.user /\ v.group = r.group /\ ~Superseded(v) => v = w
    <3>1. SUFFICES ASSUME NEW v \in records, v.user = r.user, v.group = r.group,
                          ~Superseded(v)
                   PROVE  v = w
      OBVIOUS
    <3>2. v \in WinnersOf(r.user, r.group)
      BY <3>1 DEF WinnersOf, RowsOf
    <3>. QED BY <2>1, <3>2, WinnerUnique
  <2>. QED BY <2>3 DEF WinnersOf, RowsOf
<1>. QED BY <1>1, LogInvariant, PTL

(* An import is stored under the sentinel, above every id handed out: no row of it *)
(* displaces one that is there, unless that one claims a moment before 1970.     *)
THEOREM ImportInvariant == Spec => []ImportOverridesNothing
<1>1. LogInv => ImportOverridesNothing
  <2>1. SUFFICES ASSUME LogInv, NEW u \in Users, NEW entry \in Entry,
                        NEW i \in 1..MaxActionsPerRequest, NEW now \in Times,
                        NEW r \in records,
                        Beats(RecordOf(u, entry, lastId + i, TRUE, now), r)
                 PROVE  r.at < ImportSentinel
    BY DEF ImportOverridesNothing
  <2>2. PICK q : q = RecordOf(u, entry, lastId + i, TRUE, now)
    OBVIOUS
  <2>3. q.at = ImportSentinel /\ q.id = lastId + i
    BY <2>2 DEF RecordOf
  <2>4. i \in Nat \ {0} /\ lastId \in Nat
    BY LimitsAssumption, <2>1 DEF LogInv, TypeOK
  <2>5. /\ r.at \in Nat /\ ImportSentinel \in Nat
        /\ r.id \in Nat /\ r.id <= lastId
    BY TimesAssumption, <2>1 DEF LogInv, TypeOK, Row
  <2>6. q.at > r.at \/ (q.at = r.at /\ q.id < r.id)
    BY <2>1, <2>2 DEF Beats
  <2>. QED BY <2>3, <2>4, <2>5, <2>6
<1>. QED BY <1>1, LogInvariant, PTL

--------------------------------------------------------------------------------
(* Pages.                                                                        *)

(* The rows of a well-formed log are finitely many: each has an id of its own.   *)
LEMMA RowsFinite ==
  ASSUME LogInv, NEW S \in SUBSET records
  PROVE  IsFiniteSet(S)
<1> DEFINE id == [r \in S |-> r.id]
<1>1. id \in Injection(S, 1..lastId)
  BY DEF LogInv, TypeOK, Row, Injection, IsInjective
<1>2. IsFiniteSet(1..lastId)
  BY FS_Interval DEF LogInv, TypeOK
<1>. QED BY <1>1, <1>2, FS_Injection

(* A page of rows with ids of their own is never longer than the cap, never empty *)
(* without need, whole where it fits, and complete up to each of its rows.       *)
LEMMA PageFacts ==
  ASSUME NEW S, IsFiniteSet(S), NEW n \in Nat,
         \A r \in S : r.id \in Nat /\ r.id <= n,
         \A r, q \in S : r.id = q.id => r = q
  PROVE  /\ PageOf(S) \subseteq S
         /\ Cardinality(PageOf(S)) <= MaxActionsPerPage
         /\ S # {} => PageOf(S) # {}
         /\ Cardinality(S) <= MaxActionsPerPage => PageOf(S) = S
         /\ \A m \in PageOf(S), r \in S : r.id <= m.id => r \in PageOf(S)
<1> DEFINE upTo(r) == {q \in S : q.id <= r.id}
           ids(T)  == {r.id : r \in T}
<1>1. PageOf(S) = {r \in S : Cardinality(upTo(r)) <= MaxActionsPerPage}
  BY DEF PageOf
<1>2. MaxActionsPerPage \in Nat \ {0}
  BY LimitsAssumption
<1>3. ASSUME NEW r \in S
      PROVE  IsFiniteSet(upTo(r)) /\ Cardinality(upTo(r)) \in Nat
                                 /\ Cardinality(upTo(r)) <= Cardinality(S)
  BY FS_Subset, FS_CardinalityType
<1>4. Cardinality(PageOf(S)) <= MaxActionsPerPage
  <2>1. CASE PageOf(S) = {}
    BY <1>2, <2>1, FS_EmptySet
  <2>2. CASE PageOf(S) # {}
    <3>1. ids(PageOf(S)) \in SUBSET Nat /\ ids(PageOf(S)) # {}
            /\ \A x \in ids(PageOf(S)) : x <= n
      <4>1. \A r \in PageOf(S) : r.id \in Nat /\ r.id <= n
        BY <1>1
      <4>. QED BY <2>2, <4>1
    <3>2. PICK x \in ids(PageOf(S)) : \A y \in ids(PageOf(S)) : y <= x
      <4>. HIDE DEF ids
      <4>. QED BY <3>1, BoundedMax
    <3>3. PICK m \in PageOf(S) : \A r \in PageOf(S) : r.id <= m.id
      BY <3>2
    <3>4. PageOf(S) \in SUBSET upTo(m) /\ m \in S
      BY <1>1, <3>3
    <3>5. IsFiniteSet(PageOf(S)) /\ Cardinality(PageOf(S)) <= Cardinality(upTo(m))
      BY <1>3, <3>4, FS_Subset
    <3>6. Cardinality(PageOf(S)) \in Nat /\ Cardinality(upTo(m)) \in Nat
      BY <1>3, <3>4, <3>5, FS_CardinalityType
    <3>7. Cardinality(upTo(m)) <= MaxActionsPerPage
      BY <1>1, <3>3
    <3>. HIDE DEF upTo
    <3>. QED BY <1>2, <3>5, <3>6, <3>7
  <2>. QED BY <2>1, <2>2
<1>5. ASSUME S # {} PROVE PageOf(S) # {}
  <2>1. ids(S) \in SUBSET Nat /\ ids(S) # {}
    BY <1>5
  <2>2. PICK x \in ids(S) : \A y \in ids(S) : x <= y
    <3>. HIDE DEF ids
    <3>. QED BY <2>1, LeastNat
  <2>3. PICK m \in S : \A r \in S : m.id <= r.id
    BY <2>2
  <2>4. upTo(m) = {m}
    BY <2>3
  <2>5. Cardinality(upTo(m)) = 1
    BY <2>4, FS_Singleton
  <2>6. m \in PageOf(S)
    <3>. HIDE DEF upTo
    <3>. QED BY <1>1, <1>2, <2>5
  <2>. QED BY <2>6
<1>6. ASSUME Cardinality(S) <= MaxActionsPerPage PROVE PageOf(S) = S
  <2>1. Cardinality(S) \in Nat
    BY FS_CardinalityType
  <2>2. \A r \in S : Cardinality(upTo(r)) <= MaxActionsPerPage
    <3>. HIDE DEF upTo
    <3>. QED BY <1>2, <1>3, <1>6, <2>1
  <2>. QED BY <1>1, <2>2
<1>7. ASSUME NEW m \in PageOf(S), NEW r \in S, r.id <= m.id PROVE r \in PageOf(S)
  <2>1. m \in S /\ Cardinality(upTo(m)) <= MaxActionsPerPage
    BY <1>1
  <2>2. upTo(r) \in SUBSET upTo(m)
    BY <1>7, <2>1
  <2>3. Cardinality(upTo(r)) <= Cardinality(upTo(m))
    BY <1>3, <2>1, <2>2, FS_Subset
  <2>. HIDE DEF upTo
  <2>. QED BY <1>1, <1>2, <1>3, <2>1, <2>3
<1>. QED BY <1>1, <1>4, <1>5, <1>6, <1>7

(* The newest id of an account is that of one of its rows, or 0.                 *)
LEMMA NewestBounds ==
  ASSUME LogInv, NEW u
  PROVE  /\ Newest(u) \in Nat /\ Newest(u) <= lastId
         /\ \A r \in RowsOf(u) : r.id \in Nat /\ r.id <= Newest(u)
<1> DEFINE ids == {0} \cup {r.id : r \in RowsOf(u)}
<1>1. /\ ids \in SUBSET Nat /\ ids # {} /\ lastId \in Nat
      /\ \A x \in ids : x <= lastId
  BY DEF LogInv, TypeOK, Row, RowsOf
<1>2. Newest(u) = Max(ids)
  BY DEF Newest
<1>3. Max(ids) \in ids /\ \A x \in ids : x <= Max(ids)
  <2>. HIDE DEF ids
  <2>. QED BY <1>1, MaxOfBounded
<1>. QED BY <1>1, <1>2, <1>3

(* The cursor of an empty answer is the newest id, or where the reader was.      *)
LEMMA CursorForBounds ==
  ASSUME LogInv, NEW u, NEW floor \in Nat
  PROVE  /\ CursorFor(u, floor) \in {Newest(u), floor}
         /\ floor <= CursorFor(u, floor) /\ Newest(u) <= CursorFor(u, floor)
<1>1. Newest(u) \in Nat
  BY NewestBounds
<1>2. PICK n \in {Newest(u), floor} : Newest(u) <= n /\ floor <= n
  BY <1>1
<1>3. /\ {Newest(u), floor} \in SUBSET Nat /\ {Newest(u), floor} # {} /\ n \in Nat
      /\ \A x \in {Newest(u), floor} : x <= n
  BY <1>1, <1>2
<1>4. /\ Max({Newest(u), floor}) \in {Newest(u), floor}
      /\ \A x \in {Newest(u), floor} : x <= Max({Newest(u), floor})
  BY <1>3, MaxOfBounded
<1>. QED BY <1>4 DEF CursorFor

(* What one page promises to a reader at since.                                  *)
LEMMA PageSkipsNothing ==
  ASSUME LogInv, NEW u, NEW since \in Nat
  PROVE  /\ Page(u, since) \subseteq Winners(u, since)
         /\ \A r \in Winners(u, since) : r \in Page(u, since) \/ r.id > PageCursor(u, since)
         /\ \A r \in Page(u, since) : r.id <= PageCursor(u, since)
         /\ Page(u, since) # Winners(u, since) => PageCursor(u, since) > since
         /\ Cardinality(Page(u, since)) <= MaxActionsPerPage
         /\ PageCursor(u, since) >= since /\ PageCursor(u, since) \in Nat
         /\ PageCursor(u, since) <= lastId \/ PageCursor(u, since) = since
<1> DEFINE S == Winners(u, since)
           ids == {r.id : r \in Page(u, since)}
<1>1. S \in SUBSET records /\ \A r \in S : r.user = u /\ r.id > since
  BY DEF Winners, RowsOf
<1>2. /\ \A r \in S : r.id \in Nat /\ r.id <= lastId /\ r.id <= Newest(u)
      /\ lastId \in Nat /\ Newest(u) \in Nat /\ Newest(u) <= lastId
      /\ \A r, q \in S : r.id = q.id => r = q
  BY <1>1, NewestBounds DEF LogInv, TypeOK, Row, RowsOf
<1>3. IsFiniteSet(S) /\ Cardinality(S) \in Nat
  BY <1>1, RowsFinite, FS_CardinalityType
<1>4. /\ PageOf(S) \subseteq S
      /\ Cardinality(PageOf(S)) <= MaxActionsPerPage
      /\ S # {} => PageOf(S) # {}
      /\ Cardinality(S) <= MaxActionsPerPage => PageOf(S) = S
      /\ \A m \in PageOf(S), r \in S : r.id <= m.id => r \in PageOf(S)
  <2>. HIDE DEF S
  <2>. QED BY <1>2, <1>3, PageFacts
<1>5. Page(u, since) = PageOf(S)
  BY DEF Page
<1>6. MaxActionsPerPage \in Nat \ {0}
  BY LimitsAssumption
<1>. HIDE DEF S
<1>7. CASE Cardinality(S) > MaxActionsPerPage
  <2>1. PageCursor(u, since) = Max(ids)
    BY <1>7 DEF PageCursor, S
  <2>2. S # {}
    BY <1>6, <1>7, FS_EmptySet
  <2>3. ids \in SUBSET Nat /\ ids # {} /\ \A x \in ids : x <= lastId
    BY <1>2, <1>4, <1>5, <2>2
  <2>4. Max(ids) \in ids /\ \A x \in ids : x <= Max(ids)
    <3>. HIDE DEF ids
    <3>. QED BY <1>2, <2>3, MaxOfBounded
  <2>5. PICK m \in PageOf(S) : m.id = Max(ids)
    BY <1>5, <2>4
  <2>6. m \in S /\ m.id > since /\ m.id <= lastId
    BY <1>1, <1>2, <1>4, <2>5
  <2>7. \A r \in Page(u, since) : r.id <= Max(ids)
    BY <2>4
  <2>8. \A r \in S : r \in PageOf(S) \/ r.id > Max(ids)
    BY <1>2, <1>4, <2>5, <2>6
  <2>. HIDE DEF ids
  <2>. QED BY <1>2, <1>4, <1>5, <2>1, <2>5, <2>6, <2>7, <2>8 DEF S
<1>8. CASE ~(Cardinality(S) > MaxActionsPerPage)
  <2>1. PageCursor(u, since) = CursorFor(u, since)
    BY <1>8 DEF PageCursor, S
  <2>2. PageOf(S) = S
    BY <1>3, <1>4, <1>6, <1>8
  <2>3. /\ CursorFor(u, since) \in {Newest(u), since}
        /\ since <= CursorFor(u, since) /\ Newest(u) <= CursorFor(u, since)
    BY CursorForBounds
  <2>. QED BY <1>2, <1>4, <1>5, <2>1, <2>2, <2>3 DEF S
<1>. QED BY <1>7, <1>8

(* Following cursors from anywhere skips no winner, for any cap and any log.     *)
THEOREM PagesInvariant == Spec => []PagesSkipNothing
<1>1. LogInv => PagesSkipNothing
  <2>1. SUFFICES ASSUME LogInv, NEW u \in Users, NEW since \in 0..lastId
                 PROVE  /\ \A r \in Winners(u, since) :
                              r \in PageOf(Winners(u, since)) \/ r.id > PageCursor(u, since)
                        /\ \A r \in PageOf(Winners(u, since)) : r.id <= PageCursor(u, since)
                        /\ PageOf(Winners(u, since)) # Winners(u, since)
                             => PageCursor(u, since) > since
                        /\ Cardinality(PageOf(Winners(u, since))) <= MaxActionsPerPage
                        /\ PageCursor(u, since) >= since
    BY DEF PagesSkipNothing
  <2>. QED BY <2>1, PageSkipsNothing DEF Page
<1>. QED BY <1>1, LogInvariant, PTL

--------------------------------------------------------------------------------
(* Refinement.                                                                   *)

(* The winner that Winner names: the row nothing beats, where there is one.      *)
WinnerFacts ==
  /\ \A w \in records : ~Superseded(w) => Winner(w.user, w.group) = ClaimOf(w)
  /\ \A r \in records : \E w \in records :
       w.user = r.user /\ w.group = r.group /\ ~Superseded(w)
  /\ \A u \in Users, g \in Groups :
       (\A r \in records : ~(r.user = u /\ r.group = g)) => Winner(u, g) = NoClaim

LEMMA WinnersAreKnown == LogInv => WinnerFacts
<1> SUFFICES ASSUME LogInv PROVE WinnerFacts
  OBVIOUS
<1>1. \A u, g : Winner(u, g) = IF WinnersOf(u, g) = {} THEN NoClaim
                              ELSE ClaimOf(CHOOSE r \in WinnersOf(u, g) : TRUE)
  BY DEF Winner, WinnersOf
<1>2. ASSUME NEW w \in records, ~Superseded(w)
      PROVE  Winner(w.user, w.group) = ClaimOf(w)
  <2>1. w \in WinnersOf(w.user, w.group)
    BY <1>2 DEF WinnersOf, RowsOf
  <2>2. (CHOOSE r \in WinnersOf(w.user, w.group) : TRUE) \in WinnersOf(w.user, w.group)
    BY <2>1
  <2>3. (CHOOSE r \in WinnersOf(w.user, w.group) : TRUE) = w
    BY <2>1, <2>2, WinnerUnique
  <2>. QED BY <1>1, <2>1, <2>3
<1>3. ASSUME NEW r \in records
      PROVE  \E w \in records : w.user = r.user /\ w.group = r.group /\ ~Superseded(w)
  <2>1. PICK w \in WinnersOf(r.user, r.group) : TRUE
    BY WinnerExists
  <2>. QED BY <2>1 DEF WinnersOf, RowsOf
<1>4. ASSUME NEW u \in Users, NEW g \in Groups,
             \A r \in records : ~(r.user = u /\ r.group = g)
      PROVE  Winner(u, g) = NoClaim
  <2>1. WinnersOf(u, g) = {}
    BY <1>4 DEF WinnersOf, RowsOf
  <2>. QED BY <1>1, <2>1
<1>. QED BY <1>2, <1>3, <1>4 DEF WinnerFacts

Claims == {ClaimOf(r) : r \in records}

(* An accepted upload is a Report of its account: the claims grow by claims of   *)
(* the account, and each group serves what the promise allows.                   *)
LEMMA UploadReports ==
  ASSUME LogInv, LogInv', WinnerFacts, WinnerFacts',
         NEW u \in Users, NEW batch \in Batches, NEW importing \in BOOLEAN,
         NEW now \in Times, Upload(u, batch, importing, now)
  PROVE  Points!Report(u)
<1> DEFINE new == Stored(u, batch, importing, now)
<1>1. /\ records' = records \cup new /\ new \subseteq Row
      /\ \A r \in new : r.user = u /\ lastId < r.id
  BY StoredRows DEF Upload
<1>. HIDE DEF new
<1>2. Claims \subseteq Claims'
  BY <1>1 DEF Claims
<1>3. \A c \in Claims' \ Claims : c \in Points!Claim /\ c.user = u
  BY <1>1 DEF Claims, ClaimOf, Row, Points!Claim
<1>4. ASSUME NEW c \in Claims', NEW d \in Claims',
             c.user = d.user /\ c.group = d.group /\ c.content = d.content
      PROVE  c = d
  <2>1. PICK r \in records', q \in records' : c = ClaimOf(r) /\ d = ClaimOf(q)
    BY DEF Claims
  <2>2. SameContent(r, q)
    BY <1>4, <2>1 DEF ClaimOf, SameContent
  <2>. QED BY <2>1, <2>2 DEF LogInv
<1>5. \A r \in records' : r.id \in Nat /\ r.at \in Nat
  BY TimesAssumption DEF LogInv, TypeOK, Row
<1>6. \A r \in records : r.id <= lastId /\ lastId \in Nat
  BY DEF LogInv, TypeOK
<1>7. ASSUME NEW v \in Users, NEW g \in Groups
      PROVE  Points!Serves(v, g, Winner(v, g)', Winner(v, g), Claims')
  <2> DEFINE lead == Points!Leading(Claims', v, g)
  <2>1. \A c : c \in lead <=> \E r \in records' :
                 /\ c = ClaimOf(r) /\ r.user = v /\ r.group = g
                 /\ \A q \in records' : q.user = v /\ q.group = g => q.at <= r.at
    <3>1. Claims' = {ClaimOf(r) : r \in records'}
      BY DEF Claims
    <3>2. \A r : ClaimOf(r).user = r.user /\ ClaimOf(r).group = r.group
                                         /\ ClaimOf(r).at = r.at
      BY DEF ClaimOf
    <3>3. lead = {c \in {b \in Claims' : b.user = v /\ b.group = g} :
                    \A d \in {b \in Claims' : b.user = v /\ b.group = g} : d.at <= c.at}
      BY DEF Points!Leading
    <3>4. ASSUME NEW c \in lead
          PROVE  \E r \in records' :
                   /\ c = ClaimOf(r) /\ r.user = v /\ r.group = g
                   /\ \A q \in records' : q.user = v /\ q.group = g => q.at <= r.at
      <4>1. PICK r \in records' : c = ClaimOf(r)
        BY <3>1, <3>3
      <4>. QED BY <3>1, <3>2, <3>3, <4>1
    <3>5. ASSUME NEW r \in records', r.user = v, r.group = g,
                 \A q \in records' : q.user = v /\ q.group = g => q.at <= r.at
          PROVE  ClaimOf(r) \in lead
      BY <3>1, <3>2, <3>3, <3>5
    <3>. QED BY <3>4, <3>5
  <2>. HIDE DEF lead
  <2>2. CASE \A r \in records' : ~(r.user = v /\ r.group = g)
    <3>1. Winner(v, g)' = NoClaim /\ lead = {}
      BY <2>1, <2>2 DEF WinnerFacts
    <3>. QED BY <3>1 DEF Points!Serves, lead
  <2>3. CASE \E r \in records' : r.user = v /\ r.group = g
    <3>1. PICK w \in records' : w.user = v /\ w.group = g /\ ~Superseded(w)'
      BY <2>3 DEF WinnerFacts
    <3>2. Winner(v, g)' = ClaimOf(w)
      BY <3>1 DEF WinnerFacts
    <3>3. \A q \in records' : q.user = v /\ q.group = g => q.at <= w.at
      BY <1>5, <3>1 DEF Superseded, Beats
    <3>4. Winner(v, g)' \in lead
      BY <2>1, <3>1, <3>2, <3>3
    <3>5. ASSUME Winner(v, g) \in lead PROVE Winner(v, g)' = Winner(v, g)
      <4>1. PICK r \in records' :
              /\ Winner(v, g) = ClaimOf(r) /\ r.user = v /\ r.group = g
              /\ \A q \in records' : q.user = v /\ q.group = g => q.at <= r.at
        BY <2>1, <3>5
      <4>2. Winner(v, g) # NoClaim
        BY <4>1, NoClaimAssumption DEF LogInv, TypeOK, Row, ClaimOf
      <4>3. PICK old \in records : old.user = v /\ old.group = g /\ ~Superseded(old)
        BY <4>2 DEF WinnerFacts
      <4>4. Winner(v, g) = ClaimOf(old) /\ old.at = r.at /\ old \in records'
        BY <1>1, <4>1, <4>3 DEF WinnerFacts, ClaimOf
      <4>5. ~Superseded(old)'
        <5>1. SUFFICES ASSUME NEW q \in records', Beats(q, old) PROVE FALSE
          BY DEF Superseded, Beats
        <5>2. q.at = old.at /\ q.id < old.id
          BY <1>5, <4>1, <4>3, <4>4, <5>1 DEF Beats
        <5>3. q \notin records
          BY <4>3, <5>1 DEF Superseded
        <5>. QED BY <1>1, <1>5, <1>6, <4>3, <4>4, <5>2, <5>3
      <4>6. Winner(old.user, old.group)' = ClaimOf(old)
        BY <4>4, <4>5 DEF WinnerFacts
      <4>. QED BY <4>3, <4>4, <4>6
    <3>. QED BY <3>4, <3>5 DEF Points!Serves, lead
  <2>. QED BY <2>2, <2>3
<1>. QED BY <1>2, <1>3, <1>4, <1>7 DEF Points!Report, Claims

(* The log implements one resume point per account and group: it changes only    *)
(* for a later claim, whatever mixture of live reports, retries and imports      *)
(* arrives.                                                                      *)
THEOREM LogImplementsPoints == Spec => ImplementsResumePoints
<1>1. Init => Points!Init
  <2>1. SUFFICES ASSUME Init PROVE Points!Init
    OBVIOUS
  <2>2. \A u, g : Winner(u, g) = NoClaim
    BY <2>1 DEF Init, Winner, RowsOf
  <2>. QED BY <2>1, <2>2 DEF Init, Points!Init
<1>2. LogInv' => WinnerFacts'
  BY WinnersAreKnown, PTL
<1>3. LogInv /\ LogInv' /\ [Next]_episodeVars
        => [Points!Next]_<<{ClaimOf(r) : r \in records},
                           [u \in Users |-> [g \in Groups |-> Winner(u, g)]]>>
  <2>1. SUFFICES ASSUME LogInv, LogInv', [Next]_episodeVars
                 PROVE  [Points!Next]_<<{ClaimOf(r) : r \in records},
                                        [u \in Users |-> [g \in Groups |-> Winner(u, g)]]>>
    OBVIOUS
  <2>2. ASSUME records' = records
        PROVE  UNCHANGED <<{ClaimOf(r) : r \in records},
                           [u \in Users |-> [g \in Groups |-> Winner(u, g)]]>>
    BY <2>2 DEF Winner, RowsOf, Superseded, ClaimOf
  <2>3. ASSUME NEW u \in Users, NEW batch \in Batches, NEW importing \in BOOLEAN,
               NEW now \in Times, Upload(u, batch, importing, now)
        PROVE  Points!Next
    BY <1>2, <2>1, <2>3, WinnersAreKnown, UploadReports DEF Points!Next
  <2>. QED BY <2>1, <2>2, <2>3 DEF Next, RefusedUpload, episodeVars
<1>. QED BY <1>1, <1>3, LogInvariant, PTL DEF Spec, ImplementsResumePoints, Points!Spec
================================================================================
